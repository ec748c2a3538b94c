-------------------------- MODULE IOHistoryProofs --------------------------
(***************************************************************************)
(* Proofs about IOHistory, for every schedule, retention, number of points *)
(* and history of captures, resets and retention runs.                     *)
(***************************************************************************)
EXTENDS IOHistory, FiniteSetTheorems, FunctionTheorems, TLAPS

-----------------------------------------------------------------------------
(* Extrema, order and sums. *)

LEMMA LeastNat ==
  ASSUME NEW S \in SUBSET Nat, S # {}
  PROVE  \E x \in S : \A y \in S : x <= y
<1>1. PICK x \in S : \A y \in S : <<y, x>> \notin OpToRel(<, Nat)
  BY WFMin, NatLessThanWellFounded
<1>2. \A y \in S : ~(y < x)
  BY <1>1 DEF OpToRel
<1> QED
  BY <1>2

LEMMA MinOf ==
  ASSUME NEW S \in SUBSET Nat, S # {}
  PROVE  Min(S) \in S /\ \A y \in S : Min(S) <= y
BY LeastNat DEF Min

LEMMA MaxOf ==
  ASSUME NEW S \in SUBSET Nat, S # {}, NEW n \in Nat, \A x \in S : x <= n
  PROVE  Max(S) \in S /\ \A y \in S : y <= Max(S)
<1> DEFINE T == {m \in Nat : \A y \in S : y <= m}
<1>1. T \in SUBSET Nat /\ n \in T
  OBVIOUS
<1>2. PICK m \in T : \A k \in T : m <= k
  BY <1>1, LeastNat
<1>3. m \in S
  <2>1. SUFFICES ASSUME m \notin S PROVE FALSE
    OBVIOUS
  <2>2. PICK x \in S : TRUE
    OBVIOUS
  <2>3. m \in Nat /\ x \in Nat /\ x <= m /\ x # m
    BY <2>1, <2>2
  <2>4. m - 1 \in Nat /\ \A y \in S : y <= m - 1
    BY <2>1, <2>3
  <2>5. m - 1 \in T
    BY <2>4
  <2> QED
    BY <1>2, <2>3, <2>5
<1>4. \A y \in S : m >= y
  BY <1>2
<1>5. \E x \in S : \A y \in S : x >= y
  BY <1>3, <1>4
<1>6. Max(S) \in S /\ \A y \in S : Max(S) >= y
  BY <1>5 DEF Max
<1> QED
  BY <1>6

\* The members at most x.
Below(S, x) == {y \in S : y <= x}

LEMMA BelowGrows ==
  ASSUME NEW S \in SUBSET Nat, IsFiniteSet(S), NEW x \in S, NEW y \in S, x < y
  PROVE  /\ Cardinality(Below(S, x)) \in 1 .. Cardinality(S)
         /\ Cardinality(Below(S, y)) \in 1 .. Cardinality(S)
         /\ Cardinality(Below(S, x)) < Cardinality(Below(S, y))
<1> DEFINE A == Below(S, x)
           B == Below(S, y)
<1>0. A \in SUBSET S /\ B \in SUBSET S /\ x \in A /\ y \in B /\ y \notin A
  BY DEF Below
<1>1. A \in SUBSET S /\ B \in SUBSET S /\ A \in SUBSET B /\ x \in A /\ y \in B /\ y \notin A
  <2>1. \A z \in S : z <= x => z <= y
    OBVIOUS
  <2>2. \A z \in A : z \in B
    BY <2>1 DEF Below
  <2> QED
    BY <1>0, <2>2
<1> HIDE DEF A, B
<1>2. IsFiniteSet(A) /\ IsFiniteSet(B) /\ Cardinality(A) <= Cardinality(S) /\ Cardinality(B) <= Cardinality(S)
  BY <1>1, FS_Subset
<1>3. Cardinality(A) \in Nat /\ Cardinality(B) \in Nat /\ Cardinality(S) \in Nat
  BY <1>2, FS_CardinalityType
<1>4. Cardinality(A) # 0 /\ Cardinality(B) # 0
  BY <1>1, <1>2, FS_EmptySet
<1>5. Cardinality(A) <= Cardinality(B) /\ (Cardinality(B) = Cardinality(A) => B = A)
  BY <1>1, <1>2, FS_Subset
<1>6. B # A
  BY <1>1
<1>7. Cardinality(A) < Cardinality(B)
  BY <1>3, <1>5, <1>6
<1>8. Cardinality(A) \in 1 .. Cardinality(S) /\ Cardinality(B) \in 1 .. Cardinality(S)
  BY <1>2, <1>3, <1>4
<1> QED
  BY <1>7, <1>8 DEF A, B

LEMMA BelowSize ==
  ASSUME NEW S \in SUBSET Nat, IsFiniteSet(S), NEW x \in S
  PROVE  Cardinality(Below(S, x)) \in 1 .. Cardinality(S)
<1> DEFINE A == Below(S, x)
<1>1. A \in SUBSET S /\ x \in A
  BY DEF Below
<1> HIDE DEF A
<1>2. IsFiniteSet(A) /\ Cardinality(A) <= Cardinality(S)
  BY <1>1, FS_Subset
<1>3. Cardinality(A) \in Nat /\ Cardinality(S) \in Nat
  BY <1>2, FS_CardinalityType
<1>4. Cardinality(A) # 0
  BY <1>1, <1>2, FS_EmptySet
<1>5. Cardinality(A) \in 1 .. Cardinality(S)
  BY <1>2, <1>3, <1>4
<1> QED
  BY <1>5 DEF A

\* Ascending lists every member of the set once, in order.
LEMMA AscendingSorts ==
  ASSUME NEW S \in SUBSET Nat, IsFiniteSet(S)
  PROVE  /\ Cardinality(S) \in Nat
         /\ DOMAIN Ascending(S) = 1 .. Cardinality(S)
         /\ Ascending(S) \in Seq(S) /\ Len(Ascending(S)) = Cardinality(S)
         /\ \A i \in 1 .. Cardinality(S) : Ascending(S)[i] \in S
         /\ \A i, j \in 1 .. Cardinality(S) : i < j => Ascending(S)[i] < Ascending(S)[j]
         /\ \A x \in S : \E i \in 1 .. Cardinality(S) : Ascending(S)[i] = x
<1> DEFINE n == Cardinality(S)
           D == 1 .. n
           rank == [x \in S |-> Cardinality(Below(S, x))]
<1>1. n \in Nat
  BY FS_CardinalityType
<1>2. \A x \in S : rank[x] \in D
  BY BelowSize
<1>3. \A x, y \in S : x < y => rank[x] < rank[y]
  BY BelowGrows
<1>4. rank \in [S -> D]
  BY <1>2
<1> HIDE DEF rank
<1>5. \A x, y \in S : rank[x] = rank[y] => x = y
  <2> SUFFICES ASSUME NEW x \in S, NEW y \in S, rank[x] = rank[y], x # y
               PROVE  FALSE
    OBVIOUS
  <2>1. x < y \/ y < x
    OBVIOUS
  <2>2. rank[x] \in Int /\ rank[y] \in Int
    BY <1>1, <1>4
  <2> QED
    BY <1>3, <2>1, <2>2
<1>6. rank \in Injection(S, D)
  BY <1>4, <1>5, Fun_IsInj
<1>7. IsFiniteSet(D) /\ Cardinality(D) = n
  BY <1>1, FS_Interval
<1>8. rank \in Surjection(S, D)
  <2> HIDE DEF D
  <2> QED
    BY <1>6, <1>7, FS_Injection
<1>9. \A i \in D : \E x \in S : rank[x] = i
  BY <1>8 DEF Surjection
<1>10. \A i \in D : Ascending(S)[i] = CHOOSE x \in S : rank[x] = i
  BY DEF Ascending, Below, rank
<1>11. DOMAIN Ascending(S) = D
  BY DEF Ascending
<1>12. \A i \in D : Ascending(S)[i] \in S /\ rank[Ascending(S)[i]] = i
  BY <1>9, <1>10
<1> HIDE DEF D
<1>13. ASSUME NEW i \in D, NEW j \in D, i < j
       PROVE  Ascending(S)[i] < Ascending(S)[j]
  <2> DEFINE x == Ascending(S)[i]
             y == Ascending(S)[j]
  <2>1. x \in S /\ y \in S /\ rank[x] = i /\ rank[y] = j
    BY <1>12
  <2>2. i \in Nat /\ j \in Nat
    BY <1>1 DEF D
  <2> HIDE DEF x, y
  <2>3. x < y \/ x = y \/ y < x
    BY <2>1
  <2>4. x < y
    BY <1>3, <1>13, <2>1, <2>2, <2>3
  <2> QED
    BY <2>4 DEF x, y
<1>14. ASSUME NEW x \in S
       PROVE  \E i \in D : Ascending(S)[i] = x
  <2>1. rank[x] \in D
    BY <1>4
  <2> QED
    BY <1>5, <1>12, <2>1
<1>15. Ascending(S) \in Seq(S) /\ Len(Ascending(S)) = n
  <2>1. Ascending(S) = [i \in D |-> Ascending(S)[i]]
    BY <1>11 DEF Ascending, D
  <2>2. Ascending(S) \in [D -> S]
    BY <1>12, <2>1
  <2> QED
    BY <1>1, <1>11, <2>2 DEF D
<1> QED
  BY <1>1, <1>11, <1>12, <1>13, <1>14, <1>15 DEF D

Units(f) == UNION {{x} \X (1 .. f[x]) : x \in DOMAIN f}

LEMMA UnitsMember ==
  ASSUME NEW D, NEW f \in [D -> Nat]
  PROVE  /\ \A p \in Units(f) : p[1] \in D /\ p[2] \in 1 .. f[p[1]] /\ p = <<p[1], p[2]>>
         /\ \A x \in D : \A k \in 1 .. f[x] : <<x, k>> \in Units(f)
<1>1. DOMAIN f = D
  OBVIOUS
<1>2. ASSUME NEW p \in Units(f)
      PROVE  p[1] \in D /\ p[2] \in 1 .. f[p[1]] /\ p = <<p[1], p[2]>>
  <2>1. PICK x \in D : p \in {x} \X (1 .. f[x])
    BY <1>1 DEF Units
  <2> QED
    BY <2>1
<1>3. ASSUME NEW x \in D, NEW k \in 1 .. f[x]
      PROVE  <<x, k>> \in Units(f)
  <2>1. <<x, k>> \in {x} \X (1 .. f[x])
    OBVIOUS
  <2> QED
    BY <1>1, <2>1 DEF Units
<1> QED
  BY <1>2, <1>3

LEMMA UnitsFinite ==
  ASSUME NEW D, IsFiniteSet(D), NEW f \in [D -> Nat]
  PROVE  IsFiniteSet(Units(f))
<1> DEFINE part == [x \in D |-> {x} \X (1 .. f[x])]
           parts == {{x} \X (1 .. f[x]) : x \in D}
<1>1. part \in Surjection(D, parts)
  BY DEF Surjection
<1>2. ASSUME NEW x \in D
      PROVE  IsFiniteSet({x} \X (1 .. f[x]))
  <2> DEFINE n == f[x]
             I == 1 .. n
  <2>1. n \in Int /\ 1 \in Int
    OBVIOUS
  <2> HIDE DEF n
  <2>2. IsFiniteSet(I)
    BY <2>1, FS_Interval
  <2>3. IsFiniteSet({x})
    BY FS_Singleton
  <2> HIDE DEF I
  <2>4. IsFiniteSet({x} \X I)
    BY <2>2, <2>3, FS_Product
  <2> QED
    BY <2>4 DEF I, n
<1>3. \A P \in parts : IsFiniteSet(P)
  BY <1>2
<1>4. Units(f) = UNION parts
  BY DEF Units
<1> HIDE DEF part, parts
<1>5. IsFiniteSet(parts)
  BY <1>1, FS_Surjection
<1>6. IsFiniteSet(UNION parts)
  BY <1>3, <1>5, FS_UNION
<1> QED
  BY <1>4, <1>6

\* f is how long each of the disjoint spans lo[x] .. hi[x] takes, and T the
\* ticks they cover.
Covers(D, lo, hi, f, T) ==
  /\ IsFiniteSet(D) /\ lo \in [D -> Nat] /\ hi \in [D -> Nat]
  /\ \A x \in D : lo[x] <= hi[x]
  /\ \A x, y \in D : x # y => hi[x] <= lo[y] \/ hi[y] <= lo[x]
  /\ f \in [D -> Nat] /\ \A x \in D : f[x] = hi[x] - lo[x]
  /\ T \in SUBSET Nat /\ \A t \in Nat : t \in T <=> \E x \in D : lo[x] < t /\ t <= hi[x]

\* The lengths of disjoint spans add up to the number of ticks they cover.
LEMMA TotalIsTicks ==
  ASSUME NEW D, NEW lo, NEW hi, NEW f, NEW T, Covers(D, lo, hi, f, T)
  PROVE  /\ IsFiniteSet(T)
         /\ Total(f) = Cardinality(T)
         /\ Total(f) \in Nat
<1>0. /\ IsFiniteSet(D) /\ lo \in [D -> Nat] /\ hi \in [D -> Nat]
      /\ \A x, y \in D : x # y => hi[x] <= lo[y] \/ hi[y] <= lo[x]
      /\ T \in SUBSET Nat /\ \A t \in Nat : t \in T <=> \E x \in D : lo[x] < t /\ t <= hi[x]
  BY DEF Covers
<1>1. f \in [D -> Nat] /\ \A x \in D : f[x] = hi[x] - lo[x]
  BY DEF Covers
<1> DEFINE U == Units(f)
           tick == [p \in U |-> lo[p[1]] + p[2]]
<1>2. IsFiniteSet(U)
  BY <1>0, <1>1, UnitsFinite
<1>3. \A p \in U : p[1] \in D /\ p[2] \in 1 .. f[p[1]] /\ p = <<p[1], p[2]>>
  BY <1>1, UnitsMember
<1>4. \A x \in D : \A k \in 1 .. f[x] : <<x, k>> \in U
  BY <1>1, UnitsMember
<1>5. Total(f) = Cardinality(U)
  BY DEF Total, Units
<1> HIDE DEF U
<1>6. \A p \in U : tick[p] \in T /\ lo[p[1]] < tick[p] /\ tick[p] <= hi[p[1]]
  <2> SUFFICES ASSUME NEW p \in U
               PROVE  tick[p] \in T /\ lo[p[1]] < tick[p] /\ tick[p] <= hi[p[1]]
    OBVIOUS
  <2>1. PICK x \in D : x = p[1]
    BY <1>3
  <2>2. PICK k \in 1 .. f[x] : k = p[2]
    BY <1>3, <2>1
  <2>3. lo[x] \in Nat /\ hi[x] \in Nat /\ f[x] = hi[x] - lo[x]
    BY <1>0, <1>1
  <2>4. tick[p] = lo[x] + k
    BY <2>1, <2>2
  <2>5. lo[x] + k \in Nat /\ lo[x] < lo[x] + k /\ lo[x] + k <= hi[x]
    BY <2>2, <2>3
  <2> QED
    BY <1>0, <2>1, <2>4, <2>5
<1>7. ASSUME NEW p \in U, NEW q \in U, tick[p] = tick[q]
      PROVE  p = q
  <2>1. p[1] = q[1]
    <3>1. SUFFICES ASSUME p[1] # q[1] PROVE FALSE
      OBVIOUS
    <3>2. p[1] \in D /\ q[1] \in D
      BY <1>3
    <3>3. tick[p] \in Nat /\ lo[p[1]] \in Nat /\ lo[q[1]] \in Nat /\ hi[p[1]] \in Nat /\ hi[q[1]] \in Nat
      BY <1>0, <1>6, <3>2
    <3> QED
      BY <1>0, <1>6, <1>7, <3>1, <3>2, <3>3
  <2>2. p[2] = q[2]
    <3>1. tick[p] = lo[p[1]] + p[2] /\ tick[q] = lo[p[1]] + q[2]
      BY <2>1
    <3>2. p[1] \in D /\ p[2] \in 1 .. f[p[1]] /\ q[2] \in 1 .. f[p[1]]
      BY <1>3, <2>1
    <3>3. lo[p[1]] \in Nat /\ p[2] \in Int /\ q[2] \in Int
      BY <1>0, <1>1, <3>2
    <3> QED
      BY <1>7, <3>1, <3>3
  <2> QED
    BY <1>3, <2>1, <2>2
<1>8. ASSUME NEW t \in T
      PROVE  \E p \in U : tick[p] = t
  <2>1. PICK x \in D : lo[x] < t /\ t <= hi[x]
    BY <1>0
  <2>2. t - lo[x] \in 1 .. f[x]
    BY <1>0, <1>1, <2>1
  <2>3. <<x, t - lo[x]>> \in U
    BY <1>4, <2>2
  <2>4. tick[<<x, t - lo[x]>>] = lo[x] + (t - lo[x])
    BY <2>3
  <2> QED
    BY <1>0, <2>1, <2>3, <2>4
<1>9. tick \in Bijection(U, T)
  <2>1. tick \in [U -> T]
    BY <1>6
  <2> HIDE DEF tick
  <2>2. tick \in Injection(U, T)
    BY <2>1, <1>7, Fun_IsInj
  <2>3. tick \in Surjection(U, T)
    BY <2>1, <1>8, Fun_IsSurj
  <2> QED
    BY <2>2, <2>3 DEF Bijection
<1>10. ExistsBijection(U, T)
  BY <1>9 DEF ExistsBijection
<1>11. IsFiniteSet(T) /\ Cardinality(T) = Cardinality(U)
  BY <1>2, <1>10, FS_Bijection
<1>12. Cardinality(T) \in Nat
  BY <1>11, FS_CardinalityType
<1> QED
  BY <1>5, <1>11, <1>12

LEMMA TotalOfOne ==
  ASSUME NEW x, NEW v \in Nat, NEW f, f = [y \in {x} |-> v]
  PROVE  Total(f) = v
<1> DEFINE I == 1 .. v
<1>1. 1 \in Int /\ v \in Int
  OBVIOUS
<1>2. IsFiniteSet(I) /\ Cardinality(I) = v
  BY <1>1, FS_Interval
<1>3. IsFiniteSet({x}) /\ Cardinality({x}) = 1
  BY FS_Singleton
<1>4. UNION {{y} \X (1 .. f[y]) : y \in DOMAIN f} = {x} \X I
  <2>1. {{y} \X (1 .. f[y]) : y \in DOMAIN f} = {{x} \X I}
    OBVIOUS
  <2> QED
    BY <2>1
<1> HIDE DEF I
<1>5. Cardinality({x} \X I) = 1 * v
  BY <1>2, <1>3, FS_Product
<1> QED
  BY <1>4, <1>5 DEF Total

-----------------------------------------------------------------------------
(* Division. *)

LEMMA DivGrows ==
  ASSUME NEW a \in Nat, NEW b \in Nat, NEW w \in Nat \ {0}, a <= b
  PROVE  a \div w \in Nat /\ b \div w \in Nat /\ a \div w <= b \div w
<1> DEFINE p == a \div w
           q == b \div w
<1>1. p \in Int /\ q \in Int /\ a = (p * w) + (a % w) /\ b = (q * w) + (b % w) /\ a % w \in 0 .. w - 1 /\ b % w \in 0 .. w - 1
  OBVIOUS
<1> HIDE DEF p, q
<1>2. p >= 0 /\ q >= 0
  BY <1>1
<1>3. p <= q
  <2>1. SUFFICES ASSUME p >= q + 1 PROVE FALSE
    BY <1>1
  <2>2. p * w >= (q + 1) * w
    BY <1>1, <2>1
  <2>3. (q + 1) * w = q * w + w
    BY <1>1
  <2> QED
    BY <1>1, <2>2, <2>3
<1> QED
  BY <1>1, <1>2, <1>3 DEF p, q

LEMMA DivPositive ==
  ASSUME NEW a \in Nat, NEW w \in Nat \ {0}, w <= a
  PROVE  a \div w \in Nat \ {0}
<1>1. w \div w = 1
  OBVIOUS
<1>2. w \div w <= a \div w /\ a \div w \in Nat
  BY DivGrows
<1> QED
  BY <1>1, <1>2

LEMMA NextFireLater ==
  ASSUME NEW t \in Nat
  PROVE  NextFire(t) \in Nat /\ t < NextFire(t)
<1> DEFINE q == t \div Interval
<1>1. Interval \in Nat \ {0}
  BY IOAssumption
<1>2. q \in Int /\ t = (q * Interval) + (t % Interval) /\ t % Interval \in 0 .. Interval - 1
  BY <1>1
<1>3. q \in Nat
  BY <1>1, DivGrows
<1> HIDE DEF q
<1>4. (q + 1) * Interval = q * Interval + Interval
  BY <1>1, <1>3
<1>5. NextFire(t) = (q + 1) * Interval
  BY DEF NextFire, q
<1>6. q * Interval \in Int
  BY <1>1, <1>2
<1>7. (q + 1) * Interval \in Int /\ t < (q + 1) * Interval
  BY <1>1, <1>2, <1>4, <1>6
<1> QED
  BY <1>5, <1>7

-----------------------------------------------------------------------------
(* A chronological series of captures and its intervals. *)

Series(ms) ==
  /\ ms \in Seq(Capture)
  /\ \A i, j \in 1 .. Len(ms) : i < j => ms[i].at < ms[j].at

LEMMA CaptureFields ==
  ASSUME NEW c \in Capture
  PROVE  /\ c.at \in Nat /\ c.at <= MaxNow
         /\ c.count \in Nat /\ c.count <= MaxWork
         /\ c.epoch \in Nat /\ c.epoch <= MaxResets
BY IOAssumption DEF Capture

\* The headers in order: every one of them, once.
LEMMA ChronologicalSorts ==
  ASSUME NEW C \in SUBSET Capture, \A c, d \in C : c.at = d.at => c = d
  PROVE  /\ Series(Chronological(C))
         /\ \A i \in 1 .. Len(Chronological(C)) : Chronological(C)[i] \in C
         /\ \A c \in C : \E i \in 1 .. Len(Chronological(C)) : Chronological(C)[i] = c
<1> DEFINE T == {c.at : c \in C}
           times == Ascending(T)
           ms == Chronological(C)
           n == Cardinality(T)
<1>1. \A c \in C : c.at \in Nat /\ c.at <= MaxNow
  BY CaptureFields
<1>2. T \in SUBSET Nat /\ \A t \in T : t <= MaxNow
  BY <1>1
<1>3. \A c \in C : c.at \in T
  OBVIOUS
<1>4. \A t \in T : \E c \in C : c.at = t
  OBVIOUS
<1>5. ms = [i \in DOMAIN times |-> CHOOSE c \in C : c.at = times[i]]
  BY DEF Chronological
<1> HIDE DEF T, ms
<1>6. IsFiniteSet(T)
  BY <1>2, IOAssumption, FS_BoundedSetOfNaturals
<1>7. /\ n \in Nat
      /\ DOMAIN times = 1 .. n
      /\ \A i \in 1 .. n : times[i] \in T
      /\ \A i, j \in 1 .. n : i < j => times[i] < times[j]
      /\ \A x \in T : \E i \in 1 .. n : times[i] = x
  BY <1>2, <1>6, AscendingSorts
<1> HIDE DEF n, times
<1>8. \A i \in 1 .. n : ms[i] \in C /\ ms[i].at = times[i]
  BY <1>4, <1>5, <1>7
<1>9. ms \in Seq(C) /\ Len(ms) = n
  <2>1. ms \in [1 .. n -> C]
    BY <1>5, <1>7, <1>8
  <2> QED
    BY <1>7, <2>1
<1>10. ms \in Seq(Capture)
  BY <1>9
<1>11. \A i, j \in 1 .. n : i < j => ms[i].at < ms[j].at
  BY <1>7, <1>8
<1>12. ASSUME NEW c \in C
       PROVE  \E i \in 1 .. n : ms[i] = c
  <2>1. PICK i \in 1 .. n : times[i] = c.at
    BY <1>3, <1>7
  <2>2. ms[i] \in C /\ ms[i].at = c.at
    BY <1>8, <2>1
  <2> QED
    BY <2>2
<1>13. Series(ms)
  BY <1>9, <1>10, <1>11 DEF Series
<1> QED
  BY <1>8, <1>9, <1>12, <1>13 DEF ms

\* n intervals, each beginning where the one before ends.
IntervalsOK(ivs, n) ==
  /\ n \in Nat \ {0}
  /\ DOMAIN ivs = 1 .. n
  /\ Len(ivs) = n
  /\ \A i \in 1 .. n : /\ ivs[i].from \in Nat /\ ivs[i].to \in Nat
                       /\ ivs[i].complete \in BOOLEAN
                       /\ ivs[i].from < ivs[i].to
  /\ \A i \in 1 .. n - 1 : ivs[i].to = ivs[i + 1].from
  /\ \A i, j \in 1 .. n : i < j => ivs[i].to <= ivs[j].from

LEMMA SeriesIntervals ==
  ASSUME NEW ms, Series(ms), Len(ms) >= 2
  PROVE  /\ IntervalsOK(MetaIntervals(ms), Len(ms) - 1)
         /\ \A i \in 1 .. Len(ms) - 1 :
              /\ MetaIntervals(ms)[i].from = ms[i].at
              /\ MetaIntervals(ms)[i].to = ms[i + 1].at
              /\ MetaIntervals(ms)[i].complete <=> SameEpoch(ms[i], ms[i + 1])
<1> DEFINE n == Len(ms) - 1
           ivs == MetaIntervals(ms)
<1>1. Len(ms) \in Nat /\ n \in Nat \ {0} /\ n + 1 = Len(ms)
  BY DEF Series
<1>2. DOMAIN ivs = 1 .. n
  BY DEF MetaIntervals
<1>3. \A i \in 1 .. n + 1 : ms[i] \in Capture
  BY <1>1 DEF Series
<1>4. \A i \in 1 .. n + 1 : ms[i].at \in Nat
  BY <1>3, CaptureFields
<1>5. \A i, j \in 1 .. n + 1 : i < j => ms[i].at < ms[j].at
  BY <1>1 DEF Series
<1>6. \A i \in 1 .. n : ivs[i] = MetaInterval(ms, i)
  BY DEF MetaIntervals
<1>7. ivs = [i \in 1 .. n |-> MetaInterval(ms, i)]
  BY DEF MetaIntervals
<1>8. Len(ivs) = n
  BY <1>1, <1>7
<1> HIDE DEF ivs, n
<1>9. ASSUME NEW i \in 1 .. n
      PROVE  /\ ivs[i].from = ms[i].at /\ ivs[i].to = ms[i + 1].at
             /\ ivs[i].complete <=> SameEpoch(ms[i], ms[i + 1])
             /\ ivs[i].complete \in BOOLEAN
             /\ ms[i].at < ms[i + 1].at /\ ms[i].at \in Nat /\ ms[i + 1].at \in Nat
  <2>1. i \in 1 .. n + 1 /\ i + 1 \in 1 .. n + 1 /\ i < i + 1
    BY <1>1
  <2>2. ms[i].at < ms[i + 1].at /\ ms[i].at \in Nat /\ ms[i + 1].at \in Nat
    BY <1>4, <1>5, <2>1
  <2>3. MetaInterval(ms, i).from = ms[i].at /\ MetaInterval(ms, i).to = ms[i + 1].at
    BY DEF MetaInterval
  <2>4. MetaInterval(ms, i).complete = (ms[i + 1].at > ms[i].at /\ SameEpoch(ms[i], ms[i + 1]))
    BY DEF MetaInterval
  <2>5. ivs[i] = MetaInterval(ms, i)
    BY <1>6
  <2>6. ivs[i].from = ms[i].at /\ ivs[i].to = ms[i + 1].at
    BY <2>3, <2>5
  <2>7. ivs[i].complete = (ms[i + 1].at > ms[i].at /\ SameEpoch(ms[i], ms[i + 1]))
    BY <2>4, <2>5
  <2> QED
    BY <2>2, <2>6, <2>7 DEF SameEpoch
<1>10. ASSUME NEW i \in 1 .. n - 1
       PROVE  ivs[i].to = ivs[i + 1].from
  <2>1. i \in 1 .. n /\ i + 1 \in 1 .. n
    BY <1>1
  <2> QED
    BY <1>9, <2>1
<1>11. ASSUME NEW i \in 1 .. n, NEW j \in 1 .. n, i < j
       PROVE  ivs[i].to <= ivs[j].from
  <2>1. i + 1 \in 1 .. n + 1 /\ j \in 1 .. n + 1 /\ (i + 1 = j \/ i + 1 < j)
    BY <1>1, <1>11
  <2>2. ms[i + 1].at <= ms[j].at
    BY <1>4, <1>5, <2>1
  <2> QED
    BY <1>9, <2>2
<1>12. IntervalsOK(ivs, n)
  BY <1>1, <1>2, <1>8, <1>9, <1>10, <1>11 DEF IntervalsOK, ivs
<1> QED
  BY <1>9, <1>12 DEF ivs, n

\* ivs are the n intervals of the series ms.
IntervalsOf(ms, ivs, n) ==
  Series(ms) /\ Len(ms) >= 2 /\ ivs = MetaIntervals(ms) /\ n = Len(ms) - 1

LEMMA IntervalsFacts ==
  ASSUME NEW ms, NEW ivs, NEW n, IntervalsOf(ms, ivs, n)
  PROVE  /\ IntervalsOK(ivs, n) /\ n \in Nat \ {0} /\ Len(ms) = n + 1 /\ DOMAIN ms = 1 .. n + 1
         /\ \A i \in 1 .. n : ivs[i].from = ms[i].at /\ ivs[i].to = ms[i + 1].at
         /\ \A i \in 1 .. n : SameEpoch(ms[i], ms[i + 1]) => ivs[i].complete
         /\ \A i \in 1 .. n + 1 : ms[i] \in Capture /\ ms[i].at \in Nat
         /\ \A i, j \in 1 .. n + 1 : i < j => ms[i].at < ms[j].at
<1>1. Series(ms) /\ Len(ms) >= 2 /\ ivs = MetaIntervals(ms) /\ n = Len(ms) - 1
  BY DEF IntervalsOf
<1>2. Len(ms) \in Nat /\ DOMAIN ms = 1 .. Len(ms) /\ \A i \in 1 .. Len(ms) : ms[i] \in Capture
  BY <1>1 DEF Series
<1>3. n \in Nat \ {0} /\ Len(ms) = n + 1
  BY <1>1, <1>2
<1>4. IntervalsOK(ivs, n)
  BY <1>1, SeriesIntervals
<1>5. \A i \in 1 .. n : /\ ivs[i].from = ms[i].at /\ ivs[i].to = ms[i + 1].at
                        /\ ivs[i].complete <=> SameEpoch(ms[i], ms[i + 1])
  BY <1>1, SeriesIntervals
<1>6. \A i \in 1 .. n + 1 : ms[i] \in Capture /\ ms[i].at \in Nat
  BY <1>2, <1>3, CaptureFields
<1>7. \A i, j \in 1 .. n + 1 : i < j => ms[i].at < ms[j].at
  BY <1>1, <1>3 DEF Series
<1> QED
  BY <1>2, <1>3, <1>4, <1>5, <1>6, <1>7

\* An interval takes at least a tick, so n of them take n.
LEMMA IntervalsTakeTime ==
  ASSUME NEW ivs, NEW n, IntervalsOK(ivs, n), NEW i \in 1 .. n
  PROVE  ivs[i].to - ivs[1].from >= i
<1> DEFINE short == {k \in 1 .. n : ivs[k].to - ivs[1].from < k}
<1>1. n \in Nat \ {0} /\ \A k \in 1 .. n : ivs[k].from \in Nat /\ ivs[k].to \in Nat /\ ivs[k].from < ivs[k].to
  BY DEF IntervalsOK
<1>2. SUFFICES short = {}
  BY <1>1
<1>3. SUFFICES ASSUME short # {} PROVE FALSE
  OBVIOUS
<1>4. short \in SUBSET Nat
  BY <1>1
<1>5. PICK k \in short : \A l \in short : k <= l
  BY <1>3, <1>4, LeastNat
<1>6. k \in 1 .. n /\ ivs[k].to - ivs[1].from < k
  BY <1>5
<1>7. CASE k = 1
  BY <1>1, <1>6, <1>7
<1>8. CASE k # 1
  <2>1. k - 1 \in 1 .. n /\ k - 1 \in 1 .. n - 1 /\ (k - 1) + 1 = k
    BY <1>1, <1>6, <1>8
  <2>2. k - 1 \notin short
    BY <1>5, <2>1
  <2>3. ~(ivs[k - 1].to - ivs[1].from < k - 1)
    BY <2>1, <2>2
  <2>4. ivs[k - 1].to = ivs[k].from
    BY <2>1 DEF IntervalsOK
  <2> QED
    BY <1>1, <1>6, <2>1, <2>3, <2>4
<1> QED
  BY <1>7, <1>8

-----------------------------------------------------------------------------
(* Groups of intervals. *)

\* A later interval is in the same group or a later one.
LEMMA GroupsFollowTime ==
  ASSUME NEW ivs, NEW n, IntervalsOK(ivs, n), NEW points \in Nat \ {0}
  PROVE  /\ \A i \in 1 .. n : GroupOf(ivs, points, i) \in 0 .. points - 1
         /\ \A i, j \in 1 .. n : i < j => GroupOf(ivs, points, i) <= GroupOf(ivs, points, j)
         /\ n <= points => \A i \in 1 .. n : GroupOf(ivs, points, i) = i - 1
<1>1. /\ n \in Nat \ {0} /\ Len(ivs) = n
      /\ \A k \in 1 .. n : ivs[k].from \in Nat /\ ivs[k].to \in Nat /\ ivs[k].from < ivs[k].to
      /\ \A i, j \in 1 .. n : i < j => ivs[i].to <= ivs[j].from
  BY DEF IntervalsOK
<1>2. CASE n <= points
  <2>1. \A i \in 1 .. n : GroupOf(ivs, points, i) = i - 1
    BY <1>1, <1>2 DEF GroupOf
  <2> QED
    BY <1>1, <1>2, <2>1
<1>3. CASE n > points
  <2> DEFINE start == ivs[1].from
             width == (ivs[n].to - start) \div points
             middle(i) == ivs[i].from + (ivs[i].to - ivs[i].from) \div 2
             part(i) == (middle(i) - start) \div width
  <2>1. start \in Nat /\ ivs[n].to \in Nat /\ ivs[n].to - start >= n
    BY <1>1, IntervalsTakeTime
  <2>2. ivs[n].to - start \in Nat /\ points <= ivs[n].to - start
    BY <1>1, <1>3, <2>1
  <2>3. width \in Nat \ {0}
    BY <2>2, DivPositive
  <2>4. ASSUME NEW i \in 1 .. n
        PROVE  GroupOf(ivs, points, i) = Min({part(i), points - 1})
    BY <1>1, <1>3 DEF GroupOf
  <2>5. ASSUME NEW i \in 1 .. n
        PROVE  middle(i) \in Nat /\ ivs[i].from <= middle(i) /\ middle(i) <= ivs[i].to
    <3>1. ivs[i].from \in Nat /\ ivs[i].to \in Nat /\ ivs[i].from < ivs[i].to
      BY <1>1
    <3> QED
      BY <3>1
  <2> HIDE DEF start, width, middle
  <2>6. ASSUME NEW i \in 1 .. n
        PROVE  middle(i) - start \in Nat
    <3>1. start <= ivs[i].from
      <4>1. CASE i = 1
        BY <4>1, <2>1 DEF start
      <4>2. CASE i # 1
        <5>1. 1 \in 1 .. n /\ 1 < i
          BY <1>1, <4>2
        <5>2. ivs[1].from \in Nat /\ ivs[1].to \in Nat /\ ivs[i].from \in Nat /\ ivs[1].from < ivs[1].to /\ ivs[1].to <= ivs[i].from
          BY <1>1, <5>1
        <5> QED
          BY <5>2 DEF start
      <4> QED
        BY <4>1, <4>2
    <3> QED
      BY <1>1, <2>1, <2>5, <3>1
  <2>7. ASSUME NEW i \in 1 .. n
        PROVE  part(i) \in Nat
    BY <2>3, <2>6, DivGrows
  <2>8. ASSUME NEW i \in 1 .. n, NEW j \in 1 .. n, i < j
        PROVE  part(i) <= part(j)
    <3>1. middle(i) <= middle(j)
      <4>1. middle(i) <= ivs[i].to /\ ivs[j].from <= middle(j) /\ middle(i) \in Nat /\ middle(j) \in Nat
        BY <2>5
      <4>2. ivs[i].to <= ivs[j].from /\ ivs[i].to \in Nat /\ ivs[j].from \in Nat
        BY <1>1, <2>8
      <4> QED
        BY <4>1, <4>2
    <3>2. middle(i) - start <= middle(j) - start
      BY <2>1, <2>5, <3>1
    <3> QED
      BY <2>3, <2>6, <3>2, DivGrows
  <2> HIDE DEF part
  <2>9. ASSUME NEW i \in 1 .. n
        PROVE  /\ GroupOf(ivs, points, i) \in {part(i), points - 1}
               /\ GroupOf(ivs, points, i) <= part(i) /\ GroupOf(ivs, points, i) <= points - 1
    <3> DEFINE P == {part(i), points - 1}
    <3>1. P \in SUBSET Nat /\ P # {}
      BY <2>7
    <3>2. Min(P) \in P /\ \A y \in P : Min(P) <= y
      BY <3>1, MinOf
    <3> QED
      BY <2>4, <3>2
  <2>10. \A i \in 1 .. n : GroupOf(ivs, points, i) \in 0 .. points - 1
    BY <2>7, <2>9
  <2>11. ASSUME NEW i \in 1 .. n, NEW j \in 1 .. n, i < j
         PROVE  GroupOf(ivs, points, i) <= GroupOf(ivs, points, j)
    <3>1. part(i) <= part(j) /\ part(i) \in Nat /\ part(j) \in Nat
      BY <2>7, <2>8, <2>11
    <3> QED
      BY <2>9, <3>1
  <2>12. ~(n <= points)
    BY <1>1, <1>3
  <2> QED
    BY <2>10, <2>11, <2>12
<1> QED
  BY <1>1, <1>2, <1>3

\* What groupIntervals returns: at most so many groups of adjacent intervals
\* that follow each other from the first interval to the last.
Partition(groups, n, points) ==
  /\ Len(groups) \in 1 .. points
  /\ DOMAIN groups = 1 .. Len(groups)
  /\ \A g \in 1 .. Len(groups) :
       /\ Min(groups[g]) \in 1 .. n /\ Max(groups[g]) \in Min(groups[g]) .. n
       /\ groups[g] = Min(groups[g]) .. Max(groups[g])
       /\ g > 1 => Min(groups[g]) = Max(groups[g - 1]) + 1
  /\ Min(groups[1]) = 1
  /\ Max(groups[Len(groups)]) = n

LEMMA GroupsPartition ==
  ASSUME NEW ivs, NEW n, IntervalsOK(ivs, n), NEW points \in Nat \ {0}
  PROVE  Partition(GroupIntervals(ivs, points), n, points)
<1> DEFINE group == [i \in 1 .. n |-> GroupOf(ivs, points, i)]
           used == {GroupOf(ivs, points, i) : i \in DOMAIN ivs}
           k == Cardinality(used)
           order == Ascending(used)
           groups == GroupIntervals(ivs, points)
<1>1. n \in Nat \ {0} /\ DOMAIN ivs = 1 .. n
  BY DEF IntervalsOK
<1>2. \A i \in 1 .. n : group[i] \in 0 .. points - 1
  BY GroupsFollowTime
<1>3. \A i, j \in 1 .. n : i < j => group[i] <= group[j]
  BY GroupsFollowTime
<1>4. used = {group[i] : i \in 1 .. n}
  BY <1>1
<1>5. groups = [g \in DOMAIN order |-> {i \in 1 .. n : group[i] = order[g]}]
  BY <1>1 DEF GroupIntervals
<1> HIDE DEF group, used, groups
<1>6. used \in SUBSET (0 .. points - 1) /\ used \in SUBSET Nat /\ used # {}
  BY <1>1, <1>2, <1>4
<1>7. IsFiniteSet(used) /\ k <= points
  <2>1. IsFiniteSet(0 .. points - 1) /\ Cardinality(0 .. points - 1) = points
    BY FS_Interval
  <2> DEFINE I == 0 .. points - 1
  <2> HIDE DEF I
  <2>2. IsFiniteSet(I) /\ Cardinality(I) = points /\ used \in SUBSET I
    BY <1>6, <2>1 DEF I
  <2>3. IsFiniteSet(used) /\ Cardinality(used) <= Cardinality(I)
    BY <2>2, FS_Subset
  <2> QED
    BY <2>2, <2>3
<1>8. /\ k \in Nat /\ DOMAIN order = 1 .. k
      /\ \A i \in 1 .. k : order[i] \in used
      /\ \A i, j \in 1 .. k : i < j => order[i] < order[j]
      /\ \A x \in used : \E i \in 1 .. k : order[i] = x
  BY <1>6, <1>7, AscendingSorts
<1> HIDE DEF k, order
<1>9. k \in 1 .. points
  <2>1. PICK x \in used : TRUE
    BY <1>6
  <2>2. PICK i \in 1 .. k : order[i] = x
    BY <1>8, <2>1
  <2> QED
    BY <1>7, <1>8, <2>2
<1>10. DOMAIN groups = 1 .. k /\ Len(groups) = k
  BY <1>5, <1>8
<1>11. ASSUME NEW g \in 1 .. k
       PROVE  /\ groups[g] \in SUBSET (1 .. n) /\ groups[g] # {}
              /\ \A i \in 1 .. n : i \in groups[g] <=> group[i] = order[g]
  <2>1. groups[g] = {i \in 1 .. n : group[i] = order[g]}
    BY <1>5, <1>8
  <2>2. \E i \in 1 .. n : group[i] = order[g]
    BY <1>4, <1>8
  <2> QED
    BY <2>1, <2>2
<1>12. ASSUME NEW g \in 1 .. k
       PROVE  /\ Min(groups[g]) \in groups[g] /\ Max(groups[g]) \in groups[g]
              /\ \A i \in groups[g] : Min(groups[g]) <= i /\ i <= Max(groups[g])
  <2>1. groups[g] \in SUBSET Nat /\ groups[g] # {} /\ n \in Nat /\ \A i \in groups[g] : i <= n
    BY <1>1, <1>11
  <2>2. Min(groups[g]) \in groups[g] /\ \A i \in groups[g] : Min(groups[g]) <= i
    BY <2>1, MinOf
  <2>3. Max(groups[g]) \in groups[g] /\ \A i \in groups[g] : i <= Max(groups[g])
    BY <2>1, MaxOf
  <2> QED
    BY <2>2, <2>3
<1>13. ASSUME NEW g \in 1 .. k
       PROVE  /\ Min(groups[g]) \in 1 .. n /\ Max(groups[g]) \in 1 .. n
              /\ Min(groups[g]) <= Max(groups[g])
              /\ group[Min(groups[g])] = order[g] /\ group[Max(groups[g])] = order[g]
              /\ groups[g] = Min(groups[g]) .. Max(groups[g])
  <2>1. PICK a \in 1 .. n : a = Min(groups[g])
    BY <1>11, <1>12
  <2>2. PICK b \in 1 .. n : b = Max(groups[g])
    BY <1>11, <1>12
  <2>3. group[a] = order[g] /\ group[b] = order[g] /\ \A i \in groups[g] : a <= i /\ i <= b
    BY <1>11, <1>12, <2>1, <2>2
  <2>4. a <= b
    BY <1>12, <2>1, <2>2
  <2>5. ASSUME NEW i \in a .. b
        PROVE  i \in groups[g]
    <3>1. i \in 1 .. n
      BY <1>1
    <3>2. group[a] <= group[i] /\ group[i] <= group[b]
      <4>1. group[a] \in Int /\ group[i] \in Int /\ group[b] \in Int
        BY <1>2, <3>1
      <4>2. (a = i \/ a < i) /\ (i = b \/ i < b)
        BY <1>1
      <4> QED
        BY <1>3, <3>1, <4>1, <4>2
    <3>3. group[i] = order[g]
      BY <1>2, <2>3, <3>1, <3>2
    <3> QED
      BY <1>11, <3>1, <3>3
  <2>6. groups[g] = a .. b
    <3>1. \A i \in groups[g] : i \in a .. b
      BY <1>1, <1>11, <2>3
    <3> QED
      BY <2>5, <3>1
  <2> QED
    BY <2>1, <2>2, <2>3, <2>4, <2>6
<1>14. ASSUME NEW g \in 1 .. k, NEW h \in 1 .. k, h < g, NEW i \in groups[h], NEW j \in groups[g]
       PROVE  i < j
  <2>1. i \in 1 .. n /\ j \in 1 .. n /\ group[i] = order[h] /\ group[j] = order[g]
    BY <1>11
  <2>2. group[i] < group[j]
    BY <1>8, <1>14, <2>1
  <2>3. group[i] \in Int /\ group[j] \in Int
    BY <1>2, <2>1
  <2> QED
    BY <1>1, <1>3, <2>1, <2>2, <2>3
<1>15. Min(groups[1]) = 1
  <2>1. 1 \in 1 .. n /\ group[1] \in used
    BY <1>1, <1>4
  <2>2. PICK h \in 1 .. k : order[h] = group[1]
    BY <1>8, <2>1
  <2>3. 1 \in groups[h] /\ 1 \in 1 .. k
    BY <1>9, <1>11, <2>1, <2>2
  <2>4. h = 1
    <3>1. SUFFICES ASSUME 1 < h PROVE FALSE
      BY <1>9
    <3>2. Min(groups[1]) \in groups[1] /\ Min(groups[1]) \in 1 .. n
      BY <1>12, <1>13, <2>3
    <3>3. Min(groups[1]) < 1
      BY <1>14, <2>3, <3>1, <3>2
    <3> QED
      BY <1>1, <3>2, <3>3
  <2> QED
    BY <1>1, <1>12, <1>13, <2>3, <2>4
<1>16. Max(groups[k]) = n
  <2>1. n \in 1 .. n /\ group[n] \in used
    BY <1>1, <1>4
  <2>2. PICK h \in 1 .. k : order[h] = group[n]
    BY <1>8, <2>1
  <2>3. n \in groups[h] /\ k \in 1 .. k
    BY <1>9, <1>11, <2>1, <2>2
  <2>4. h = k
    <3>1. SUFFICES ASSUME h < k PROVE FALSE
      BY <1>9
    <3>2. Max(groups[k]) \in groups[k] /\ Max(groups[k]) \in 1 .. n
      BY <1>12, <1>13, <2>3
    <3>3. n < Max(groups[k])
      BY <1>14, <2>3, <3>1, <3>2
    <3> QED
      BY <1>1, <3>2, <3>3
  <2> QED
    BY <1>1, <1>12, <1>13, <2>3, <2>4
<1>17. ASSUME NEW g \in 1 .. k, g > 1
       PROVE  Min(groups[g]) = Max(groups[g - 1]) + 1
  <2>1. g - 1 \in 1 .. k /\ g - 1 < g
    BY <1>9, <1>17
  <2>2. PICK b \in 1 .. n : b = Max(groups[g - 1])
    BY <1>13, <2>1
  <2>3. PICK a \in 1 .. n : a = Min(groups[g])
    BY <1>13
  <2>4. a \in groups[g] /\ b \in groups[g - 1] /\ b < a
    BY <1>12, <1>14, <2>1, <2>2, <2>3
  <2>5. b + 1 \in 1 .. n /\ group[b + 1] \in used
    BY <1>1, <1>4, <2>4
  <2>6. PICK h \in 1 .. k : order[h] = group[b + 1]
    BY <1>8, <2>5
  <2>7. b + 1 \in groups[h]
    BY <1>11, <2>5, <2>6
  <2>8. ~(h < g)
    <3>1. SUFFICES ASSUME h < g PROVE FALSE
      OBVIOUS
    <3>2. h < g - 1 \/ h = g - 1
      BY <1>9, <3>1
    <3>3. h # g - 1
      <4>1. SUFFICES ASSUME h = g - 1 PROVE FALSE
        OBVIOUS
      <4>2. b + 1 \in groups[g - 1]
        BY <2>7, <4>1
      <4>3. b + 1 <= b
        BY <1>12, <2>1, <2>2, <4>2
      <4> QED
        BY <1>1, <4>3
    <3>4. b + 1 < b
      BY <1>14, <2>1, <2>4, <2>7, <3>2, <3>3
    <3> QED
      BY <1>1, <3>4
  <2>9. ~(g < h)
    <3>1. SUFFICES ASSUME g < h PROVE FALSE
      OBVIOUS
    <3>2. a < b + 1
      BY <1>14, <2>4, <2>7, <3>1
    <3> QED
      BY <1>1, <2>4, <3>2
  <2>10. h = g
    BY <1>9, <2>8, <2>9
  <2>11. a <= b + 1
    BY <1>12, <2>3, <2>7, <2>10
  <2> QED
    BY <1>1, <2>2, <2>3, <2>4, <2>11
<1>18. ASSUME NEW g \in 1 .. k
       PROVE  /\ Min(groups[g]) \in 1 .. n /\ Max(groups[g]) \in Min(groups[g]) .. n
              /\ groups[g] = Min(groups[g]) .. Max(groups[g])
              /\ g > 1 => Min(groups[g]) = Max(groups[g - 1]) + 1
  BY <1>1, <1>13, <1>17
<1>19. Partition(groups, n, points)
  BY <1>9, <1>10, <1>15, <1>16, <1>18 DEF Partition
<1> QED
  BY <1>19 DEF groups

-----------------------------------------------------------------------------
(* The spans of a group of adjacent intervals a .. b. *)

LEMMA RunsFacts ==
  ASSUME NEW ivs, NEW a \in Nat, NEW b \in Nat, NEW r \in Runs(ivs, a .. b)
  PROVE  /\ r[1] \in a .. b /\ r[2] \in a .. b /\ r[1] <= r[2] /\ r = <<r[1], r[2]>>
         /\ \A i \in r[1] .. r[2] : ivs[i].complete
         /\ r[1] - 1 \in a .. b => ~ivs[r[1] - 1].complete
         /\ r[2] + 1 \in a .. b => ~ivs[r[2] + 1].complete
<1>1. /\ r \in (a .. b) \X (a .. b) /\ r[1] <= r[2]
      /\ \A i \in r[1] .. r[2] : i \in a .. b /\ ivs[i].complete
      /\ ~(\A i \in (r[1] - 1) .. r[2] : i \in a .. b /\ ivs[i].complete)
      /\ ~(\A i \in r[1] .. (r[2] + 1) : i \in a .. b /\ ivs[i].complete)
  BY DEF Runs
<1>2. PICK x \in a .. b, y \in a .. b : r = <<x, y>>
  BY <1>1
<1>3. r[1] = x /\ r[2] = y
  BY <1>2
<1>4. ASSUME x - 1 \in a .. b, ivs[x - 1].complete
      PROVE  FALSE
  <2>1. PICK i \in (x - 1) .. y : ~(i \in a .. b /\ ivs[i].complete)
    BY <1>1, <1>3
  <2>2. i = x - 1 \/ i \in x .. y
    OBVIOUS
  <2> QED
    BY <1>1, <1>3, <1>4, <2>1, <2>2
<1>5. ASSUME y + 1 \in a .. b, ivs[y + 1].complete
      PROVE  FALSE
  <2>1. PICK i \in x .. (y + 1) : ~(i \in a .. b /\ ivs[i].complete)
    BY <1>1, <1>3
  <2>2. i = y + 1 \/ i \in x .. y
    OBVIOUS
  <2> QED
    BY <1>1, <1>3, <1>5, <2>1, <2>2
<1> QED
  BY <1>1, <1>2, <1>3, <1>4, <1>5

LEMMA RunsIntro ==
  ASSUME NEW ivs, NEW a \in Nat, NEW b \in Nat, NEW x \in a .. b, NEW y \in a .. b, x <= y,
         \A i \in x .. y : ivs[i].complete,
         x - 1 \in a .. b => ~ivs[x - 1].complete,
         y + 1 \in a .. b => ~ivs[y + 1].complete
  PROVE  <<x, y>> \in Runs(ivs, a .. b)
<1>1. \A i \in x .. y : i \in a .. b /\ ivs[i].complete
  OBVIOUS
<1>2. ~(\A i \in (x - 1) .. y : i \in a .. b /\ ivs[i].complete)
  <2>1. x - 1 \in (x - 1) .. y
    OBVIOUS
  <2> QED
    BY <2>1
<1>3. ~(\A i \in x .. (y + 1) : i \in a .. b /\ ivs[i].complete)
  <2>1. y + 1 \in x .. (y + 1)
    OBVIOUS
  <2> QED
    BY <2>1
<1> DEFINE r == <<x, y>>
<1>4. r \in (a .. b) \X (a .. b) /\ r[1] = x /\ r[2] = y
  OBVIOUS
<1> HIDE DEF r
<1>5. r \in Runs(ivs, a .. b)
  BY <1>1, <1>2, <1>3, <1>4 DEF Runs
<1> QED
  BY <1>5 DEF r

\* Two maximal runs do not even touch.
LEMMA RunsApart ==
  ASSUME NEW ivs, NEW a \in Nat, NEW b \in Nat,
         NEW r \in Runs(ivs, a .. b), NEW q \in Runs(ivs, a .. b), r # q
  PROVE  r[2] < q[1] \/ q[2] < r[1]
<1>1. PICK x \in a .. b, y \in a .. b : x = r[1] /\ y = r[2]
  BY RunsFacts
<1>2. PICK u \in a .. b, v \in a .. b : u = q[1] /\ v = q[2]
  BY RunsFacts
<1>3. /\ x <= y /\ (\A i \in x .. y : ivs[i].complete) /\ r = <<x, y>>
      /\ x - 1 \in a .. b => ~ivs[x - 1].complete
      /\ y + 1 \in a .. b => ~ivs[y + 1].complete
  BY <1>1, RunsFacts
<1>4. /\ u <= v /\ (\A i \in u .. v : ivs[i].complete) /\ q = <<u, v>>
      /\ u - 1 \in a .. b => ~ivs[u - 1].complete
      /\ v + 1 \in a .. b => ~ivs[v + 1].complete
  BY <1>2, RunsFacts
<1>5. SUFFICES ASSUME u <= y, x <= v PROVE FALSE
  BY <1>1, <1>2
<1>6. ~(x < u)
  <2>1. SUFFICES ASSUME x < u PROVE FALSE
    OBVIOUS
  <2>2. u - 1 \in x .. y /\ u - 1 \in a .. b
    BY <1>5, <2>1
  <2> QED
    BY <1>3, <1>4, <2>2
<1>7. ~(u < x)
  <2>1. SUFFICES ASSUME u < x PROVE FALSE
    OBVIOUS
  <2>2. x - 1 \in u .. v /\ x - 1 \in a .. b
    BY <1>5, <2>1
  <2> QED
    BY <1>3, <1>4, <2>2
<1>8. x = u
  BY <1>6, <1>7
<1>9. ~(y < v)
  <2>1. SUFFICES ASSUME y < v PROVE FALSE
    OBVIOUS
  <2>2. y + 1 \in u .. v /\ y + 1 \in a .. b
    BY <1>3, <1>8, <2>1
  <2> QED
    BY <1>3, <1>4, <2>2
<1>10. ~(v < y)
  <2>1. SUFFICES ASSUME v < y PROVE FALSE
    OBVIOUS
  <2>2. v + 1 \in x .. y /\ v + 1 \in a .. b
    BY <1>4, <1>8, <2>1
  <2> QED
    BY <1>3, <1>4, <2>2
<1> QED
  BY <1>3, <1>4, <1>8, <1>9, <1>10

\* A complete interval is in a run.
LEMMA RunAround ==
  ASSUME NEW ivs, NEW a \in Nat, NEW b \in Nat, NEW i \in a .. b, ivs[i].complete
  PROVE  \E r \in Runs(ivs, a .. b) : i \in r[1] .. r[2]
<1> DEFINE L == {x \in a .. i : \A j \in x .. i : ivs[j].complete}
           R == {y \in i .. b : \A j \in i .. y : ivs[j].complete}
<1>1. i \in L /\ i \in R /\ L \in SUBSET Nat /\ R \in SUBSET Nat /\ \A y \in R : y <= b
  OBVIOUS
<1>2. Min(L) \in L /\ \A z \in L : Min(L) <= z
  BY <1>1, MinOf
<1>3. Max(R) \in R /\ \A z \in R : z <= Max(R)
  BY <1>1, MaxOf
<1>4. PICK x \in L : \A z \in L : x <= z
  BY <1>2
<1>5. PICK y \in R : \A z \in R : z <= y
  BY <1>3
<1>6. x \in a .. b /\ y \in a .. b /\ x <= y /\ i \in x .. y
  OBVIOUS
<1>7. \A j \in x .. y : ivs[j].complete
  <2> SUFFICES ASSUME NEW j \in x .. y PROVE ivs[j].complete
    OBVIOUS
  <2>1. j \in x .. i \/ j \in i .. y
    BY <1>6
  <2> QED
    BY <2>1
<1>8. ASSUME x - 1 \in a .. b, ivs[x - 1].complete
      PROVE  FALSE
  <2>1. \A j \in (x - 1) .. i : j = x - 1 \/ j \in x .. i
    BY <1>6
  <2>2. x - 1 \in L
    BY <1>6, <1>8, <2>1
  <2> QED
    BY <1>4, <1>6, <2>2
<1>9. ASSUME y + 1 \in a .. b, ivs[y + 1].complete
      PROVE  FALSE
  <2>1. \A j \in i .. (y + 1) : j = y + 1 \/ j \in i .. y
    BY <1>6
  <2>2. y + 1 \in R
    BY <1>6, <1>9, <2>1
  <2> QED
    BY <1>5, <1>6, <2>2
<1> HIDE DEF L, R
<1>10. <<x, y>> \in Runs(ivs, a .. b)
  BY <1>6, <1>7, <1>8, <1>9, RunsIntro
<1> QED
  BY <1>6, <1>10

\* The ticks inside the spans of S.
Ticks(S) == {t \in Nat : \E s \in S : s.from < t /\ t <= s.to}

Apart(S) ==
  /\ \A s \in S : s.from \in Nat /\ s.to \in Nat /\ s.from < s.to
  /\ \A s, q \in S : s # q => s.to <= q.from \/ q.to <= s.from

\* The functions that AssembleBucket and planOf add up.
Lengths(S) == [s \in S |-> Length(s)]

Deltas(bodies, S) == [s \in S |-> CountAt(bodies, s.to) - CountAt(bodies, s.from)]

CompleteLengths(ivs, group) == [i \in {j \in group : ivs[j].complete} |-> Length(ivs[i])]

LEMMA TotalOfSpans ==
  ASSUME NEW S, IsFiniteSet(S), Apart(S)
  PROVE  /\ IsFiniteSet(Ticks(S)) /\ Cardinality(Ticks(S)) \in Nat
         /\ Total(Lengths(S)) = Cardinality(Ticks(S))
<1> DEFINE lo == [s \in S |-> s.from]
           hi == [s \in S |-> s.to]
           f == Lengths(S)
           T == Ticks(S)
<1>1. lo \in [S -> Nat] /\ hi \in [S -> Nat]
  BY DEF Apart
<1>2. \A s \in S : lo[s] <= hi[s]
  BY DEF Apart
<1>3. \A s, q \in S : s # q => hi[s] <= lo[q] \/ hi[q] <= lo[s]
  BY DEF Apart
<1>4. T \in SUBSET Nat /\ \A t \in Nat : t \in T <=> \E s \in S : lo[s] < t /\ t <= hi[s]
  BY DEF Ticks
<1>5. f \in [S -> Nat] /\ \A s \in S : f[s] = hi[s] - lo[s]
  BY DEF Length, Lengths, Apart
<1> HIDE DEF lo, hi, f, T
<1>6. IsFiniteSet(T) /\ Total(f) = Cardinality(T) /\ Total(f) \in Nat
  <2>1. Covers(S, lo, hi, f, T)
    BY <1>1, <1>2, <1>3, <1>4, <1>5 DEF Covers
  <2> QED
    BY <2>1, TotalIsTicks
<1> QED
  BY <1>6 DEF f, T

\* The spans of a group are apart, within the group, and cover exactly its
\* complete intervals.
LEMMA SpansOfGroup ==
  ASSUME NEW ivs, NEW n, IntervalsOK(ivs, n), NEW a \in 1 .. n, NEW b \in a .. n,
         NEW S, S = Spans(ivs, a .. b)
  PROVE  /\ IsFiniteSet(S) /\ Apart(S)
         /\ \A s \in S : \E x, y \in a .. b :
              /\ x <= y /\ s.from = ivs[x].from /\ s.to = ivs[y].to
              /\ \A i \in x .. y : ivs[i].complete
         /\ \A t \in Nat : t \in Ticks(S) <=>
              \E i \in a .. b : ivs[i].complete /\ ivs[i].from < t /\ t <= ivs[i].to
         /\ (\A i \in a .. b : ivs[i].complete)
              => S = {[from |-> ivs[a].from, to |-> ivs[b].to]}
<1>1. /\ n \in Nat \ {0}
      /\ \A k \in 1 .. n : ivs[k].from \in Nat /\ ivs[k].to \in Nat /\ ivs[k].from < ivs[k].to
      /\ \A i \in 1 .. n - 1 : ivs[i].to = ivs[i + 1].from
      /\ \A i, j \in 1 .. n : i < j => ivs[i].to <= ivs[j].from
  BY DEF IntervalsOK
<1>2. a \in Nat /\ b \in Nat /\ a <= b /\ \A i \in a .. b : i \in 1 .. n
  BY <1>1
<1> DEFINE RS == Runs(ivs, a .. b)
           span == [r \in RS |-> [from |-> ivs[r[1]].from, to |-> ivs[r[2]].to]]
<1>3. \A r \in RS : /\ r[1] \in a .. b /\ r[2] \in a .. b /\ r[1] <= r[2] /\ r = <<r[1], r[2]>>
                    /\ \A i \in r[1] .. r[2] : ivs[i].complete
  BY <1>2, RunsFacts
<1>4. S = {span[r] : r \in RS} /\ \A r \in RS : span[r].from = ivs[r[1]].from /\ span[r].to = ivs[r[2]].to
  BY DEF Spans
<1>5. RS \in SUBSET ((a .. b) \X (a .. b))
  BY DEF Runs
<1>6. IsFiniteSet(S)
  <2> DEFINE I == a .. b
             P == I \X I
  <2>1. IsFiniteSet(I)
    BY <1>2, FS_Interval
  <2> HIDE DEF I
  <2>2. IsFiniteSet(P)
    BY <2>1, FS_Product
  <2>3. RS \in SUBSET P
    BY <1>5 DEF I
  <2> HIDE DEF P, RS
  <2>4. IsFiniteSet(RS)
    BY <2>2, <2>3, FS_Subset
  <2>5. span \in Surjection(RS, S)
    BY <1>4 DEF Surjection
  <2> HIDE DEF span
  <2> QED
    BY <2>4, <2>5, FS_Surjection
<1>7. \A r, q \in RS : r # q => r[2] < q[1] \/ q[2] < r[1]
  BY <1>2, RunsApart
<1>8. \A i \in a .. b : ivs[i].complete => \E r \in RS : i \in r[1] .. r[2]
  BY <1>2, RunAround
<1> HIDE DEF RS, span
<1>9. \A s \in S : \E r \in RS : s = span[r]
  BY <1>4
<1>10. ASSUME NEW r \in RS
       PROVE  span[r].from \in Nat /\ span[r].to \in Nat /\ span[r].from < span[r].to
  <2>1. PICK x \in 1 .. n, y \in 1 .. n : x = r[1] /\ y = r[2] /\ x <= y
    BY <1>2, <1>3
  <2>2. span[r].from = ivs[x].from /\ span[r].to = ivs[y].to
    BY <1>4, <2>1
  <2>3. ivs[x].from \in Nat /\ ivs[x].to \in Nat /\ ivs[y].from \in Nat /\ ivs[y].to \in Nat
        /\ ivs[x].from < ivs[x].to /\ ivs[y].from < ivs[y].to
    BY <1>1
  <2>4. x = y \/ ivs[x].to <= ivs[y].from
    BY <1>1, <2>1
  <2> QED
    BY <2>2, <2>3, <2>4
<1>11. ASSUME NEW r \in RS, NEW q \in RS, r[2] < q[1]
       PROVE  span[r].to <= span[q].from
  <2>1. PICK x \in 1 .. n, y \in 1 .. n : x = r[2] /\ y = q[1] /\ x < y
    BY <1>2, <1>3, <1>11
  <2>2. span[r].to = ivs[x].to /\ span[q].from = ivs[y].from
    BY <1>4, <2>1
  <2> QED
    BY <1>1, <2>1, <2>2
<1>12. Apart(S)
  <2>1. \A s \in S : s.from \in Nat /\ s.to \in Nat /\ s.from < s.to
    BY <1>9, <1>10
  <2>2. ASSUME NEW s \in S, NEW q \in S, s # q
        PROVE  s.to <= q.from \/ q.to <= s.from
    <3>1. PICK u \in RS : s = span[u]
      BY <1>9
    <3>2. PICK v \in RS : q = span[v]
      BY <1>9
    <3>3. u # v
      BY <2>2, <3>1, <3>2
    <3>4. u[2] < v[1] \/ v[2] < u[1]
      BY <1>7, <3>3
    <3> QED
      BY <1>11, <3>1, <3>2, <3>4
  <2> QED
    BY <2>1, <2>2 DEF Apart
<1>13. ASSUME NEW s \in S
       PROVE  \E x, y \in a .. b : /\ x <= y /\ s.from = ivs[x].from /\ s.to = ivs[y].to
                                   /\ \A i \in x .. y : ivs[i].complete
  <2>1. PICK r \in RS : s = span[r]
    BY <1>9
  <2>2. s.from = ivs[r[1]].from /\ s.to = ivs[r[2]].to
    BY <1>4, <2>1
  <2> QED
    BY <1>3, <2>2
<1>14. ASSUME NEW t \in Nat, t \in Ticks(S)
       PROVE  \E i \in a .. b : ivs[i].complete /\ ivs[i].from < t /\ t <= ivs[i].to
  <2>1. PICK s \in S : s.from < t /\ t <= s.to
    BY <1>14 DEF Ticks
  <2>2. PICK x \in a .. b, y \in a .. b :
          /\ x <= y /\ s.from = ivs[x].from /\ s.to = ivs[y].to
          /\ \A i \in x .. y : ivs[i].complete
    BY <1>13
  <2> DEFINE K == {i \in x .. y : t <= ivs[i].to}
  <2>3. x \in Nat /\ y \in Nat /\ x \in 1 .. n /\ y \in 1 .. n
    BY <1>2
  <2>4. y \in K /\ K \in SUBSET Nat
    BY <2>1, <2>2, <2>3
  <2>5. PICK i \in K : \A j \in K : i <= j
    BY <2>4, LeastNat
  <2>6. i \in x .. y /\ t <= ivs[i].to /\ i \in a .. b /\ i \in 1 .. n
    BY <1>2, <2>3, <2>5
  <2>7. ivs[i].from < t
    <3>1. CASE i = x
      BY <2>1, <2>2, <3>1
    <3>2. CASE i # x
      <4>1. i - 1 \in x .. y /\ i - 1 \in 1 .. n - 1 /\ (i - 1) + 1 = i /\ i - 1 \in 1 .. n
        BY <1>1, <2>3, <2>6, <3>2
      <4>2. i - 1 \notin K
        BY <2>5, <2>6, <4>1
      <4>3. ~(t <= ivs[i - 1].to)
        BY <4>1, <4>2
      <4>4. ivs[i - 1].to = ivs[i].from /\ ivs[i - 1].to \in Nat
        BY <1>1, <4>1
      <4> QED
        BY <4>3, <4>4
    <3> QED
      BY <3>1, <3>2
  <2> QED
    BY <2>2, <2>6, <2>7
<1>15. ASSUME NEW t \in Nat, NEW i \in a .. b, ivs[i].complete, ivs[i].from < t, t <= ivs[i].to
       PROVE  t \in Ticks(S)
  <2>1. PICK r \in RS : i \in r[1] .. r[2]
    BY <1>8, <1>15
  <2>2. PICK x \in 1 .. n, y \in 1 .. n : x = r[1] /\ y = r[2] /\ x <= y
    BY <1>2, <1>3
  <2>3. span[r] \in S /\ span[r].from = ivs[x].from /\ span[r].to = ivs[y].to
    BY <1>4, <2>2
  <2>4. i \in 1 .. n /\ (x = i \/ x < i) /\ (i = y \/ i < y)
    BY <1>2, <2>1, <2>2
  <2>5. ivs[x].from <= ivs[i].from
    <3>1. x = i \/ ivs[x].to <= ivs[i].from
      BY <1>1, <2>4
    <3>2. /\ ivs[x].from \in Nat /\ ivs[x].to \in Nat /\ ivs[x].from < ivs[x].to
          /\ ivs[i].from \in Nat
      BY <1>1, <2>4
    <3> QED
      BY <3>1, <3>2
  <2>6. ivs[i].to <= ivs[y].to
    <3>1. i = y \/ ivs[i].to <= ivs[y].from
      BY <1>1, <2>4
    <3>2. /\ ivs[y].from \in Nat /\ ivs[y].to \in Nat /\ ivs[y].from < ivs[y].to
          /\ ivs[i].to \in Nat
      BY <1>1, <2>4
    <3> QED
      BY <3>1, <3>2
  <2>7. ivs[x].from \in Nat /\ ivs[y].to \in Nat /\ ivs[i].from \in Nat /\ ivs[i].to \in Nat
    BY <1>1, <2>4
  <2>8. span[r].from < t /\ t <= span[r].to
    BY <1>15, <2>3, <2>5, <2>6, <2>7
  <2> QED
    BY <2>3, <2>8 DEF Ticks
<1>16. ASSUME \A i \in a .. b : ivs[i].complete
       PROVE  S = {[from |-> ivs[a].from, to |-> ivs[b].to]}
  <2>1. a \in a .. b /\ b \in a .. b /\ ~(a - 1 \in a .. b) /\ ~(b + 1 \in a .. b)
    BY <1>2
  <2>2. <<a, b>> \in RS
    BY <1>2, <1>16, <2>1, RunsIntro DEF RS
  <2>3. ASSUME NEW r \in RS
        PROVE  r = <<a, b>>
    <3>1. r[1] \in a .. b /\ r[2] \in a .. b
      BY <1>3
    <3>2. <<a, b>>[1] = a /\ <<a, b>>[2] = b
      OBVIOUS
    <3>3. SUFFICES ASSUME r # <<a, b>> PROVE FALSE
      OBVIOUS
    <3>4. r[2] < a \/ b < r[1]
      BY <1>7, <2>2, <3>2, <3>3
    <3> QED
      BY <1>2, <3>1, <3>4
  <2>4. span[<<a, b>>] = [from |-> ivs[a].from, to |-> ivs[b].to]
    BY <2>2 DEF span
  <2> QED
    BY <1>4, <2>2, <2>3, <2>4
<1> QED
  BY <1>6, <1>12, <1>13, <1>14, <1>15, <1>16

\* A span runs from the beginning of an interval to the end of one.
LEMMA SpanEnds ==
  ASSUME NEW ivs, NEW n, IntervalsOK(ivs, n), NEW a \in 1 .. n, NEW b \in a .. n,
         NEW s \in Spans(ivs, a .. b)
  PROVE  /\ s.from \in Nat /\ s.to \in Nat /\ s.from < s.to
         /\ \E x, y \in a .. b : x <= y /\ s.from = ivs[x].from /\ s.to = ivs[y].to
<1> DEFINE S == Spans(ivs, a .. b)
<1>1. S = Spans(ivs, a .. b) /\ s \in S
  OBVIOUS
<1> HIDE DEF S
<1>2. /\ Apart(S)
      /\ \A q \in S : \E x, y \in a .. b :
           /\ x <= y /\ q.from = ivs[x].from /\ q.to = ivs[y].to
           /\ \A i \in x .. y : ivs[i].complete
  BY <1>1, SpansOfGroup
<1>3. PICK x \in a .. b, y \in a .. b : x <= y /\ s.from = ivs[x].from /\ s.to = ivs[y].to
  BY <1>1, <1>2
<1> QED
  BY <1>1, <1>2, <1>3 DEF Apart

LEMMA ExtremaOfRange ==
  ASSUME NEW a \in Nat, NEW b \in Nat, a <= b
  PROVE  Min(a .. b) = a /\ Max(a .. b) = b
<1> DEFINE I == a .. b
<1>1. I \in SUBSET Nat /\ a \in I /\ b \in I /\ \A x \in I : a <= x /\ x <= b
  OBVIOUS
<1> HIDE DEF I
<1>2. Min(I) \in I /\ \A y \in I : Min(I) <= y
  BY <1>1, MinOf
<1>3. Max(I) \in I /\ \A y \in I : y <= Max(I)
  BY <1>1, MaxOf
<1>4. Min(I) <= a /\ a <= Min(I) /\ b <= Max(I) /\ Max(I) <= b /\ Min(I) \in Nat /\ Max(I) \in Nat
  BY <1>1, <1>2, <1>3
<1>5. Min(I) = a /\ Max(I) = b
  BY <1>4
<1> QED
  BY <1>5 DEF I

LEMMA TotalOfIntervals ==
  ASSUME NEW ivs, NEW D, IsFiniteSet(D),
         \A i \in D : ivs[i].from \in Nat /\ ivs[i].to \in Nat /\ ivs[i].from < ivs[i].to,
         \A i, j \in D : i # j => ivs[i].to <= ivs[j].from \/ ivs[j].to <= ivs[i].from,
         NEW f, f = [i \in D |-> Length(ivs[i])],
         NEW T \in SUBSET Nat,
         \A t \in Nat : t \in T <=> \E i \in D : ivs[i].from < t /\ t <= ivs[i].to
  PROVE  Total(f) = Cardinality(T)
<1> DEFINE lo == [i \in D |-> ivs[i].from]
           hi == [i \in D |-> ivs[i].to]
<1>1. lo \in [D -> Nat] /\ hi \in [D -> Nat]
  OBVIOUS
<1>2. \A i \in D : lo[i] <= hi[i]
  OBVIOUS
<1>3. \A i, j \in D : i # j => hi[i] <= lo[j] \/ hi[j] <= lo[i]
  OBVIOUS
<1>4. \A t \in Nat : t \in T <=> \E i \in D : lo[i] < t /\ t <= hi[i]
  OBVIOUS
<1>5. f \in [D -> Nat] /\ \A i \in D : f[i] = hi[i] - lo[i]
  BY DEF Length
<1> HIDE DEF lo, hi
<1>6. IsFiniteSet(T) /\ Total(f) = Cardinality(T) /\ Total(f) \in Nat
  <2>1. Covers(D, lo, hi, f, T)
    BY <1>1, <1>2, <1>3, <1>4, <1>5 DEF Covers
  <2> QED
    BY <2>1, TotalIsTicks
<1> QED
  BY <1>6

\* The complete intervals of a group take as long as its spans.
LEMMA PlanDuration ==
  ASSUME NEW ivs, NEW n, IntervalsOK(ivs, n), NEW a \in 1 .. n, NEW b \in a .. n,
         NEW S, S = Spans(ivs, a .. b)
  PROVE  Total(CompleteLengths(ivs, a .. b)) = Cardinality(Ticks(S))
<1> DEFINE D == {j \in a .. b : ivs[j].complete}
           f == CompleteLengths(ivs, a .. b)
           T == Ticks(S)
<1>1. /\ n \in Nat \ {0}
      /\ \A k \in 1 .. n : ivs[k].from \in Nat /\ ivs[k].to \in Nat /\ ivs[k].from < ivs[k].to
      /\ \A i, j \in 1 .. n : i < j => ivs[i].to <= ivs[j].from
  BY DEF IntervalsOK
<1>2. a \in Nat /\ b \in Nat /\ D \in SUBSET (1 .. n)
  BY <1>1
<1>3. IsFiniteSet(D)
  <2> DEFINE I == a .. b
  <2>1. IsFiniteSet(I) /\ D \in SUBSET I
    BY <1>2, FS_Interval
  <2> HIDE DEF I, D
  <2> QED
    BY <2>1, FS_Subset
<1>4. \A i \in D : ivs[i].from \in Nat /\ ivs[i].to \in Nat /\ ivs[i].from < ivs[i].to
  BY <1>1, <1>2
<1>5. \A i, j \in D : i # j => ivs[i].to <= ivs[j].from \/ ivs[j].to <= ivs[i].from
  <2> SUFFICES ASSUME NEW i \in D, NEW j \in D, i # j
               PROVE  ivs[i].to <= ivs[j].from \/ ivs[j].to <= ivs[i].from
    OBVIOUS
  <2>1. i \in 1 .. n /\ j \in 1 .. n /\ (i < j \/ j < i)
    BY <1>1, <1>2
  <2> QED
    BY <1>1, <2>1
<1>6. f = [i \in D |-> Length(ivs[i])]
  BY DEF CompleteLengths
<1>7. T \in SUBSET Nat /\ \A t \in Nat : t \in T <=> \E i \in D : ivs[i].from < t /\ t <= ivs[i].to
  <2>1. \A t \in Nat : t \in Ticks(S) <=>
          \E i \in a .. b : ivs[i].complete /\ ivs[i].from < t /\ t <= ivs[i].to
    BY SpansOfGroup
  <2>2. Ticks(S) \in SUBSET Nat
    BY DEF Ticks
  <2> QED
    BY <2>1, <2>2
<1> HIDE DEF D, f, T
<1>8. Total(f) = Cardinality(T)
  BY <1>3, <1>4, <1>5, <1>6, <1>7, TotalOfIntervals
<1> QED
  BY <1>8 DEF f, T

\* What a bucket measured is what its duration says, and a bucket that did not
\* measure all of its time says so.
LEMMA BucketFacts ==
  ASSUME NEW ivs, NEW n, IntervalsOK(ivs, n), NEW a \in 1 .. n, NEW b \in a .. n,
         NEW bodies, NEW k, k = AssembleBucket(PlanOf(ivs, a .. b), bodies)
  PROVE  /\ k.from = ivs[a].from /\ k.to = ivs[b].to
         /\ k.measured \subseteq Spans(ivs, a .. b)
         /\ \A s \in k.measured : Comparable(bodies, s)
         /\ k.rows = Total(Deltas(bodies, k.measured))
         /\ k.duration = Total(Lengths(k.measured))
         /\ k.partial <=> k.duration # k.to - k.from
         /\ ~k.partial => k.measured = {[from |-> k.from, to |-> k.to]}
         /\ (\A i \in a .. b : ivs[i].complete) /\ (\A s \in Spans(ivs, a .. b) : Comparable(bodies, s))
              => ~k.partial
<1> DEFINE plan == PlanOf(ivs, a .. b)
           S == Spans(ivs, a .. b)
           good == k.measured
           bad == S \ good
<1>1. /\ n \in Nat \ {0}
      /\ \A i \in 1 .. n : ivs[i].from \in Nat /\ ivs[i].to \in Nat /\ ivs[i].from < ivs[i].to
      /\ \A i \in 1 .. n : ivs[i].complete \in BOOLEAN
      /\ \A i, j \in 1 .. n : i < j => ivs[i].to <= ivs[j].from
  BY DEF IntervalsOK
<1>2. a \in Nat /\ b \in Nat /\ a <= b /\ \A i \in a .. b : i \in 1 .. n
  BY <1>1
<1>3. /\ plan.from = ivs[a].from /\ plan.to = ivs[b].to /\ plan.spans = S
      /\ plan.partial <=> \E i \in a .. b : ~ivs[i].complete
      /\ plan.duration = Total(CompleteLengths(ivs, a .. b))
  <2> HIDE DEF plan, S
  <2>1. plan = PlanOf(ivs, a .. b)
    BY DEF plan
  <2>2. plan.from = ivs[a].from /\ plan.to = ivs[b].to
    <3>1. Min(a .. b) = a /\ Max(a .. b) = b
      BY <1>2, ExtremaOfRange
    <3>2. plan.from = ivs[Min(a .. b)].from /\ plan.to = ivs[Max(a .. b)].to
      BY <2>1 DEF PlanOf
    <3> QED
      BY <3>1, <3>2
  <2>3. plan.duration = Total(CompleteLengths(ivs, a .. b))
    BY <2>1 DEF PlanOf, CompleteLengths
  <2>4. plan.partial <=> \E i \in a .. b : ~ivs[i].complete
    <3>1. plan.partial = (\E i \in a .. b : ~ivs[i].complete)
      BY <2>1 DEF PlanOf
    <3> QED
      BY <3>1
  <2>5. plan.spans = S
    BY <2>1 DEF PlanOf, S
  <2> QED
    BY <2>2, <2>3, <2>4, <2>5
<1>4. plan.duration = Cardinality(Ticks(S))
  BY <1>3, PlanDuration
<1>5. /\ k.from = plan.from /\ k.to = plan.to
      /\ \A s : s \in good <=> s \in plan.spans /\ Comparable(bodies, s)
      /\ k.duration = plan.duration - Total(Lengths(plan.spans \ good))
      /\ k.partial = (plan.partial \/ good # plan.spans)
      /\ k.rows = Total(Deltas(bodies, good))
  <2> DEFINE kept == {s \in plan.spans : Comparable(bodies, s)}
  <2> HIDE DEF plan
  <2>1. k = [from |-> plan.from, to |-> plan.to,
             duration |-> plan.duration - Total(Lengths(plan.spans \ kept)),
             partial |-> plan.partial \/ kept # plan.spans,
             rows |-> Total(Deltas(bodies, kept)),
             measured |-> kept]
    BY DEF AssembleBucket, Lengths, Deltas, plan
  <2>2. \A s : s \in kept <=> s \in plan.spans /\ Comparable(bodies, s)
    OBVIOUS
  <2> HIDE DEF kept
  <2>3. k.measured = kept
    BY <2>1
  <2>4. k.from = plan.from /\ k.to = plan.to
    BY <2>1
  <2>5. k.duration = plan.duration - Total(Lengths(plan.spans \ kept))
    BY <2>1
  <2>6. k.rows = Total(Deltas(bodies, kept))
    BY <2>1
  <2>7. k.partial = (plan.partial \/ kept # plan.spans)
    BY <2>1
  <2> QED
    BY <2>2, <2>3, <2>4, <2>5, <2>6, <2>7
<1>6. /\ IsFiniteSet(S) /\ Apart(S)
      /\ \A s \in S : \E x, y \in a .. b :
           x <= y /\ s.from = ivs[x].from /\ s.to = ivs[y].to
      /\ \A t \in Nat : t \in Ticks(S) <=>
           \E i \in a .. b : ivs[i].complete /\ ivs[i].from < t /\ t <= ivs[i].to
      /\ (\A i \in a .. b : ivs[i].complete)
           => S = {[from |-> ivs[a].from, to |-> ivs[b].to]}
  <2> HIDE DEF S
  <2>1. S = Spans(ivs, a .. b)
    BY DEF S
  <2> QED
    BY <2>1, SpansOfGroup
<1> HIDE DEF plan, S, good
<1>7. good \in SUBSET S /\ bad \in SUBSET S
  BY <1>3, <1>5
<1>8. IsFiniteSet(good) /\ IsFiniteSet(bad)
  BY <1>6, <1>7, FS_Subset
<1>9. Apart(good) /\ Apart(bad)
  BY <1>6, <1>7 DEF Apart
<1> HIDE DEF bad
<1>10. /\ IsFiniteSet(Ticks(good)) /\ Cardinality(Ticks(good)) \in Nat
       /\ Total(Lengths(good)) = Cardinality(Ticks(good))
  BY <1>8, <1>9, TotalOfSpans
<1>11. /\ IsFiniteSet(Ticks(bad)) /\ Cardinality(Ticks(bad)) \in Nat
       /\ Total(Lengths(bad)) = Cardinality(Ticks(bad))
  BY <1>8, <1>9, TotalOfSpans
<1>12. Ticks(S) = Ticks(good) \cup Ticks(bad)
  BY <1>7 DEF Ticks, bad
<1>13. Ticks(good) \cap Ticks(bad) = {}
  <2>1. SUFFICES ASSUME NEW t \in Nat, NEW s \in good, NEW q \in bad,
                        s.from < t, t <= s.to, q.from < t, t <= q.to
                 PROVE  FALSE
    BY DEF Ticks
  <2>2. s # q /\ s \in S /\ q \in S
    BY <1>7 DEF bad
  <2>3. s.to <= q.from \/ q.to <= s.from
    BY <1>6, <2>2 DEF Apart
  <2>4. s.from \in Nat /\ s.to \in Nat /\ q.from \in Nat /\ q.to \in Nat
    BY <1>6, <2>2 DEF Apart
  <2> QED
    BY <2>1, <2>3, <2>4
<1>14. Cardinality(Ticks(S)) = Cardinality(Ticks(good)) + Cardinality(Ticks(bad))
  <2>1. Cardinality(Ticks(good) \cap Ticks(bad)) = 0
    BY <1>13, FS_EmptySet
  <2>2. Cardinality(Ticks(good) \cup Ticks(bad))
          = Cardinality(Ticks(good)) + Cardinality(Ticks(bad)) - Cardinality(Ticks(good) \cap Ticks(bad))
    BY <1>10, <1>11, FS_Union
  <2> QED
    BY <1>10, <1>11, <1>12, <2>1, <2>2
<1>15. k.duration = Cardinality(Ticks(good))
  <2>1. k.duration = Cardinality(Ticks(S)) - Cardinality(Ticks(bad))
    BY <1>3, <1>4, <1>5, <1>11 DEF bad
  <2> QED
    BY <1>10, <1>11, <1>14, <2>1
<1> DEFINE from == ivs[a].from
           to == ivs[b].to
           all == from + 1 .. to
<1>16. from \in Nat /\ to \in Nat /\ from < to
  <2>1. a \in 1 .. n /\ b \in 1 .. n /\ (a = b \/ a < b)
    BY <1>1, <1>2
  <2>2. a = b \/ ivs[a].to <= ivs[b].from
    BY <1>1, <2>1
  <2> QED
    BY <1>1, <2>1, <2>2
<1> HIDE DEF from, to
<1>17. IsFiniteSet(all) /\ Cardinality(all) = to - from
  BY <1>16, FS_Interval
<1>18. ASSUME NEW s \in S
       PROVE  from <= s.from /\ s.to <= to
  <2>1. PICK x \in a .. b, y \in a .. b : s.from = ivs[x].from /\ s.to = ivs[y].to
    BY <1>6
  <2>2. x \in 1 .. n /\ y \in 1 .. n /\ (a = x \/ a < x) /\ (y = b \/ y < b) /\ b \in 1 .. n
    BY <1>1, <1>2
  <2>3. ivs[a].from <= ivs[x].from
    <3>1. a = x \/ ivs[a].to <= ivs[x].from
      BY <1>1, <2>2
    <3> QED
      BY <1>1, <2>2, <3>1
  <2>4. ivs[y].to <= ivs[b].to
    <3>1. y = b \/ ivs[y].to <= ivs[b].from
      BY <1>1, <2>2
    <3> QED
      BY <1>1, <2>2, <3>1
  <2> QED
    BY <2>1, <2>3, <2>4 DEF from, to
<1>19. Ticks(good) \in SUBSET all
  <2>1. SUFFICES ASSUME NEW t \in Nat, NEW s \in good, s.from < t, t <= s.to
                 PROVE  t \in all
    BY DEF Ticks
  <2>2. s \in S /\ s.from \in Nat /\ s.to \in Nat
    BY <1>6, <1>7 DEF Apart
  <2> QED
    BY <1>16, <1>18, <2>1, <2>2
<1> HIDE DEF all
<1>20. Cardinality(Ticks(good)) = to - from <=> Ticks(good) = all
  <2>1. Cardinality(all) = Cardinality(Ticks(good)) => all = Ticks(good)
    BY <1>17, <1>19, FS_Subset
  <2> QED
    BY <1>17, <2>1
<1>21. ASSUME ~k.partial
       PROVE  good = {[from |-> from, to |-> to]} /\ Ticks(good) = all
  <2>1. good = S /\ \A i \in a .. b : ivs[i].complete
    BY <1>1, <1>2, <1>3, <1>5, <1>21
  <2>2. good = {[from |-> from, to |-> to]}
    BY <1>6, <2>1 DEF from, to
  <2>3. \A t \in Nat : t \in Ticks(good) <=> from < t /\ t <= to
    BY <2>2 DEF Ticks
  <2>4. \A t \in all : t \in Nat /\ from < t /\ t <= to
    BY <1>16 DEF all
  <2>5. Ticks(good) = all
    BY <1>19, <2>3, <2>4
  <2> QED
    BY <2>2, <2>5
<1>22. ASSUME plan.partial
       PROVE  Ticks(good) # all
  <2>1. PICK i \in a .. b : ~ivs[i].complete
    BY <1>3, <1>22
  <2> DEFINE t == ivs[i].to
  <2>2. t \in Nat /\ ivs[i].from \in Nat /\ ivs[i].from < t /\ i \in 1 .. n
    BY <1>1, <1>2
  <2>3. t \in all
    <3>1. (a = i \/ a < i) /\ (i = b \/ i < b) /\ a \in 1 .. n /\ b \in 1 .. n
      BY <1>1, <1>2
    <3>2. ivs[a].from < t
      <4>1. a = i \/ ivs[a].to <= ivs[i].from
        BY <1>1, <2>2, <3>1
      <4> QED
        BY <1>1, <2>2, <3>1, <4>1
    <3>3. t <= ivs[b].to
      <4>1. i = b \/ ivs[i].to <= ivs[b].from
        BY <1>1, <2>2, <3>1
      <4> QED
        BY <1>1, <2>2, <3>1, <4>1
    <3> QED
      BY <1>16, <2>2, <3>2, <3>3 DEF all, from, to
  <2>4. t \notin Ticks(S)
    <3>1. SUFFICES ASSUME NEW j \in a .. b, ivs[j].complete, ivs[j].from < t, t <= ivs[j].to
                   PROVE  FALSE
      BY <1>6, <2>2
    <3>2. j \in 1 .. n /\ j # i /\ (j < i \/ i < j)
      BY <1>1, <1>2, <2>1, <2>2, <3>1
    <3>3. ivs[j].to <= ivs[i].from \/ ivs[i].to <= ivs[j].from
      BY <1>1, <2>2, <3>2
    <3>4. ivs[j].from \in Nat /\ ivs[j].to \in Nat
      BY <1>1, <3>2
    <3> QED
      BY <2>2, <3>1, <3>3, <3>4
  <2>5. t \notin Ticks(good)
    BY <1>12, <2>4
  <2> QED
    BY <2>3, <2>5
<1>23. ASSUME good # S
       PROVE  Ticks(good) # all
  <2>1. PICK s \in bad : TRUE
    BY <1>7, <1>23 DEF bad
  <2>2. s \in S /\ s.from \in Nat /\ s.to \in Nat /\ s.from < s.to
    BY <1>6, <1>7, <2>1 DEF Apart
  <2>3. s.to \in all
    BY <1>16, <1>18, <2>2 DEF all
  <2>4. s.to \in Ticks(bad)
    BY <2>1, <2>2 DEF Ticks
  <2>5. s.to \notin Ticks(good)
    BY <1>13, <2>4
  <2> QED
    BY <2>3, <2>5
<1>24. k.from = from /\ k.to = to
  BY <1>3, <1>5 DEF from, to
<1>25. k.partial <=> k.duration # k.to - k.from
  BY <1>3, <1>5, <1>15, <1>20, <1>21, <1>22, <1>23, <1>24
<1>26. k.duration = Total(Lengths(good))
  BY <1>10, <1>15
<1>27. ASSUME \A i \in a .. b : ivs[i].complete, \A s \in S : Comparable(bodies, s)
       PROVE  ~k.partial
  <2>1. good = S
    BY <1>3, <1>5, <1>27
  <2> QED
    BY <1>3, <1>5, <1>27, <2>1
<1>28. ~k.partial => good = {[from |-> k.from, to |-> k.to]}
  BY <1>21, <1>24
<1>29. k.from = ivs[a].from /\ k.to = ivs[b].to
  BY <1>3, <1>5
<1> QED
  BY <1>5, <1>7, <1>25, <1>26, <1>27, <1>28, <1>29 DEF good, S

-----------------------------------------------------------------------------
(* The inductive invariant. *)

\* t is over, or a capture of it is in the table: truth[t] will not change.
Settled(t) == t \in 0 .. now /\ (t = now => \E c \in captures : c.at = now)

\* Captures are of different ticks, and within an epoch their counters are as
\* far apart as the server's real work.
TableInv ==
  /\ TypeOK
  /\ count <= done
  /\ \A c \in captures :
       /\ c.at <= now /\ c.epoch <= epoch
       /\ c.epoch = epoch => c.count <= count /\ count - c.count = done - truth[c.at]
  /\ \A c, d \in captures :
       /\ c.at = d.at => c = d
       /\ c.at < d.at /\ c.epoch = d.epoch =>
            c.count <= d.count /\ d.count - c.count = truth[d.at] - truth[c.at]

RequestShape(r) ==
  r = [pc |-> r.pc, from |-> r.from, points |-> r.points, metas |-> r.metas,
       buckets |-> r.buckets, pruned |-> r.pruned]

\* The headers of a request are a chronological series of settled ticks, still
\* in the table unless retention ran.
RequestInv ==
  /\ RequestShape(request)
  /\ request.pruned \in BOOLEAN
  /\ request.pc # "idle" => request.points \in Points
  /\ request.pc = "planned" => request.from \in Nat /\ request.from <= now
  /\ request.pc # "served" => buckets = <<>>
  /\ Series(metas)
  /\ \A i \in 1 .. Len(metas) : Settled(metas[i].at)
  /\ request.pc = "planned" /\ ~request.pruned => \A i \in 1 .. Len(metas) : metas[i] \in captures
  /\ WindowCovered

Tiles(bs, ms, points) ==
  /\ Len(bs) <= points
  /\ Len(ms) >= 2 =>
       /\ bs # <<>>
       /\ bs[1].from = ms[1].at
       /\ bs[Len(bs)].to = ms[Len(ms)].at
  /\ \A b \in DOMAIN bs :
       /\ bs[b].from < bs[b].to
       /\ b > 1 => bs[b - 1].to = bs[b].from

\* What a bucket k says is what the server did.
BucketReal(k) ==
  /\ k.rows = Total([s \in k.measured |-> truth[s.to] - truth[s.from]])
  /\ k.duration = Total([s \in k.measured |-> Length(s)])
  /\ k.partial <=> k.duration # k.to - k.from
  /\ ~k.partial => k.rows = truth[k.to] - truth[k.from]

BucketSettled(k) ==
  /\ Settled(k.from) /\ Settled(k.to)
  /\ \A s \in k.measured : Settled(s.from) /\ Settled(s.to)

Unbroken(k, ms) ==
  \A i, j \in {m \in DOMAIN ms : ms[m].at \in k.from .. k.to} : ms[i].epoch = ms[j].epoch

\* What a served request says.
ServedInv ==
  request.pc = "served" =>
    /\ Tiles(buckets, metas, request.points)
    /\ \A b \in DOMAIN buckets : BucketReal(buckets[b]) /\ BucketSettled(buckets[b])
    /\ ~request.pruned => \A b \in DOMAIN buckets : Unbroken(buckets[b], metas) => ~buckets[b].partial

IOInv == TableInv /\ RequestInv /\ ServedInv

-----------------------------------------------------------------------------
(* What the second read of a request computes. *)

LEMMA NothingToPlan ==
  ASSUME NEW ms, Series(ms), Len(ms) < 2, NEW points
  PROVE  DOMAIN PlanBuckets(ms, points) = {}
<1> DEFINE ivs == MetaIntervals(ms)
           used == {GroupOf(ivs, points, i) : i \in DOMAIN ivs}
<1>1. DOMAIN ivs = {}
  <2>1. Len(ms) \in Nat
    BY DEF Series
  <2>2. 1 .. Len(ms) - 1 = {}
    BY <2>1
  <2> QED
    BY <2>2 DEF MetaIntervals
<1>2. used = {}
  BY <1>1
<1>3. DOMAIN Ascending(used) = {}
  <2>1. used \in SUBSET Nat /\ IsFiniteSet(used) /\ Cardinality(used) = 0
    BY <1>2, FS_EmptySet
  <2> HIDE DEF used
  <2>2. DOMAIN Ascending(used) = 1 .. Cardinality(used)
    BY <2>1, AscendingSorts
  <2> QED
    BY <2>1, <2>2
<1>4. DOMAIN GroupIntervals(ivs, points) = DOMAIN Ascending(used)
  BY DEF GroupIntervals
<1>5. DOMAIN PlanBuckets(ms, points) = DOMAIN GroupIntervals(ivs, points)
  BY DEF PlanBuckets
<1> QED
  BY <1>3, <1>4, <1>5

\* One plan per group: g is planned from the intervals first[g] .. last[g].
PlannedFrom(plan, ivs, n, k, first, last) ==
  /\ first \in [1 .. k -> 1 .. n] /\ last \in [1 .. k -> 1 .. n]
  /\ DOMAIN plan = 1 .. k
  /\ \A g \in 1 .. k : /\ first[g] <= last[g]
                       /\ plan[g] = PlanOf(ivs, first[g] .. last[g])
                       /\ g > 1 => first[g] = last[g - 1] + 1
  /\ first[1] = 1 /\ last[k] = n

LEMMA PlanOfGroups ==
  ASSUME NEW ms, NEW ivs, NEW n, IntervalsOf(ms, ivs, n), NEW points \in Nat \ {0},
         NEW plan, plan = PlanBuckets(ms, points)
  PROVE  \E k \in 1 .. points : \E first, last : PlannedFrom(plan, ivs, n, k, first, last)
<1> DEFINE groups == GroupIntervals(ivs, points)
           k == Len(groups)
           first == [g \in 1 .. k |-> Min(groups[g])]
           last == [g \in 1 .. k |-> Max(groups[g])]
<1>1. IntervalsOK(ivs, n) /\ n \in Nat \ {0}
  BY IntervalsFacts
<1>2. Partition(groups, n, points)
  BY <1>1, GroupsPartition
<1>3. plan = [g \in DOMAIN groups |-> PlanOf(ivs, groups[g])]
  BY DEF PlanBuckets, IntervalsOf
<1> HIDE DEF groups
<1>4. k \in 1 .. points /\ DOMAIN groups = 1 .. k
  BY <1>2 DEF Partition
<1>5. \A g \in 1 .. k : /\ Min(groups[g]) \in 1 .. n /\ Max(groups[g]) \in Min(groups[g]) .. n
                        /\ groups[g] = Min(groups[g]) .. Max(groups[g])
                        /\ g > 1 => Min(groups[g]) = Max(groups[g - 1]) + 1
  BY <1>2 DEF Partition
<1>6. Min(groups[1]) = 1 /\ Max(groups[k]) = n
  BY <1>2 DEF Partition
<1> HIDE DEF k
<1>7. first \in [1 .. k -> 1 .. n] /\ last \in [1 .. k -> 1 .. n]
  BY <1>1, <1>5
<1>8. 1 \in 1 .. k /\ k \in 1 .. k
  BY <1>4
<1>9. first[1] = 1 /\ last[k] = n
  BY <1>6, <1>8
<1>10. ASSUME NEW g \in 1 .. k
       PROVE  /\ first[g] <= last[g]
              /\ plan[g] = PlanOf(ivs, first[g] .. last[g])
              /\ g > 1 => first[g] = last[g - 1] + 1
  <2>1. first[g] = Min(groups[g]) /\ last[g] = Max(groups[g])
    OBVIOUS
  <2>2. first[g] <= last[g]
    BY <1>1, <1>5, <2>1
  <2>3. plan[g] = PlanOf(ivs, groups[g])
    BY <1>3, <1>4
  <2>4. groups[g] = first[g] .. last[g]
    BY <1>5, <2>1
  <2>5. ASSUME g > 1 PROVE first[g] = last[g - 1] + 1
    <3>1. g - 1 \in 1 .. k
      BY <1>4, <2>5
    <3>2. last[g - 1] = Max(groups[g - 1])
      BY <3>1
    <3> QED
      BY <1>5, <2>1, <2>5, <3>2
  <2> QED
    BY <2>2, <2>3, <2>4, <2>5
<1>11. DOMAIN plan = 1 .. k
  BY <1>3, <1>4
<1> HIDE DEF first, last
<1>12. PlannedFrom(plan, ivs, n, k, first, last)
  BY <1>7, <1>9, <1>10, <1>11 DEF PlannedFrom
<1> QED
  BY <1>4, <1>12

\* The counter of a loaded capture.
LEMMA CountOf ==
  ASSUME NEW bodies, \A c, d \in bodies : c.at = d.at => c = d, NEW c \in bodies
  PROVE  CountAt(bodies, c.at) = c.count
<1>1. (CHOOSE d \in bodies : d.at = c.at) = c
  OBVIOUS
<1> QED
  BY <1>1 DEF CountAt

\* A span that both reads accept grew by what the server did in it.
LEMMA ComparableIsReal ==
  ASSUME TableInv, NEW bodies \in SUBSET captures, NEW s, Comparable(bodies, s),
         s.from \in Nat, s.to \in Nat, s.from < s.to
  PROVE  /\ CountAt(bodies, s.to) - CountAt(bodies, s.from) = truth[s.to] - truth[s.from]
         /\ truth[s.to] - truth[s.from] \in Nat
<1>1. PICK a \in bodies, b \in bodies :
        a.at = s.from /\ b.at = s.to /\ a.epoch = b.epoch /\ a.count <= b.count
  BY DEF Comparable, SameEpoch
<1>2. \A c, d \in bodies : c.at = d.at => c = d
  BY DEF TableInv
<1>3. CountAt(bodies, s.from) = a.count /\ CountAt(bodies, s.to) = b.count
  BY <1>1, <1>2, CountOf
<1>4. b.count - a.count = truth[b.at] - truth[a.at]
  BY <1>1 DEF TableInv
<1>5. a \in Capture /\ b \in Capture
  BY DEF TableInv, TypeOK
<1>6. a.count \in Nat /\ b.count \in Nat
  BY <1>5, CaptureFields
<1>7. b.count - a.count \in Nat
  BY <1>1, <1>6
<1> QED
  BY <1>1, <1>3, <1>4, <1>7

LEMMA BucketServed ==
  ASSUME TableInv, NEW ms, NEW ivs, NEW n, IntervalsOf(ms, ivs, n),
         \A i \in 1 .. Len(ms) : Settled(ms[i].at),
         NEW a \in 1 .. n, NEW b \in a .. n, NEW bodies \in SUBSET captures,
         NEW k, k = AssembleBucket(PlanOf(ivs, a .. b), bodies)
  PROVE  /\ k.from = ms[a].at /\ k.to = ms[b + 1].at /\ k.from < k.to
         /\ BucketReal(k) /\ BucketSettled(k)
<1>1. IntervalsOK(ivs, n) /\ n \in Nat \ {0} /\ Len(ms) = n + 1
  BY IntervalsFacts
<1>2. \A i \in 1 .. n : ivs[i].from = ms[i].at /\ ivs[i].to = ms[i + 1].at
  BY IntervalsFacts
<1>3. /\ k.from = ivs[a].from /\ k.to = ivs[b].to
      /\ k.measured \subseteq Spans(ivs, a .. b)
      /\ \A s \in k.measured : Comparable(bodies, s)
      /\ k.rows = Total(Deltas(bodies, k.measured))
      /\ k.duration = Total(Lengths(k.measured))
      /\ k.partial <=> k.duration # k.to - k.from
      /\ ~k.partial => k.measured = {[from |-> k.from, to |-> k.to]}
  BY <1>1, BucketFacts
<1>4. a \in 1 .. n /\ b \in 1 .. n /\ a \in Int /\ b \in Int /\ a <= b /\ \A i \in a .. b : i \in 1 .. n
  BY <1>1
<1>5. k.from = ms[a].at /\ k.to = ms[b + 1].at
  BY <1>2, <1>3, <1>4
<1>6. k.from < k.to
  <2>1. a \in 1 .. n + 1 /\ b + 1 \in 1 .. n + 1 /\ a < b + 1
    BY <1>1, <1>4
  <2> QED
    BY <1>5, <2>1, IntervalsFacts
<1>8. ASSUME NEW s \in k.measured
      PROVE  /\ CountAt(bodies, s.to) - CountAt(bodies, s.from) = truth[s.to] - truth[s.from]
             /\ truth[s.to] - truth[s.from] \in Nat
             /\ Settled(s.from) /\ Settled(s.to)
  <2>1. s \in Spans(ivs, a .. b) /\ Comparable(bodies, s)
    BY <1>3
  <2>2. s.from \in Nat /\ s.to \in Nat /\ s.from < s.to
    BY <1>1, <2>1, SpanEnds
  <2>3. PICK x \in a .. b, y \in a .. b : x <= y /\ s.from = ivs[x].from /\ s.to = ivs[y].to
    BY <1>1, <2>1, SpanEnds
  <2>4. x \in 1 .. Len(ms) /\ y + 1 \in 1 .. Len(ms) /\ x \in 1 .. n /\ y \in 1 .. n
    BY <1>1, <1>4
  <2>5. s.from = ms[x].at /\ s.to = ms[y + 1].at
    BY <1>2, <2>3, <2>4
  <2>6. Settled(s.from) /\ Settled(s.to)
    BY <2>4, <2>5
  <2> QED
    BY <2>1, <2>2, <2>6, ComparableIsReal
<1>9. Deltas(bodies, k.measured) = [s \in k.measured |-> truth[s.to] - truth[s.from]]
  BY <1>8 DEF Deltas
<1>10. ASSUME ~k.partial
       PROVE  k.rows = truth[k.to] - truth[k.from]
  <2> DEFINE s == [from |-> k.from, to |-> k.to]
             v == truth[k.to] - truth[k.from]
             f == Deltas(bodies, k.measured)
  <2>1. s.from = k.from /\ s.to = k.to
    OBVIOUS
  <2>2. k.measured = {s}
    BY <1>3, <1>10
  <2>3. v \in Nat
    BY <1>8, <2>1, <2>2
  <2>4. f = [q \in {s} |-> v]
    BY <1>9, <2>1, <2>2
  <2> HIDE DEF s, v, f
  <2>5. Total(f) = v
    BY <2>3, <2>4, TotalOfOne
  <2> QED
    BY <1>3, <2>5 DEF v, f
<1>11. BucketReal(k)
  <2>1. k.rows = Total([s \in k.measured |-> truth[s.to] - truth[s.from]])
    BY <1>3, <1>9
  <2>2. k.duration = Total([s \in k.measured |-> Length(s)])
    BY <1>3 DEF Lengths
  <2> QED
    BY <1>3, <1>10, <2>1, <2>2 DEF BucketReal
<1>12. BucketSettled(k)
  <2>1. a \in 1 .. Len(ms) /\ b + 1 \in 1 .. Len(ms)
    BY <1>1, <1>4
  <2> QED
    BY <1>5, <1>8, <2>1 DEF BucketSettled
<1> QED
  BY <1>5, <1>6, <1>11, <1>12

\* With all its captures there and of one epoch, a bucket is complete.
LEMMA BucketComplete ==
  ASSUME TableInv, NEW ms, NEW ivs, NEW n, IntervalsOf(ms, ivs, n),
         \A i \in 1 .. Len(ms) : ms[i] \in captures,
         NEW a \in 1 .. n, NEW b \in a .. n, NEW bodies,
         \A c \in captures : \A s \in Spans(ivs, a .. b) : c.at \in {s.from, s.to} => c \in bodies,
         NEW k, k = AssembleBucket(PlanOf(ivs, a .. b), bodies),
         Unbroken(k, ms)
  PROVE  ~k.partial
<1>1. IntervalsOK(ivs, n) /\ n \in Nat \ {0} /\ Len(ms) = n + 1 /\ DOMAIN ms = 1 .. n + 1
  BY IntervalsFacts
<1>2. /\ \A i \in 1 .. n : ivs[i].from = ms[i].at /\ ivs[i].to = ms[i + 1].at
      /\ \A i \in 1 .. n : SameEpoch(ms[i], ms[i + 1]) => ivs[i].complete
  BY IntervalsFacts
<1>3. /\ k.from = ivs[a].from /\ k.to = ivs[b].to
      /\ (\A i \in a .. b : ivs[i].complete) /\ (\A s \in Spans(ivs, a .. b) : Comparable(bodies, s))
           => ~k.partial
  BY <1>1, BucketFacts
<1>4. a \in 1 .. n /\ b \in 1 .. n /\ a \in Int /\ b \in Int /\ a <= b /\ \A i \in a .. b : i \in 1 .. n
  BY <1>1
<1>5. k.from = ms[a].at /\ k.to = ms[b + 1].at
  BY <1>2, <1>3, <1>4
<1>6. \A i \in 1 .. n + 1 : ms[i] \in Capture /\ ms[i].at \in Nat
  BY IntervalsFacts
<1>7. \A i, j \in 1 .. n + 1 : i < j => ms[i].at < ms[j].at
  BY IntervalsFacts
<1>8. ASSUME NEW i \in a .. b + 1
      PROVE  i \in 1 .. n + 1 /\ ms[i].at \in k.from .. k.to
  <2>0. i \in Int /\ a <= i /\ i <= b + 1
    BY <1>4
  <2>1. i \in 1 .. n + 1 /\ a \in 1 .. n + 1 /\ b + 1 \in 1 .. n + 1
    BY <1>1, <1>4, <2>0
  <2>2. ms[a].at <= ms[i].at /\ ms[i].at <= ms[b + 1].at
    <3>1. a = i \/ ms[a].at < ms[i].at
      BY <1>4, <1>7, <2>0, <2>1
    <3>2. i = b + 1 \/ ms[i].at < ms[b + 1].at
      BY <1>4, <1>7, <2>0, <2>1
    <3>3. ms[a].at \in Nat /\ ms[i].at \in Nat /\ ms[b + 1].at \in Nat
      BY <1>6, <2>1
    <3>4. ms[a].at <= ms[i].at
      BY <3>1, <3>3
    <3>5. ms[i].at <= ms[b + 1].at
      BY <3>2, <3>3
    <3> QED
      BY <3>4, <3>5
  <2>3. ms[a].at \in Nat /\ ms[i].at \in Nat /\ ms[b + 1].at \in Nat
    BY <1>6, <2>1
  <2> QED
    BY <1>5, <2>1, <2>2, <2>3
<1>9. \A i, j \in a .. b + 1 : ms[i].epoch = ms[j].epoch
  BY <1>1, <1>8 DEF Unbroken
<1>10. \A i \in a .. b : ivs[i].complete
  <2> SUFFICES ASSUME NEW i \in a .. b PROVE ivs[i].complete
    OBVIOUS
  <2>1. i \in a .. b + 1 /\ i + 1 \in a .. b + 1 /\ i \in 1 .. n
    BY <1>4
  <2>2. ms[i].epoch = ms[i + 1].epoch
    BY <1>9, <2>1
  <2> QED
    BY <1>2, <2>1, <2>2 DEF SameEpoch
<1>11. ASSUME NEW s \in Spans(ivs, a .. b)
       PROVE  Comparable(bodies, s)
  <2>1. PICK x \in a .. b, y \in a .. b : x <= y /\ s.from = ivs[x].from /\ s.to = ivs[y].to
    BY <1>1, SpanEnds
  <2>2. x \in 1 .. n /\ y \in 1 .. n /\ x \in 1 .. n + 1 /\ y + 1 \in 1 .. n + 1 /\ x < y + 1
        /\ x \in a .. b + 1 /\ y + 1 \in a .. b + 1
    BY <1>1, <1>4, <2>1
  <2>3. s.from = ms[x].at /\ s.to = ms[y + 1].at
    BY <1>2, <2>1, <2>2
  <2>4. ms[x] \in captures /\ ms[y + 1] \in captures
    BY <1>1, <2>2
  <2>5. ms[x] \in bodies /\ ms[y + 1] \in bodies
    BY <2>3, <2>4
  <2>6. ms[x].epoch = ms[y + 1].epoch /\ ms[x].at < ms[y + 1].at
    BY <1>7, <1>9, <2>2
  <2>7. ms[x].count <= ms[y + 1].count
    BY <2>4, <2>6 DEF TableInv
  <2> QED
    BY <2>3, <2>5, <2>6, <2>7 DEF Comparable, SameEpoch
<1> QED
  BY <1>3, <1>10, <1>11

\* Every capture at an end of a planned span is loaded if it is still there.
LEMMA BodiesLoaded ==
  ASSUME NEW plan, NEW g \in DOMAIN plan, NEW s \in plan[g].spans, NEW c \in captures,
         c.at \in {s.from, s.to}
  PROVE  c \in Bodies(plan)
<1> DEFINE at == UNION {UNION {{q.from, q.to} : q \in plan[b].spans} : b \in DOMAIN plan}
<1>1. c.at \in UNION {{q.from, q.to} : q \in plan[g].spans}
  OBVIOUS
<1>2. c.at \in at
  BY <1>1
<1>3. Bodies(plan) = {d \in captures : d.at \in at}
  BY DEF Bodies
<1> HIDE DEF at
<1> QED
  BY <1>2, <1>3


LEMMA BucketOfGroup ==
  ASSUME TableInv, NEW ms, NEW ivs, NEW n, IntervalsOf(ms, ivs, n),
         \A i \in 1 .. Len(ms) : Settled(ms[i].at),
         NEW plan, NEW k, NEW first, NEW last, PlannedFrom(plan, ivs, n, k, first, last),
         NEW g \in 1 .. k, NEW q, q = AssembleBucket(plan[g], Bodies(plan))
  PROVE  /\ q.from = ms[first[g]].at /\ q.to = ms[last[g] + 1].at /\ q.from < q.to
         /\ BucketReal(q) /\ BucketSettled(q)
         /\ (\A i \in 1 .. Len(ms) : ms[i] \in captures) /\ Unbroken(q, ms) => ~q.partial
<1> DEFINE a == first[g]
           b == last[g]
           bodies == Bodies(plan)
<1>1. IntervalsOK(ivs, n) /\ n \in Nat \ {0}
  BY IntervalsFacts
<1>2. a \in 1 .. n /\ b \in 1 .. n /\ a <= b /\ plan[g] = PlanOf(ivs, a .. b) /\ g \in DOMAIN plan
  BY DEF PlannedFrom
<1>3. q = AssembleBucket(plan[g], bodies)
  OBVIOUS
<1>4. bodies \in SUBSET captures
  BY DEF Bodies
<1> HIDE DEF a, b, bodies
<1>5. a \in Nat /\ b \in Nat /\ b \in a .. n
  BY <1>1, <1>2
<1>6. q = AssembleBucket(PlanOf(ivs, a .. b), bodies)
  BY <1>2, <1>3
<1>7. /\ q.from = ms[a].at /\ q.to = ms[b + 1].at /\ q.from < q.to
      /\ BucketReal(q) /\ BucketSettled(q)
  BY <1>2, <1>4, <1>5, <1>6, BucketServed
<1>8. ASSUME \A i \in 1 .. Len(ms) : ms[i] \in captures, Unbroken(q, ms)
      PROVE  ~q.partial
  <2>1. plan[g].spans = Spans(ivs, a .. b)
    <3>1. PICK p : p = plan[g] /\ p = PlanOf(ivs, a .. b)
      BY <1>2
    <3>2. p.spans = Spans(ivs, a .. b)
      BY <3>1 DEF PlanOf
    <3> QED
      BY <3>1, <3>2
  <2>2. \A c \in captures : \A s \in Spans(ivs, a .. b) : c.at \in {s.from, s.to} => c \in bodies
    BY <1>2, <2>1, BodiesLoaded DEF bodies
  <2> QED
    BY <1>2, <1>5, <1>6, <1>8, <2>2, BucketComplete
<1> QED
  BY <1>7, <1>8 DEF a, b

\* The buckets of a series tile it.
LEMMA BucketsOfSeries ==
  ASSUME TableInv, NEW ms, NEW ivs, NEW n, IntervalsOf(ms, ivs, n),
         \A i \in 1 .. Len(ms) : Settled(ms[i].at),
         NEW points \in Nat \ {0}, NEW plan, plan = PlanBuckets(ms, points),
         NEW bs, bs = [b \in DOMAIN plan |-> AssembleBucket(plan[b], Bodies(plan))]
  PROVE  /\ Tiles(bs, ms, points)
         /\ \A b \in DOMAIN bs : BucketReal(bs[b]) /\ BucketSettled(bs[b])
         /\ (\A i \in 1 .. Len(ms) : ms[i] \in captures)
              => \A b \in DOMAIN bs : Unbroken(bs[b], ms) => ~bs[b].partial
<1>0. PICK k \in 1 .. points : \E first, last : PlannedFrom(plan, ivs, n, k, first, last)
  BY PlanOfGroups
<1>1. PICK first, last : PlannedFrom(plan, ivs, n, k, first, last)
  BY <1>0
<1>2. /\ DOMAIN plan = 1 .. k /\ first[1] = 1 /\ last[k] = n
      /\ \A g \in 1 .. k : g > 1 => first[g] = last[g - 1] + 1
  BY <1>1 DEF PlannedFrom
<1>3. k \in Nat \ {0} /\ k <= points /\ 1 \in 1 .. k /\ k \in 1 .. k
  BY <1>0
<1>4. DOMAIN bs = 1 .. k /\ Len(bs) = k
  BY <1>2, <1>3
<1>5. ASSUME NEW g \in 1 .. k
      PROVE  /\ bs[g].from = ms[first[g]].at /\ bs[g].to = ms[last[g] + 1].at
             /\ bs[g].from < bs[g].to
             /\ BucketReal(bs[g]) /\ BucketSettled(bs[g])
             /\ (\A i \in 1 .. Len(ms) : ms[i] \in captures) /\ Unbroken(bs[g], ms) => ~bs[g].partial
  <2>1. PICK q : q = bs[g] /\ q = AssembleBucket(plan[g], Bodies(plan))
    BY <1>2
  <2>2. /\ q.from = ms[first[g]].at /\ q.to = ms[last[g] + 1].at /\ q.from < q.to
        /\ BucketReal(q) /\ BucketSettled(q)
        /\ (\A i \in 1 .. Len(ms) : ms[i] \in captures) /\ Unbroken(q, ms) => ~q.partial
    BY <1>1, <2>1, BucketOfGroup
  <2> QED
    BY <2>1, <2>2
<1>6. bs # <<>> /\ bs[1].from = ms[1].at
  BY <1>2, <1>3, <1>4, <1>5
<1>7. bs[k].to = ms[Len(ms)].at
  <2>1. Len(ms) = n + 1
    BY IntervalsFacts
  <2> QED
    BY <1>2, <1>3, <1>5, <2>1
<1>8. ASSUME NEW g \in 1 .. k, g > 1
      PROVE  bs[g - 1].to = bs[g].from
  <2>1. g - 1 \in 1 .. k
    BY <1>3, <1>8
  <2>2. bs[g - 1].to = ms[last[g - 1] + 1].at /\ bs[g].from = ms[first[g]].at
    BY <1>5, <2>1
  <2> QED
    BY <1>2, <1>8, <2>2
<1>9. \A g \in 1 .. k : bs[g].from < bs[g].to
  BY <1>5
<1>10. Tiles(bs, ms, points)
  BY <1>3, <1>4, <1>6, <1>7, <1>8, <1>9 DEF Tiles
<1>11. \A g \in 1 .. k : BucketReal(bs[g]) /\ BucketSettled(bs[g])
  BY <1>5
<1>12. ASSUME \A i \in 1 .. Len(ms) : ms[i] \in captures, NEW g \in 1 .. k, Unbroken(bs[g], ms)
       PROVE  ~bs[g].partial
  BY <1>5, <1>12
<1> QED
  BY <1>4, <1>10, <1>11, <1>12

\* What the second read serves, from any headers of the first.
LEMMA BucketsServed ==
  ASSUME TableInv, RequestInv, request.pc = "planned",
         NEW plan, plan = PlanBuckets(metas, request.points),
         NEW bs, bs = [b \in DOMAIN plan |-> AssembleBucket(plan[b], Bodies(plan))]
  PROVE  /\ Tiles(bs, metas, request.points)
         /\ \A b \in DOMAIN bs : BucketReal(bs[b]) /\ BucketSettled(bs[b])
         /\ ~request.pruned => \A b \in DOMAIN bs : Unbroken(bs[b], metas) => ~bs[b].partial
<1>1. /\ Series(metas) /\ \A i \in 1 .. Len(metas) : Settled(metas[i].at)
      /\ ~request.pruned => \A i \in 1 .. Len(metas) : metas[i] \in captures
  BY DEF RequestInv
<1>2. request.points \in Nat \ {0}
  BY IOAssumption DEF RequestInv
<1>3. Len(metas) \in Nat
  BY <1>1 DEF Series
<1> DEFINE points == request.points
           ms == metas
<1>4. CASE Len(ms) < 2
  <2>1. DOMAIN bs = {}
    BY <1>1, <1>4, NothingToPlan
  <2>2. bs = [b \in {} |-> AssembleBucket(plan[b], Bodies(plan))]
    BY <2>1
  <2>3. Len(bs) = 0
    BY <2>2
  <2>4. ~(Len(ms) >= 2)
    BY <1>3, <1>4
  <2>5. 0 <= points
    BY <1>2
  <2> HIDE DEF ms, points
  <2>6. Tiles(bs, ms, points)
    BY <2>1, <2>3, <2>4, <2>5 DEF Tiles
  <2> QED
    BY <2>1, <2>6 DEF ms, points
<1>5. CASE Len(ms) >= 2
  <2> DEFINE ivs == MetaIntervals(ms)
             n == Len(ms) - 1
  <2>1. IntervalsOf(ms, ivs, n)
    BY <1>1, <1>5 DEF IntervalsOf
  <2>2. plan = PlanBuckets(ms, points)
    OBVIOUS
  <2>3. \A i \in 1 .. Len(ms) : Settled(ms[i].at)
    BY <1>1
  <2> HIDE DEF ivs, n, ms
  <2>4. /\ Tiles(bs, ms, points)
        /\ \A b \in DOMAIN bs : BucketReal(bs[b]) /\ BucketSettled(bs[b])
        /\ (\A i \in 1 .. Len(ms) : ms[i] \in captures)
             => \A b \in DOMAIN bs : Unbroken(bs[b], ms) => ~bs[b].partial
    BY <1>2, <2>1, <2>2, <2>3, BucketsOfSeries
  <2> QED
    BY <1>1, <2>4 DEF ms
<1> QED
  BY <1>3, <1>4, <1>5

-----------------------------------------------------------------------------
(* The steps. *)

\* A capture is due only after the schedule fired again: no tick has two.
LEMMA DueIsNew ==
  ASSUME TableInv, Due
  PROVE  \A c \in captures : c.at < now
<1> DEFINE ats == {c.at : c \in captures}
<1>1. now \in Nat /\ \A c \in captures : c.at \in Nat /\ c.at <= now
  <2>1. now \in Nat /\ \A c \in captures : c \in Capture /\ c.at <= now
    BY IOAssumption DEF TableInv, TypeOK
  <2> QED
    BY <2>1, CaptureFields
<1>2. SUFFICES ASSUME NEW c \in captures
               PROVE  c.at < now
  OBVIOUS
<1>3. ats \in SUBSET Nat /\ ats # {} /\ \A x \in ats : x <= now
  BY <1>1
<1>4. captures # {} /\ c.at \in ats
  OBVIOUS
<1>5. LastAt = Max(ats)
  BY <1>4 DEF LastAt
<1> HIDE DEF ats
<1>6. Max(ats) \in ats /\ c.at <= Max(ats)
  BY <1>1, <1>3, <1>4, MaxOf
<1>7. LastAt \in Nat /\ c.at <= LastAt
  BY <1>3, <1>5, <1>6
<1>8. LastAt # Nil
  BY <1>7 DEF Nil
<1>9. now >= NextFire(LastAt)
  BY <1>8 DEF Due
<1>10. NextFire(LastAt) \in Nat /\ LastAt < NextFire(LastAt)
  BY <1>7, NextFireLater
<1> QED
  BY <1>1, <1>7, <1>9, <1>10

LEMMA TableFacts ==
  ASSUME TableInv
  PROVE  /\ now \in Nat /\ now <= MaxNow /\ MaxNow \in Nat /\ MaxWork \in Nat /\ MaxResets \in Nat
         /\ count \in Nat /\ epoch \in Nat /\ done \in Nat /\ count <= done /\ done <= MaxWork
         /\ MaxNow + 1 \in 0 .. (MaxNow + 1) /\ now \in 0 .. (MaxNow + 1)
         /\ \A c \in captures : /\ c \in Capture
                                /\ c.at \in Nat /\ c.at <= now /\ c.at \in 0 .. (MaxNow + 1)
                                /\ c.count \in Nat /\ c.epoch \in Nat /\ c.epoch <= epoch
<1>1. MaxNow \in Nat /\ MaxWork \in Nat /\ MaxResets \in Nat
  BY IOAssumption
<1>2. now \in 0 .. MaxNow /\ count \in 0 .. MaxWork /\ epoch \in 0 .. MaxResets
  BY DEF TableInv, TypeOK
<1>3. truth \in [0 .. (MaxNow + 1) -> 0 .. MaxWork]
  BY DEF TableInv, TypeOK
<1>4. MaxNow + 1 \in 0 .. (MaxNow + 1)
  BY <1>1
<1>5. done \in 0 .. MaxWork
  BY <1>3, <1>4 DEF done
<1>6. count <= done
  BY DEF TableInv
<1>7. ASSUME NEW c \in captures
      PROVE  /\ c \in Capture /\ c.at \in Nat /\ c.at <= now /\ c.at \in 0 .. (MaxNow + 1)
             /\ c.count \in Nat /\ c.epoch \in Nat /\ c.epoch <= epoch
  <2>1. c \in Capture /\ c.at <= now /\ c.epoch <= epoch
    BY DEF TableInv, TypeOK
  <2>2. c.at \in Nat /\ c.at <= MaxNow /\ c.count \in Nat /\ c.epoch \in Nat
    BY <2>1, CaptureFields
  <2> QED
    BY <1>1, <2>1, <2>2
<1> QED
  BY <1>1, <1>2, <1>4, <1>5, <1>6, <1>7

LEMMA TableInit == Init => TableInv
<1> SUFFICES ASSUME Init PROVE TableInv
  OBVIOUS
<1>1. MaxNow \in Nat /\ MaxWork \in Nat /\ MaxResets \in Nat
  BY IOAssumption
<1>2. MaxNow + 1 \in 0 .. (MaxNow + 1) /\ 0 \in 0 .. MaxWork /\ 0 \in 0 .. MaxNow /\ 0 \in 0 .. MaxResets
  BY <1>1
<1>3. request.pc = "idle"
  BY DEF Init, NoRequest
<1>4. TypeOK
  BY <1>1, <1>2, <1>3 DEF Init, TypeOK
<1>5. done = 0 /\ count = 0 /\ captures = {}
  BY <1>2 DEF Init, done
<1> QED
  BY <1>4, <1>5 DEF TableInv

LEMMA WorkTable == TableInv /\ Work => TableInv'
<1> SUFFICES ASSUME TableInv, Work PROVE TableInv'
  OBVIOUS
<1> USE DEF Work
<1>1. /\ now \in Nat /\ now <= MaxNow /\ MaxNow \in Nat /\ MaxWork \in Nat
      /\ count \in Nat /\ epoch \in Nat /\ done \in Nat /\ count <= done
      /\ MaxNow + 1 \in 0 .. (MaxNow + 1)
  BY TableFacts
<1>2. truth \in [0 .. (MaxNow + 1) -> 0 .. MaxWork]
  BY DEF TableInv, TypeOK
<1>3. done' = done + 1
  BY <1>1, <1>2 DEF done
<1>4. truth' \in [0 .. (MaxNow + 1) -> 0 .. MaxWork]
  <2>1. done + 1 \in 0 .. MaxWork
    BY <1>1
  <2> QED
    BY <1>2, <2>1 DEF done
<1>5. \A c \in captures : truth'[c.at] = truth[c.at]
  <2> SUFFICES ASSUME NEW c \in captures PROVE truth'[c.at] = truth[c.at]
    OBVIOUS
  <2>1. c.at \in Nat /\ c.at <= now /\ c.at \in 0 .. (MaxNow + 1)
    BY TableFacts
  <2> QED
    BY <1>1, <1>2, <2>1
<1>6. count' \in 0 .. MaxWork /\ count' <= done'
  BY <1>1, <1>3
<1>7. TypeOK'
  BY <1>4, <1>6 DEF TableInv, TypeOK
<1>8. ASSUME NEW c \in captures'
      PROVE  /\ c.at <= now' /\ c.epoch <= epoch'
             /\ c.epoch = epoch' => c.count <= count' /\ count' - c.count = done' - truth'[c.at]
  <2>1. c \in captures /\ c.count \in Nat /\ c.at \in 0 .. (MaxNow + 1)
    BY TableFacts
  <2>2. truth[c.at] \in Nat
    BY <1>1, <1>2, <2>1
  <2>3. /\ c.at <= now /\ c.epoch <= epoch
        /\ c.epoch = epoch => c.count <= count /\ count - c.count = done - truth[c.at]
    BY <2>1 DEF TableInv
  <2>4. truth'[c.at] = truth[c.at]
    BY <1>5, <2>1
  <2> QED
    BY <1>1, <1>3, <2>1, <2>2, <2>3, <2>4
<1>9. ASSUME NEW c \in captures', NEW d \in captures'
      PROVE  /\ c.at = d.at => c = d
             /\ c.at < d.at /\ c.epoch = d.epoch =>
                  c.count <= d.count /\ d.count - c.count = truth'[d.at] - truth'[c.at]
  <2>1. truth'[c.at] = truth[c.at] /\ truth'[d.at] = truth[d.at]
    BY <1>5
  <2> QED
    BY <2>1 DEF TableInv
<1> QED
  BY <1>6, <1>7, <1>8, <1>9 DEF TableInv

LEMMA ResetTable == TableInv /\ Reset => TableInv'
<1> SUFFICES ASSUME TableInv, Reset PROVE TableInv'
  OBVIOUS
<1> USE DEF Reset
<1>1. epoch \in Nat /\ done \in Nat /\ MaxWork \in Nat /\ MaxResets \in Nat
  BY TableFacts
<1>2. TypeOK'
  <2>1. epoch' \in 0 .. MaxResets /\ count' \in 0 .. MaxWork
    BY <1>1
  <2> QED
    BY <2>1 DEF TableInv, TypeOK
<1>3. done' = done /\ count' <= done'
  BY <1>1 DEF done
<1>4. ASSUME NEW c \in captures'
      PROVE  c.at <= now' /\ c.epoch <= epoch' /\ c.epoch # epoch'
  <2>1. c.at <= now /\ c.epoch \in Nat /\ c.epoch <= epoch
    BY TableFacts
  <2> QED
    BY <1>1, <2>1
<1>5. ASSUME NEW c \in captures', NEW d \in captures'
      PROVE  /\ c.at = d.at => c = d
             /\ c.at < d.at /\ c.epoch = d.epoch =>
                  c.count <= d.count /\ d.count - c.count = truth'[d.at] - truth'[c.at]
  BY DEF TableInv
<1> QED
  BY <1>2, <1>3, <1>4, <1>5 DEF TableInv

LEMMA TickTable == TableInv /\ Tick => TableInv'
<1> SUFFICES ASSUME TableInv, Tick PROVE TableInv'
  OBVIOUS
<1> USE DEF Tick
<1>1. now \in Nat /\ MaxNow \in Nat
  BY TableFacts
<1>2. TypeOK'
  <2>1. now' \in 0 .. MaxNow
    BY <1>1
  <2> QED
    BY <2>1 DEF TableInv, TypeOK
<1>3. ASSUME NEW c \in captures'
      PROVE  c.at <= now'
  <2>1. c.at \in Nat /\ c.at <= now
    BY TableFacts
  <2> QED
    BY <1>1, <2>1
<1> QED
  BY <1>2, <1>3 DEF TableInv, done

\* A new capture is of the counter and the work of this tick.
LEMMA TakeTable == TableInv /\ TakeIOSnapshot => TableInv'
<1> SUFFICES ASSUME TableInv, TakeIOSnapshot PROVE TableInv'
  OBVIOUS
<1> USE DEF TakeIOSnapshot
<1> DEFINE new == [at |-> now, count |-> count, epoch |-> epoch]
<1>1. /\ now \in Nat /\ now <= MaxNow /\ MaxNow \in Nat /\ MaxWork \in Nat
      /\ count \in Nat /\ epoch \in Nat /\ done \in Nat /\ count <= done /\ done <= MaxWork
      /\ MaxNow + 1 \in 0 .. (MaxNow + 1) /\ now \in 0 .. (MaxNow + 1)
  BY TableFacts
<1>2. truth \in [0 .. (MaxNow + 1) -> 0 .. MaxWork]
  BY DEF TableInv, TypeOK
<1>3. truth' \in [0 .. (MaxNow + 1) -> 0 .. MaxWork]
  <2>1. done \in 0 .. MaxWork
    BY <1>1
  <2> QED
    BY <1>2, <2>1
<1>4. done' = done
  BY <1>1, <1>2 DEF done
<1>5. truth'[now] = done
  BY <1>1, <1>2
<1>6. \A c \in captures : c.at < now /\ truth'[c.at] = truth[c.at]
  <2> SUFFICES ASSUME NEW c \in captures PROVE c.at < now /\ truth'[c.at] = truth[c.at]
    OBVIOUS
  <2>1. c.at \in Nat /\ c.at < now /\ c.at \in 0 .. (MaxNow + 1)
    BY TableFacts, DueIsNew
  <2> QED
    BY <1>1, <1>2, <2>1
<1>7. new \in Capture
  <2>1. now \in 0 .. MaxNow /\ count \in 0 .. MaxWork /\ epoch \in 0 .. MaxResets
    BY DEF TableInv, TypeOK
  <2> QED
    BY <2>1 DEF Capture
<1>8. captures' = captures \cup {new}
  OBVIOUS
<1>9. new.at = now /\ new.count = count /\ new.epoch = epoch
  OBVIOUS
<1> HIDE DEF new
<1>10. TypeOK'
  <2>1. captures' \in SUBSET Capture
    BY <1>7, <1>8 DEF TableInv, TypeOK
  <2>2. attempt' \in 0 .. MaxNow \cup {Nil}
    BY DEF TableInv, TypeOK
  <2> QED
    BY <1>3, <2>1, <2>2 DEF TableInv, TypeOK
<1>11. ASSUME NEW c \in captures'
       PROVE  /\ c.at <= now' /\ c.epoch <= epoch'
              /\ c.epoch = epoch' => c.count <= count' /\ count' - c.count = done' - truth'[c.at]
  <2>1. CASE c \in captures
    BY <1>4, <1>6, <2>1 DEF TableInv
  <2>2. CASE c = new
    BY <1>1, <1>4, <1>5, <1>9, <2>2
  <2> QED
    BY <1>8, <2>1, <2>2
<1>12. ASSUME NEW c \in captures', NEW d \in captures'
       PROVE  /\ c.at = d.at => c = d
              /\ c.at < d.at /\ c.epoch = d.epoch =>
                   c.count <= d.count /\ d.count - c.count = truth'[d.at] - truth'[c.at]
  <2>1. CASE c \in captures /\ d \in captures
    BY <1>6, <2>1 DEF TableInv
  <2>2. CASE c \in captures /\ d = new
    <3>1. c.at < now /\ c.at \in Nat /\ truth'[c.at] = truth[c.at]
      BY <1>6, <2>2, TableFacts
    <3>2. c.epoch = epoch => c.count <= count /\ count - c.count = done - truth[c.at]
      BY <2>2 DEF TableInv
    <3> QED
      BY <1>1, <1>5, <1>9, <2>2, <3>1, <3>2
  <2>3. CASE c = new /\ d \in captures
    <3>1. d.at < now /\ d.at \in Nat
      BY <1>6, <2>3, TableFacts
    <3> QED
      BY <1>1, <1>9, <2>3, <3>1
  <2>4. CASE c = new /\ d = new
    BY <1>1, <1>9, <2>4
  <2> QED
    BY <1>8, <2>1, <2>2, <2>3, <2>4
<1>13. count' <= done'
  BY <1>1, <1>4
<1> QED
  BY <1>10, <1>11, <1>12, <1>13 DEF TableInv

\* The table only loses captures, or nothing of it changes.
LEMMA SmallerTable ==
  ASSUME TableInv, captures' \subseteq captures, request'.pc \in {"idle", "planned", "served"},
         attempt' \in 0 .. MaxNow \cup {Nil},
         now' = now, count' = count, epoch' = epoch, truth' = truth
  PROVE  TableInv'
<1>1. TypeOK'
  BY DEF TableInv, TypeOK
<1>2. done' = done
  BY DEF done
<1> QED
  BY <1>1, <1>2 DEF TableInv

LEMMA RetentionRequest ==
  ASSUME RequestShape(request), request' = [request EXCEPT !.pruned = TRUE]
  PROVE  /\ request'.pc = request.pc /\ request'.from = request.from
         /\ request'.points = request.points /\ metas' = metas /\ buckets' = buckets
         /\ request'.pruned = TRUE /\ RequestShape(request)'
<1>1. PICK pc, from, points, ms, bs, pruned :
        request = [pc |-> pc, from |-> from, points |-> points, metas |-> ms,
                   buckets |-> bs, pruned |-> pruned]
  BY DEF RequestShape
<1>2. request' = [pc |-> pc, from |-> from, points |-> points, metas |-> ms,
                  buckets |-> bs, pruned |-> TRUE]
  BY <1>1
<1> QED
  BY <1>1, <1>2 DEF RequestShape, metas, buckets

LEMMA ServeRequest ==
  ASSUME RequestShape(request), NEW bs,
         request' = [request EXCEPT !.pc = "served", !.buckets = bs]
  PROVE  /\ request'.pc = "served" /\ request'.from = request.from
         /\ request'.points = request.points /\ metas' = metas /\ buckets' = bs
         /\ request'.pruned = request.pruned /\ RequestShape(request)'
<1>1. PICK pc, from, points, ms, b, pruned :
        request = [pc |-> pc, from |-> from, points |-> points, metas |-> ms,
                   buckets |-> b, pruned |-> pruned]
  BY DEF RequestShape
<1>2. request' = [pc |-> "served", from |-> from, points |-> points, metas |-> ms,
                  buckets |-> bs, pruned |-> pruned]
  BY <1>1
<1> QED
  BY <1>1, <1>2 DEF RequestShape, metas, buckets

\* A step keeps what a request has seen: settled ticks stay so, with their work.
Kept == \A t : Settled(t) => Settled(t)' /\ truth'[t] = truth[t]

LEMMA SameIsKept ==
  ASSUME UNCHANGED <<now, captures, truth>>
  PROVE  Kept
BY DEF Kept, Settled

LEMMA WorkKept == TableInv /\ Work => Kept
<1> SUFFICES ASSUME TableInv, Work, NEW t, Settled(t)
             PROVE  Settled(t)' /\ truth'[t] = truth[t]
  BY DEF Kept
<1>1. Settled(t)'
  BY DEF Settled, Work
<1>2. t \in 0 .. now
  BY DEF Settled
<1>3. now \in Nat /\ now <= MaxNow /\ MaxNow \in Nat
  BY TableFacts
<1>4. t # MaxNow + 1 /\ t \in 0 .. (MaxNow + 1)
  BY <1>2, <1>3
<1>5. truth \in [0 .. (MaxNow + 1) -> 0 .. MaxWork]
  BY DEF TableInv, TypeOK
<1> QED
  BY <1>1, <1>4, <1>5 DEF Work

LEMMA TickKept == TableInv /\ Tick => Kept
<1> SUFFICES ASSUME TableInv, Tick, NEW t, Settled(t)
             PROVE  Settled(t)' /\ truth'[t] = truth[t]
  BY DEF Kept
<1>1. now \in Nat
  BY TableFacts
<1>2. t \in 0 .. now
  BY DEF Settled
<1>3. t \in 0 .. (now + 1) /\ t # now + 1
  BY <1>1, <1>2
<1> QED
  BY <1>3 DEF Settled, Tick

LEMMA TakeKept == TableInv /\ TakeIOSnapshot => Kept
<1> SUFFICES ASSUME TableInv, TakeIOSnapshot, NEW t, Settled(t)
             PROVE  Settled(t)' /\ truth'[t] = truth[t]
  BY DEF Kept
<1>1. now \in Nat /\ now <= MaxNow /\ MaxNow \in Nat
  BY TableFacts
<1>2. \A c \in captures : c.at < now /\ c.at \in Nat
  BY DueIsNew, TableFacts DEF TakeIOSnapshot
<1>3. t \in 0 .. now /\ t # now
  BY <1>1, <1>2 DEF Settled
<1>4. t \in 0 .. (MaxNow + 1)
  BY <1>1, <1>3
<1>5. truth \in [0 .. (MaxNow + 1) -> 0 .. MaxWork]
  BY DEF TableInv, TypeOK
<1> QED
  BY <1>3, <1>4, <1>5 DEF Settled, TakeIOSnapshot

LEMMA RetentionKept == TableInv /\ IORetention => Kept
<1> SUFFICES ASSUME TableInv, IORetention, NEW t, Settled(t)
             PROVE  Settled(t)' /\ truth'[t] = truth[t]
  BY DEF Kept
<1>1. PICK x \in 0 .. (now - Retention - 1) : captures' = captures \ {c \in captures : c.at = x}
  BY DEF IORetention
<1>2. now \in Nat /\ Retention \in Nat
  BY TableFacts, IOAssumption
<1>3. x # now
  BY <1>1, <1>2
<1> QED
  BY <1>1, <1>3 DEF Settled, IORetention

LEMMA BucketKept ==
  ASSUME Kept, NEW k, BucketReal(k), BucketSettled(k)
  PROVE  BucketReal(k)' /\ BucketSettled(k)'
<1>1. \A s \in k.measured : /\ Settled(s.from)' /\ Settled(s.to)'
                            /\ truth'[s.from] = truth[s.from] /\ truth'[s.to] = truth[s.to]
  BY DEF Kept, BucketSettled
<1>2. Settled(k.from)' /\ Settled(k.to)' /\ truth'[k.from] = truth[k.from] /\ truth'[k.to] = truth[k.to]
  BY DEF Kept, BucketSettled
<1>3. [s \in k.measured |-> truth'[s.to] - truth'[s.from]]
        = [s \in k.measured |-> truth[s.to] - truth[s.from]]
  BY <1>1
<1>4. BucketSettled(k)'
  BY <1>1, <1>2 DEF BucketSettled
<1>5. k.rows = Total([s \in k.measured |-> truth'[s.to] - truth'[s.from]])
  BY <1>3 DEF BucketReal
<1>6. /\ k.duration = Total([s \in k.measured |-> Length(s)])
      /\ k.partial <=> k.duration # k.to - k.from
      /\ ~k.partial => k.rows = truth'[k.to] - truth'[k.from]
  BY <1>2 DEF BucketReal
<1> QED
  BY <1>4, <1>5, <1>6 DEF BucketReal

\* A served history stays true: what happens next does not change its ticks.
LEMMA ServedKept ==
  ASSUME ServedInv, Kept, request'.pc = request.pc, request'.points = request.points,
         metas' = metas, buckets' = buckets, ~request'.pruned => ~request.pruned
  PROVE  ServedInv'
<1> SUFFICES ASSUME request.pc = "served"
             PROVE  /\ Tiles(buckets, metas, request.points)'
                    /\ \A b \in DOMAIN buckets' : (BucketReal(buckets[b]) /\ BucketSettled(buckets[b]))'
                    /\ ~request'.pruned =>
                         \A b \in DOMAIN buckets' : Unbroken(buckets'[b], metas') => ~buckets'[b].partial
  BY DEF ServedInv
<1>1. Tiles(buckets', metas', request'.points)
  BY DEF ServedInv
<1>2. ~request'.pruned => \A b \in DOMAIN buckets' : Unbroken(buckets'[b], metas') => ~buckets'[b].partial
  BY DEF ServedInv
<1>3. ASSUME NEW b \in DOMAIN buckets'
      PROVE  (BucketReal(buckets[b]) /\ BucketSettled(buckets[b]))'
  <2>1. PICK k : k = buckets[b] /\ k = buckets'[b]
    OBVIOUS
  <2>2. BucketReal(k) /\ BucketSettled(k)
    BY <1>3, <2>1 DEF ServedInv
  <2>3. BucketReal(k)' /\ BucketSettled(k)'
    BY <2>2, BucketKept
  <2> QED
    BY <2>1, <2>3 DEF BucketReal, BucketSettled, Settled
<1> QED
  BY <1>1, <1>2, <1>3

\* Captures that come later are of the window or after it.
LEMMA RequestKept ==
  ASSUME TableInv, RequestInv, Kept, now' \in Nat, now <= now', request' = request,
         captures \subseteq captures', \A c \in captures' : c \in captures \/ c.at = now
  PROVE  RequestInv'
<1>1. now \in Nat /\ metas' = metas /\ buckets' = buckets
  BY TableFacts DEF metas, buckets
<1>2. \A i \in 1 .. Len(metas') : Settled(metas[i].at)'
  <2> SUFFICES ASSUME NEW i \in 1 .. Len(metas) PROVE Settled(metas[i].at)'
    BY <1>1
  <2>1. PICK t : t = metas[i].at /\ t = metas'[i].at
    BY <1>1
  <2>2. Settled(t)'
    BY <2>1 DEF RequestInv, Kept
  <2> QED
    BY <2>1, <2>2 DEF Settled
<1>3. request'.pc = "planned" => request'.from \in Nat /\ request'.from <= now'
  BY <1>1 DEF RequestInv
<1>4. WindowCovered'
  <2> SUFFICES ASSUME request.pc = "planned", ~request.pruned, NEW c \in captures', c.at < request.from,
                      metas # <<>>
               PROVE  metas[1].at < request.from
    BY <1>1 DEF WindowCovered
  <2>1. request.from \in Nat /\ request.from <= now
    BY DEF RequestInv
  <2>2. c.at # now
    BY <1>1, <2>1
  <2> QED
    BY <2>2 DEF RequestInv, WindowCovered
<1>5. request'.pc = "planned" /\ ~request'.pruned => \A i \in 1 .. Len(metas') : metas'[i] \in captures'
  BY <1>1 DEF RequestInv
<1>6. /\ RequestShape(request') /\ request'.pruned \in BOOLEAN
      /\ request'.pc # "idle" => request'.points \in Points
      /\ request'.pc # "served" => buckets' = <<>>
      /\ Series(metas')
  BY <1>1 DEF RequestInv
<1> QED
  BY <1>2, <1>3, <1>4, <1>5, <1>6 DEF RequestInv

LEMMA RetentionKeepsRequest ==
  ASSUME TableInv, RequestInv, IORetention
  PROVE  RequestInv'
<1>1. Kept /\ now' = now
  BY RetentionKept DEF IORetention
<1>2. /\ request'.pc = request.pc /\ request'.from = request.from
      /\ request'.points = request.points /\ metas' = metas /\ buckets' = buckets
      /\ request'.pruned = TRUE /\ RequestShape(request')
  BY RetentionRequest DEF RequestInv, IORetention
<1>3. \A i \in 1 .. Len(metas') : Settled(metas[i].at)'
  <2> SUFFICES ASSUME NEW i \in 1 .. Len(metas) PROVE Settled(metas[i].at)'
    BY <1>2
  <2>1. PICK t : t = metas[i].at /\ t = metas'[i].at
    BY <1>2
  <2>2. Settled(t)'
    BY <1>1, <2>1 DEF RequestInv, Kept
  <2> QED
    BY <2>1, <2>2 DEF Settled
<1>4. WindowCovered'
  BY <1>2 DEF WindowCovered
<1>5. /\ request'.pruned \in BOOLEAN
      /\ request'.pc # "idle" => request'.points \in Points
      /\ request'.pc = "planned" => request'.from \in Nat /\ request'.from <= now'
      /\ request'.pc # "served" => buckets' = <<>>
      /\ Series(metas')
  BY <1>1, <1>2 DEF RequestInv
<1> QED
  BY <1>2, <1>3, <1>4, <1>5 DEF RequestInv

\* The headers read: captures of settled ticks, in order, from before the window.
LEMMA HeadersRead ==
  ASSUME TableInv, NEW from \in Nat, NEW to \in Nat, NEW ms, ms = Chronological(Metas(from, to))
  PROVE  /\ Series(ms)
         /\ \A i \in 1 .. Len(ms) : ms[i] \in captures /\ Settled(ms[i].at)
         /\ (\E c \in captures : c.at < from) /\ ms # <<>> => ms[1].at < from
<1> DEFINE C == Metas(from, to)
           before == {c \in captures : c.at < from}
           ats == {c.at : c \in before}
<1>1. C \subseteq captures
  BY DEF Metas
<1>2. \A c \in before : (\A d \in before : d.at <= c.at) => c \in C
  BY DEF Metas
<1>3. now \in Nat /\ \A c \in captures : c \in Capture /\ c.at \in Nat /\ c.at <= now
  BY TableFacts
<1> HIDE DEF C
<1>4. C \in SUBSET Capture /\ \A c, d \in C : c.at = d.at => c = d
  BY <1>1, <1>3 DEF TableInv
<1>5. /\ Series(ms)
      /\ \A i \in 1 .. Len(ms) : ms[i] \in C
      /\ \A c \in C : \E i \in 1 .. Len(ms) : ms[i] = c
  <2>1. ms = Chronological(C)
    BY DEF C
  <2> QED
    BY <1>4, <2>1, ChronologicalSorts
<1>6. ASSUME NEW i \in 1 .. Len(ms)
      PROVE  ms[i] \in captures /\ Settled(ms[i].at)
  <2>1. PICK c \in captures : c = ms[i]
    BY <1>1, <1>5
  <2>2. c.at \in 0 .. now
    BY <1>3
  <2>3. Settled(c.at)
    BY <2>2 DEF Settled
  <2> QED
    BY <2>1, <2>3
<1>7. ASSUME \E c \in captures : c.at < from
      PROVE  ms[1].at < from
  <2>1. ats \in SUBSET Nat /\ ats # {} /\ \A x \in ats : x <= now
    BY <1>3, <1>7
  <2>2. \A c \in before : c.at \in ats
    OBVIOUS
  <2>3. \A x \in ats : \E c \in before : c.at = x
    OBVIOUS
  <2> HIDE DEF ats
  <2>4. Max(ats) \in ats /\ \A x \in ats : x <= Max(ats)
    BY <1>3, <2>1, MaxOf
  <2>5. PICK d \in before : d.at = Max(ats)
    BY <2>3, <2>4
  <2>6. d \in C
    BY <1>2, <2>2, <2>4, <2>5
  <2>7. PICK i \in 1 .. Len(ms) : ms[i] = d
    BY <1>5, <2>6
  <2>8. Len(ms) \in Nat
    BY <1>5 DEF Series
  <2>9. 1 \in 1 .. Len(ms) /\ (i = 1 \/ 1 < i)
    BY <2>7, <2>8
  <2>10. ms[1].at = d.at \/ ms[1].at < d.at
    BY <1>5, <2>7, <2>9 DEF Series
  <2>11. ms[1].at \in Nat /\ d.at \in Nat /\ d.at < from
    BY <1>3, <1>6, <2>5, <2>9
  <2> QED
    BY <2>10, <2>11
<1> QED
  BY <1>5, <1>6, <1>7

LEMMA ReadMetasStep == IOInv /\ ReadMetas => IOInv'
<1> SUFFICES ASSUME IOInv, ReadMetas PROVE IOInv'
  OBVIOUS
<1>0. PICK to \in 0 .. now : \E from \in 0 .. to, points \in Points :
        request' = [NoRequest EXCEPT !.pc = "planned", !.from = from, !.points = points,
                      !.metas = Chronological(Metas(from, to))]
  BY DEF ReadMetas
<1>1. PICK from \in 0 .. to, points \in Points :
        request' = [NoRequest EXCEPT !.pc = "planned", !.from = from, !.points = points,
                      !.metas = Chronological(Metas(from, to))]
  BY <1>0
<1>2. PICK ms : ms = Chronological(Metas(from, to))
  OBVIOUS
<1>3. request' = [pc |-> "planned", from |-> from, points |-> points, metas |-> ms,
                  buckets |-> <<>>, pruned |-> FALSE]
  BY <1>1, <1>2 DEF NoRequest
<1>4. /\ request'.pc = "planned" /\ request'.from = from /\ request'.points = points
      /\ metas' = ms /\ buckets' = <<>> /\ request'.pruned = FALSE /\ RequestShape(request')
  BY <1>3 DEF metas, buckets, RequestShape
<1>5. TableInv /\ now \in Nat
  BY TableFacts DEF IOInv
<1>6. to \in Nat /\ from \in Nat /\ from <= now
  BY <1>0, <1>1, <1>5
<1>7. now' = now /\ captures' = captures
  BY DEF ReadMetas
<1>8. /\ Series(ms)
      /\ \A i \in 1 .. Len(ms) : ms[i] \in captures /\ Settled(ms[i].at)
      /\ (\E c \in captures : c.at < from) /\ ms # <<>> => ms[1].at < from
  BY <1>2, <1>5, <1>6, HeadersRead
<1>9. \A i \in 1 .. Len(metas') : Settled(metas[i].at)'
  BY <1>4, <1>7, <1>8 DEF Settled
<1>10. WindowCovered'
  BY <1>4, <1>7, <1>8 DEF WindowCovered
<1>11. RequestInv'
  BY <1>4, <1>6, <1>7, <1>8, <1>9, <1>10 DEF RequestInv
<1>12. ServedInv'
  BY <1>4 DEF ServedInv
<1>13. TableInv'
  <2>1. attempt' \in 0 .. MaxNow \cup {Nil}
    BY <1>5 DEF ReadMetas, TableInv, TypeOK
  <2> QED
    BY <1>4, <1>5, <2>1, SmallerTable DEF ReadMetas
<1> QED
  BY <1>11, <1>12, <1>13 DEF IOInv

LEMMA ServeHistoryStep == IOInv /\ ServeHistory => IOInv'
<1> SUFFICES ASSUME IOInv, ServeHistory PROVE IOInv'
  OBVIOUS
<1>1. PICK plan : plan = PlanBuckets(metas, request.points)
  OBVIOUS
<1>2. PICK bs : bs = [b \in DOMAIN plan |-> AssembleBucket(plan[b], Bodies(plan))]
  OBVIOUS
<1>3. TableInv /\ RequestInv /\ request.pc = "planned"
  BY DEF IOInv, ServeHistory
<1>4. request' = [request EXCEPT !.pc = "served", !.buckets = bs]
  BY <1>1, <1>2 DEF ServeHistory, metas
<1>5. RequestShape(request)
  BY <1>3 DEF RequestInv
<1>6. /\ request'.pc = "served" /\ request'.from = request.from
      /\ request'.points = request.points /\ metas' = metas /\ buckets' = bs
      /\ request'.pruned = request.pruned /\ RequestShape(request')
  BY <1>4, <1>5, ServeRequest
<1>7. /\ Tiles(bs, metas, request.points)
      /\ \A b \in DOMAIN bs : BucketReal(bs[b]) /\ BucketSettled(bs[b])
      /\ ~request.pruned => \A b \in DOMAIN bs : Unbroken(bs[b], metas) => ~bs[b].partial
  BY <1>1, <1>2, <1>3, BucketsServed
<1>8. now' = now /\ captures' = captures /\ truth' = truth
  BY DEF ServeHistory
<1>9. Kept
  BY <1>8, SameIsKept
<1>10. ASSUME NEW b \in DOMAIN buckets'
       PROVE  (BucketReal(buckets[b]) /\ BucketSettled(buckets[b]))'
  <2>1. PICK k : k = bs[b] /\ k = buckets'[b]
    BY <1>6
  <2>2. BucketReal(k) /\ BucketSettled(k)
    BY <1>6, <1>7, <1>10, <2>1
  <2>3. BucketReal(k)' /\ BucketSettled(k)'
    BY <1>9, <2>2, BucketKept
  <2> QED
    BY <2>1, <2>3 DEF BucketReal, BucketSettled, Settled
<1>11. ServedInv'
  BY <1>6, <1>7, <1>10 DEF ServedInv
<1>12. \A i \in 1 .. Len(metas') : Settled(metas[i].at)'
  BY <1>3, <1>6, <1>8 DEF RequestInv, Settled
<1>13. /\ request'.pruned \in BOOLEAN /\ request'.points \in Points /\ Series(metas')
       /\ request'.pc # "planned"
  BY <1>3, <1>6 DEF RequestInv
<1>14. WindowCovered'
  BY <1>13 DEF WindowCovered
<1>15. RequestInv'
  BY <1>6, <1>12, <1>13, <1>14 DEF RequestInv
<1>16. TableInv'
  <2>1. attempt' \in 0 .. MaxNow \cup {Nil}
    BY <1>3 DEF ServeHistory, TableInv, TypeOK
  <2> QED
    BY <1>3, <1>6, <2>1, SmallerTable DEF ServeHistory
<1> QED
  BY <1>11, <1>15, <1>16 DEF IOInv

\* No request is under way.
LEMMA IdleRequest ==
  ASSUME request = NoRequest
  PROVE  RequestInv /\ ServedInv
<1>1. /\ request.pc = "idle" /\ metas = <<>> /\ buckets = <<>> /\ request.pruned = FALSE
      /\ RequestShape(request)
  BY DEF NoRequest, metas, buckets, RequestShape
<1>2. Series(metas)
  BY <1>1 DEF Series
<1>3. 1 .. Len(metas) = {}
  BY <1>1
<1>4. WindowCovered /\ ServedInv
  BY <1>1 DEF WindowCovered, ServedInv
<1> QED
  BY <1>1, <1>2, <1>3, <1>4 DEF RequestInv

LEMMA FinishStep == IOInv /\ Finish => IOInv'
<1> SUFFICES ASSUME IOInv, Finish PROVE IOInv'
  OBVIOUS
<1>1. request' = NoRequest /\ request'.pc = "idle"
  BY DEF Finish, NoRequest
<1>2. RequestInv' /\ ServedInv'
  <2>1. /\ request'.pc = "idle" /\ metas' = <<>> /\ buckets' = <<>> /\ request'.pruned = FALSE
        /\ RequestShape(request')
    BY <1>1 DEF NoRequest, metas, buckets, RequestShape
  <2>2. Series(metas')
    BY <2>1 DEF Series
  <2>3. 1 .. Len(metas') = {}
    BY <2>1
  <2>4. WindowCovered' /\ ServedInv'
    BY <2>1 DEF WindowCovered, ServedInv
  <2> QED
    BY <2>1, <2>2, <2>3, <2>4 DEF RequestInv
<1>3. TableInv'
  <2>1. TableInv /\ attempt' \in 0 .. MaxNow \cup {Nil}
    BY DEF Finish, IOInv, TableInv, TypeOK
  <2> QED
    BY <1>1, <2>1, SmallerTable DEF Finish
<1> QED
  BY <1>2, <1>3 DEF IOInv

LEMMA RetentionStep == IOInv /\ IORetention => IOInv'
<1> SUFFICES ASSUME IOInv, IORetention PROVE IOInv'
  OBVIOUS
<1>1. TableInv /\ RequestInv /\ ServedInv
  BY DEF IOInv
<1>2. /\ request'.pc = request.pc /\ request'.points = request.points
      /\ metas' = metas /\ buckets' = buckets /\ request'.pruned = TRUE
  BY <1>1, RetentionRequest DEF RequestInv, IORetention
<1>3. TableInv'
  <2>1. captures' \subseteq captures
    BY DEF IORetention
  <2>2. request'.pc \in {"idle", "planned", "served"} /\ attempt' \in 0 .. MaxNow \cup {Nil}
    BY <1>1, <1>2 DEF IORetention, TableInv, TypeOK
  <2> QED
    BY <1>1, <2>1, <2>2, SmallerTable DEF IORetention
<1>4. RequestInv'
  BY <1>1, RetentionKeepsRequest
<1>5. ServedInv'
  BY <1>1, <1>2, RetentionKept, ServedKept
<1> QED
  BY <1>3, <1>4, <1>5 DEF IOInv

\* The server and the daemon leave a request alone.
LEMMA RestStep ==
  ASSUME IOInv, TableInv', Kept, now <= now', request' = request,
         captures \subseteq captures', \A c \in captures' : c \in captures \/ c.at = now
  PROVE  IOInv'
<1>1. TableInv /\ RequestInv /\ ServedInv
  BY DEF IOInv
<1>2. now' \in Nat
  BY IOAssumption DEF TableInv, TypeOK
<1>3. RequestInv'
  BY <1>1, <1>2, RequestKept
<1>4. metas' = metas /\ buckets' = buckets
  BY DEF metas, buckets
<1>5. ServedInv'
  BY <1>1, <1>4, ServedKept
<1> QED
  BY <1>3, <1>5 DEF IOInv

LEMMA IOInit == Init => IOInv
BY TableInit, IdleRequest DEF Init, IOInv

LEMMA IOStep == IOInv /\ [Next]_vars => IOInv'
<1> SUFFICES ASSUME IOInv, [Next]_vars PROVE IOInv'
  OBVIOUS
<1>1. TableInv /\ now \in Nat
  BY TableFacts DEF IOInv
<1>2. CASE Work
  <2>1. TableInv' /\ Kept
    BY <1>1, <1>2, WorkTable, WorkKept
  <2> QED
    BY <1>1, <1>2, <2>1, RestStep DEF Work
<1>3. CASE Reset
  <2>1. TableInv' /\ Kept
    BY <1>1, <1>3, ResetTable, SameIsKept DEF Reset
  <2> QED
    BY <1>1, <1>3, <2>1, RestStep DEF Reset
<1>4. CASE Tick
  <2>1. TableInv' /\ Kept
    BY <1>1, <1>4, TickTable, TickKept
  <2>2. now <= now'
    BY <1>1, <1>4 DEF Tick
  <2> QED
    BY <1>4, <2>1, <2>2, RestStep DEF Tick
<1>5. CASE TakeIOSnapshot
  <2>1. TableInv' /\ Kept
    BY <1>1, <1>5, TakeTable, TakeKept
  <2>2. captures \subseteq captures' /\ \A c \in captures' : c \in captures \/ c.at = now
    BY <1>5 DEF TakeIOSnapshot
  <2> QED
    BY <1>1, <1>5, <2>1, <2>2, RestStep DEF TakeIOSnapshot
<1>6. CASE SnapshotFails \/ Restart \/ UNCHANGED vars
  <2>1. UNCHANGED <<now, count, epoch, captures, truth, request>>
    BY <1>6 DEF SnapshotFails, Restart, vars
  <2>2. attempt' \in 0 .. MaxNow \cup {Nil}
    BY <1>1, <1>6 DEF SnapshotFails, Restart, vars, TableInv, TypeOK
  <2>3. request'.pc \in {"idle", "planned", "served"}
    BY <1>1, <2>1 DEF TableInv, TypeOK
  <2>4. TableInv'
    BY <1>1, <2>1, <2>2, <2>3, SmallerTable
  <2>5. Kept
    BY <2>1, SameIsKept
  <2> QED
    BY <1>1, <2>1, <2>4, <2>5, RestStep
<1>7. CASE IORetention
  BY <1>7, RetentionStep
<1>8. CASE ReadMetas
  BY <1>8, ReadMetasStep
<1>9. CASE ServeHistory
  BY <1>9, ServeHistoryStep
<1>10. CASE Finish
  BY <1>10, FinishStep
<1> QED
  BY <1>2, <1>3, <1>4, <1>5, <1>6, <1>7, <1>8, <1>9, <1>10 DEF Next

\* The inductive invariant: the captures of the table are true, a request under
\* way names settled ticks, and a served one says what the server did.
THEOREM IOInvariant == Spec => []IOInv
<1>1. Init => IOInv
  BY IOInit
<1>2. IOInv /\ [Next]_vars => IOInv'
  BY IOStep
<1> QED
  BY <1>1, <1>2, PTL DEF Spec

(***************************************************************************)
(* For every schedule, retention, number of points and length of history:  *)
(* PlanBuckets and Assemble (internal/statio) serve at most the requested  *)
(* buckets, and these tile the time between the first and the last capture *)
(* GetIOSnapshotMetas returned, the one before the window included.        *)
(***************************************************************************)
THEOREM IOBucketsTile == Spec => []BucketsTile
<1>1. IOInv => BucketsTile
  BY DEF IOInv, TableInv, RequestInv, ServedInv, Tiles, BucketsTile
<1> QED
  BY <1>1, IOInvariant, PTL

(***************************************************************************)
(* For every schedule, retention, number of points and length of history:  *)
(* the rows and the duration Assemble (internal/statio) gives a bucket are *)
(* what the server did in exactly the spans it measured, and the bucket is *)
(* partial unless these are all of it, whatever resets and retention did   *)
(* between the captures and between the two reads.                         *)
(***************************************************************************)
THEOREM IOMeasuredIsReal == Spec => []MeasuredIsReal
<1>1. ASSUME IOInv
      PROVE  MeasuredIsReal
  <2>1. ASSUME NEW b \in DOMAIN buckets
        PROVE  BucketReal(buckets[b])
    <3>1. CASE request.pc = "served"
      BY <1>1, <3>1 DEF IOInv, ServedInv
    <3>2. CASE request.pc # "served"
      <4>1. buckets = <<>>
        BY <1>1, <3>2 DEF IOInv, RequestInv
      <4>2. DOMAIN buckets = {}
        BY <4>1
      <4> QED
        BY <4>2
    <3> QED
      BY <3>1, <3>2
  <2> QED
    BY <2>1 DEF MeasuredIsReal, BucketReal
<1> QED
  BY <1>1, IOInvariant, PTL

(***************************************************************************)
(* For every schedule, retention, number of points and length of history:  *)
(* a bucket all of whose captures are of one epoch is complete, unless     *)
(* maybeRunIORetention dropped a partition between the two reads of        *)
(* GetIOHistory.                                                           *)
(***************************************************************************)
THEOREM IOCompleteWhenUnbroken == Spec => []CompleteWhenUnbroken
<1>1. IOInv => CompleteWhenUnbroken
  BY DEF IOInv, ServedInv, CompleteWhenUnbroken, Unbroken
<1> QED
  BY <1>1, IOInvariant, PTL
=============================================================================
