-------------------------- MODULE HotObjectsProofs --------------------------
(***************************************************************************)
(* Proofs about HotObjects, for every set of hosts, tables and indexes,    *)
(* every schedule and retention and any number of captures, resets,        *)
(* switchovers and relations created.                                      *)
(***************************************************************************)
EXTENDS HotObjects, SequenceTheorems, FiniteSetTheorems, TLAPS

-----------------------------------------------------------------------------
(* Types. *)

\* The functions from a part of S into T.
PartialFcn(S, T) == UNION {[D -> T] : D \in SUBSET S}

LEMMA PartialElim ==
  ASSUME NEW S, NEW T, NEW f \in PartialFcn(S, T)
  PROVE  DOMAIN f \subseteq S /\ f \in [DOMAIN f -> T] /\ (\A x \in DOMAIN f : f[x] \in T)
<1>1. PICK D \in SUBSET S : f \in [D -> T]
  BY DEF PartialFcn
<1> QED
  BY <1>1

LEMMA PartialIntro ==
  ASSUME NEW S, NEW T, NEW D \in SUBSET S, NEW f \in [D -> T]
  PROVE  f \in PartialFcn(S, T)
BY DEF PartialFcn

LEMMA EmptyIsPartial ==
  ASSUME NEW S, NEW T
  PROVE  Empty \in PartialFcn(S, T) /\ DOMAIN Empty = {}
<1>1. Empty \in [{} -> T] /\ DOMAIN Empty = {}
  BY DEF Empty
<1> QED
  BY <1>1, PartialIntro

\* A function without arguments is the empty one.
LEMMA NoDomain ==
  ASSUME NEW S, NEW T, NEW f \in PartialFcn(S, T), DOMAIN f = {}
  PROVE  f = Empty
<1>1. f \in [{} -> T]
  BY PartialElim
<1> QED
  BY <1>1 DEF Empty

Times == Nat \cup {Nil}

SampleRows == [sig : Nat \ {0}, count : Nat, reset : Nat,
               mine : Nat, all : [Hosts -> Nat], term : Nat]

SampleSets == PartialFcn(Objects, SampleRows)

Samples == [rows : SampleSets, reset : Nat, standby : BOOLEAN]

WindowRecords == [from : Nat, to : Nat, complete : BOOLEAN, reset : Nat, standby : BOOLEAN,
                  observed : Times]

Snapshots == [at : Nat,
              windows : PartialFcn(Hosts, WindowRecords),
              rows : PartialFcn(Hosts, Samples),
              deltas : PartialFcn(Hosts, PartialFcn(Objects, Nat))]

AnchorRows == [sig : Nat, count : Nat, reset : Nat, at : Nat, quiet : Times]

Sweeps == [at : Times, todo : SUBSET Hosts,
           half : PartialFcn(Hosts, Samples), got : PartialFcn(Hosts, Samples)]

ServerTypes ==
  /\ primary \in Hosts
  /\ oid \in [Objects -> Nat]
  /\ epoch \in [Hosts -> Nat]
  /\ count \in [Hosts -> [Objects -> Nat]] /\ did \in [Hosts -> [Objects -> Nat]]
  /\ ddl \in Nat /\ switches \in Nat /\ torn \in BOOLEAN

SweepTypes ==
  /\ sweep \in Sweeps
  /\ \E h \in Hosts : DOMAIN sweep.half \subseteq {h}

StoreTypes ==
  /\ anchors \in [Hosts -> PartialFcn(Objects, AnchorRows)]
  /\ snaps \in Seq(Snapshots)
  /\ dropped \in Nat /\ dropped <= Len(snaps)

HotTypes ==
  /\ now \in Nat /\ attempt \in Times
  /\ ServerTypes /\ SweepTypes /\ StoreTypes

\* The shape TLC checks is the one proved.
LEMMA HotTypesTypeOK == HotTypes => TypeOK
<1> SUFFICES ASSUME HotTypes PROVE TypeOK
  OBVIOUS
<1>1. /\ now \in Nat /\ attempt \in Nat \cup {Nil} /\ primary \in Hosts
      /\ oid \in [Objects -> Nat] /\ epoch \in [Hosts -> Nat]
      /\ {count, did} \subseteq [Hosts -> [Objects -> Nat]]
  BY DEF HotTypes, ServerTypes, Times
<1>2. dropped \in 0 .. Len(snaps)
  BY LenProperties DEF HotTypes, StoreTypes
<1>3. sweep \in Sweeps
  BY DEF HotTypes, SweepTypes
<1>4. sweep.at \in Nat \cup {Nil} /\ sweep.todo \subseteq Hosts
      /\ sweep.half \in PartialFcn(Hosts, Samples) /\ sweep.got \in PartialFcn(Hosts, Samples)
  BY <1>3 DEF Sweeps, Times
<1>5. sweep.todo \cup DOMAIN sweep.half \cup Sampled \subseteq Hosts
  BY <1>4, PartialElim DEF Sampled
<1>6. Cardinality(DOMAIN sweep.half) <= 1
  <2>1. PICK h \in Hosts : DOMAIN sweep.half \subseteq {h}
    BY DEF HotTypes, SweepTypes
  <2>2. IsFiniteSet({h}) /\ Cardinality({h}) = 1
    BY FS_Singleton
  <2> QED
    BY <2>1, <2>2, FS_Subset
<1>7. /\ DOMAIN anchors = Hosts
      /\ \A h \in Hosts : anchors[h] \in PartialFcn(Objects, AnchorRows)
  BY DEF HotTypes, StoreTypes
<1>8. \A h \in Hosts : \A o \in DOMAIN anchors[h] : o \in Objects /\ anchors[h][o] \in AnchorRows
  BY <1>7, PartialElim
<1>9. \A h \in Hosts : \A o \in DOMAIN anchors[h] :
        /\ o \in Objects
        /\ anchors[h][o] \in [sig : Nat, count : Nat, reset : Nat, at : Nat, quiet : Nat \cup {Nil}]
  BY <1>8 DEF AnchorRows, Times
<1> QED
  BY <1>1, <1>2, <1>4, <1>5, <1>6, <1>7, <1>9 DEF TypeOK

LEMMA InitTypes == Init => HotTypes
<1> SUFFICES ASSUME Init PROVE HotTypes
  OBVIOUS
<1>1. ServerTypes
  BY DEF Init, ServerTypes
<1>2. SweepTypes
  <2>1. NoSweep \in Sweeps
    BY EmptyIsPartial DEF NoSweep, Sweeps, Times
  <2>2. DOMAIN NoSweep.half = {}
    BY EmptyIsPartial DEF NoSweep
  <2> QED
    BY <2>1, <2>2, HotConfigOK DEF Init, SweepTypes
<1>3. StoreTypes
  <2>1. anchors \in [Hosts -> PartialFcn(Objects, AnchorRows)]
    BY EmptyIsPartial DEF Init
  <2>2. <<>> \in Seq(Snapshots) /\ Len(<<>>) = 0
    BY EmptySeq
  <2> QED
    BY <2>1, <2>2 DEF Init, StoreTypes
<1> QED
  BY <1>1, <1>2, <1>3 DEF Init, HotTypes, Times

-----------------------------------------------------------------------------
(* What the steps of the servers and of the sweep look like. *)

\* A step of a server.
ServerStep ==
  \/ \E h \in Hosts, o \in Objects : Activity(h, o)
  \/ \E h \in Hosts : ResetStats(h) \/ Switchover(h)
  \/ \E o \in Objects : DropRelation(o)
  \/ \E o \in Objects, n \in AttachedCounts : ReplaceRelation(o, n)

LEMMA ServerStepTypes ==
  ASSUME ServerTypes, ServerStep
  PROVE  ServerTypes' /\ UNCHANGED <<now, sweep, attempt, store>>
<1>1. CASE \E h \in Hosts, o \in Objects : Activity(h, o)
  <2>1. PICK h \in Hosts, o \in Objects : Activity(h, o)
    BY <1>1
  <2>2. /\ count' = [count EXCEPT ![h][o] = @ + 1] /\ did' = [did EXCEPT ![h][o] = @ + 1]
        /\ UNCHANGED <<now, primary, oid, epoch, ddl, switches, torn, sweep, attempt, store>>
    BY <2>1 DEF Activity
  <2>3. count' \in [Hosts -> [Objects -> Nat]] /\ did' \in [Hosts -> [Objects -> Nat]]
    BY <2>2 DEF ServerTypes
  <2> QED
    BY <2>2, <2>3 DEF ServerTypes
<1>2. CASE \E h \in Hosts : ResetStats(h)
  BY <1>2 DEF ServerTypes, ResetStats
<1>3. CASE \E h \in Hosts : Switchover(h)
  BY <1>3 DEF ServerTypes, Switchover
<1>4. CASE \E o \in Objects : DropRelation(o)
  BY <1>4 DEF ServerTypes, DropRelation
<1>5. CASE \E o \in Objects, n \in AttachedCounts : ReplaceRelation(o, n)
  <2>1. PICK o \in Objects, n \in AttachedCounts : ReplaceRelation(o, n)
    BY <1>5
  <2>2. n \in Nat /\ ddl + 1 \in Nat
    BY HotConfigOK DEF ServerTypes
  <2>3. /\ UNCHANGED <<now, primary, epoch, did, switches, sweep, attempt, store>>
        /\ ddl' = ddl + 1 /\ torn' \in BOOLEAN
    BY <2>1 DEF ReplaceRelation
  <2>4. oid' \in [Objects -> Nat]
    BY <2>1, <2>2 DEF ReplaceRelation, ServerTypes
  <2>5. count' \in [Hosts -> [Objects -> Nat]]
    BY <2>1, <2>2 DEF ReplaceRelation, ServerTypes
  <2> QED
    BY <2>2, <2>3, <2>4, <2>5 DEF ServerTypes
<1> QED
  BY <1>1, <1>2, <1>3, <1>4, <1>5 DEF ServerStep

\* What one query reads.
LEMMA RowsType ==
  ASSUME ServerTypes, NEW h \in Hosts, NEW objects \in SUBSET Objects
  PROVE  /\ Rows(h, objects) \in SampleSets
         /\ DOMAIN Rows(h, objects) = {p \in objects : oid[p] # 0}
         /\ \A o \in DOMAIN Rows(h, objects) :
              Rows(h, objects)[o] = [sig |-> oid[o], count |-> count[h][o], reset |-> epoch[h],
                                     mine |-> did[h][o], all |-> [g \in Hosts |-> did[g][o]],
                                     term |-> switches]
<1> DEFINE D == {p \in objects : oid[p] # 0}
           row(o) == [sig |-> oid[o], count |-> count[h][o], reset |-> epoch[h],
                      mine |-> did[h][o], all |-> [g \in Hosts |-> did[g][o]],
                      term |-> switches]
<1>1. Rows(h, objects) = [o \in D |-> row(o)]
  BY DEF Rows
<1>2. ASSUME NEW o \in D PROVE row(o) \in SampleRows
  <2>1. o \in Objects /\ oid[o] \in Nat \ {0} /\ [g \in Hosts |-> did[g][o]] \in [Hosts -> Nat]
    BY DEF ServerTypes
  <2> QED
    BY <2>1 DEF SampleRows, ServerTypes
<1>3. D \in SUBSET Objects
  OBVIOUS
<1>4. [o \in D |-> row(o)] \in [D -> SampleRows]
  BY <1>2
<1>5. [o \in D |-> row(o)] \in SampleSets
  BY <1>3, <1>4, PartialIntro DEF SampleSets
<1> QED
  BY <1>1, <1>5

\* The fields of the sweep.
LEMMA SweepFields ==
  ASSUME SweepTypes
  PROVE  /\ sweep \in Sweeps /\ sweep.at \in Times /\ sweep.todo \in SUBSET Hosts
         /\ sweep.half \in PartialFcn(Hosts, Samples) /\ sweep.got \in PartialFcn(Hosts, Samples)
         /\ Sampled \subseteq Hosts /\ DOMAIN sweep.half \subseteq Hosts
         /\ \A h \in DOMAIN sweep.half : sweep.half[h] \in Samples
         /\ \A h \in Sampled : sweep.got[h] \in Samples
<1>1. sweep \in Sweeps
  BY DEF SweepTypes
<1>2. /\ sweep.at \in Times /\ sweep.todo \in SUBSET Hosts
      /\ sweep.half \in PartialFcn(Hosts, Samples) /\ sweep.got \in PartialFcn(Hosts, Samples)
  BY <1>1 DEF Sweeps
<1> QED
  BY <1>1, <1>2, PartialElim DEF Sampled

LEMMA NoSweepTypes ==
  ASSUME sweep' = NoSweep
  PROVE  SweepTypes' /\ sweep'.half = Empty /\ sweep'.got = Empty /\ sweep'.at = Nil
<1>1. NoSweep \in Sweeps
  BY EmptyIsPartial DEF NoSweep, Sweeps, Times
<1>2. DOMAIN NoSweep.half = {}
  BY EmptyIsPartial DEF NoSweep
<1> QED
  BY <1>1, <1>2, HotConfigOK DEF SweepTypes, NoSweep

LEMMA BeginShape ==
  ASSUME HotTypes, Begin
  PROVE  /\ SweepTypes' /\ attempt' \in Times /\ UNCHANGED <<now, servers, store>>
         /\ sweep.at = Nil /\ DueForCapture
         /\ sweep'.at = now /\ sweep'.half = Empty /\ sweep'.got = Empty
<1>1. sweep' = [at |-> now, todo |-> Hosts, half |-> Empty, got |-> Empty]
  BY DEF Begin, NoSweep
<1>2. sweep' \in Sweeps
  BY <1>1, EmptyIsPartial DEF HotTypes, Sweeps, Times
<1>3. DOMAIN sweep'.half = {}
  BY <1>1, EmptyIsPartial
<1>4. SweepTypes'
  BY <1>2, <1>3, HotConfigOK DEF SweepTypes
<1>5. /\ attempt' = now /\ UNCHANGED <<now, servers, store>>
      /\ sweep.at = Nil /\ DueForCapture
  BY DEF Begin
<1>6. attempt' \in Times
  BY <1>5 DEF HotTypes, Times
<1> QED
  BY <1>1, <1>4, <1>5, <1>6

\* What the query of the tables brings.
TablesSample(h) ==
  [rows    |-> Rows(h, Tables),
   reset   |-> IF Rows(h, Tables) = Empty THEN 0 ELSE epoch[h],
   standby |-> Rows(h, Tables) # Empty /\ h # primary]

LEMMA TablesShape ==
  ASSUME HotTypes, NEW h \in Hosts, SampleTables(h)
  PROVE  /\ SweepTypes' /\ UNCHANGED <<now, servers, attempt, store>>
         /\ TablesSample(h) \in Samples
         /\ sweep'.at = sweep.at /\ sweep'.got = sweep.got
         /\ sweep'.half = [g \in {h} |-> TablesSample(h)]
<1> DEFINE s == TablesSample(h)
           half == [g \in {h} |-> s]
           todo == sweep.todo \ {h}
<1>1. s \in Samples
  <2>1. Rows(h, Tables) \in SampleSets /\ epoch[h] \in Nat
    BY RowsType DEF HotTypes, ServerTypes, Objects
  <2> QED
    BY <2>1 DEF TablesSample, Samples
<1>2. sweep' = [sweep EXCEPT !.todo = todo, !.half = half] /\ UNCHANGED <<now, servers, attempt, store>>
  BY DEF SampleTables, TablesSample
<1> HIDE DEF s
<1>3. half \in PartialFcn(Hosts, Samples) /\ DOMAIN half = {h}
  BY <1>1, PartialIntro
<1>4. sweep \in Sweeps /\ todo \in SUBSET Hosts
  BY SweepFields DEF HotTypes
<1> HIDE DEF half, todo
<1>5. /\ sweep' \in Sweeps /\ sweep'.at = sweep.at /\ sweep'.got = sweep.got
      /\ sweep'.half = half
  BY <1>2, <1>3, <1>4 DEF Sweeps
<1> QED
  BY <1>1, <1>2, <1>3, <1>5 DEF SweepTypes, half, s

\* What the query of the indexes adds.
IndexesSample(h) ==
  [sweep.half[h] EXCEPT
     !.rows = [o \in DOMAIN sweep.half[h].rows \cup DOMAIN Rows(h, Indexes) |->
                 IF o \in DOMAIN sweep.half[h].rows THEN sweep.half[h].rows[o]
                                                    ELSE Rows(h, Indexes)[o]]]

LEMMA IndexesShape ==
  ASSUME HotTypes, NEW h \in Hosts, SampleIndexes(h)
  PROVE  /\ SweepTypes' /\ UNCHANGED <<now, servers, attempt, store>>
         /\ h \in DOMAIN sweep.half /\ sweep.half[h] \in Samples /\ IndexesSample(h) \in Samples
         /\ IndexesSample(h).reset = sweep.half[h].reset
         /\ IndexesSample(h).standby = sweep.half[h].standby
         /\ IndexesSample(h).rows =
              [o \in DOMAIN sweep.half[h].rows \cup DOMAIN Rows(h, Indexes) |->
                 IF o \in DOMAIN sweep.half[h].rows THEN sweep.half[h].rows[o]
                                                    ELSE Rows(h, Indexes)[o]]
         /\ sweep'.at = sweep.at /\ sweep'.half = Empty
         /\ DOMAIN sweep'.got = Sampled \cup {h} /\ sweep'.got[h] = IndexesSample(h)
         /\ \A g \in Sampled \ {h} : sweep'.got[g] = sweep.got[g]
<1> DEFINE half == sweep.half[h]
           indexes == Rows(h, Indexes)
           rows == [o \in DOMAIN half.rows \cup DOMAIN indexes |->
                      IF o \in DOMAIN half.rows THEN half.rows[o] ELSE indexes[o]]
           s == [half EXCEPT !.rows = rows]
           got == [g \in DOMAIN sweep.got \cup {h} |-> IF g = h THEN s ELSE sweep.got[g]]
<1>1. sweep \in Sweeps /\ h \in DOMAIN sweep.half /\ half \in Samples
  BY SweepFields DEF HotTypes, SampleIndexes
<1>2. sweep' = [sweep EXCEPT !.half = Empty, !.got = got] /\ UNCHANGED <<now, servers, attempt, store>>
  BY <1>1 DEF SampleIndexes, Sweeps
<1>3. s = IndexesSample(h)
  BY DEF IndexesSample
<1>4. rows \in SampleSets
  <2>1. indexes \in SampleSets /\ half.rows \in SampleSets
    BY <1>1, RowsType DEF HotTypes, Objects, Samples
  <2>2. /\ DOMAIN indexes \subseteq Objects /\ DOMAIN half.rows \subseteq Objects
        /\ \A o \in DOMAIN indexes : indexes[o] \in SampleRows
        /\ \A o \in DOMAIN half.rows : half.rows[o] \in SampleRows
    BY <2>1, PartialElim DEF SampleSets
  <2> HIDE DEF indexes, half
  <2>3. rows \in [DOMAIN half.rows \cup DOMAIN indexes -> SampleRows]
    BY <2>2
  <2> QED
    BY <2>2, <2>3, PartialIntro DEF SampleSets
<1> HIDE DEF rows, half
<1>5. s \in Samples /\ s.reset = half.reset /\ s.standby = half.standby /\ s.rows = rows
  BY <1>1, <1>4 DEF Samples
<1> HIDE DEF s
<1>6. got \in PartialFcn(Hosts, Samples) /\ DOMAIN got = Sampled \cup {h} /\ got[h] = s
      /\ \A g \in Sampled \ {h} : got[g] = sweep.got[g]
  <2>1. Sampled \subseteq Hosts /\ \A g \in Sampled : sweep.got[g] \in Samples
    BY SweepFields DEF HotTypes
  <2>2. got \in [Sampled \cup {h} -> Samples]
    BY <1>5, <2>1 DEF Sampled
  <2> QED
    BY <2>1, <2>2, PartialIntro DEF Sampled
<1> HIDE DEF got
<1>7. /\ sweep' \in Sweeps /\ sweep'.at = sweep.at /\ sweep'.got = got
      /\ sweep'.half = Empty
  BY <1>1, <1>2, <1>6, EmptyIsPartial DEF Sweeps
<1>8. SweepTypes'
  BY <1>7, EmptyIsPartial, HotConfigOK DEF SweepTypes
<1> QED
  BY <1>1, <1>2, <1>3, <1>5, <1>6, <1>7, <1>8 DEF half, rows, indexes

LEMMA MissShape ==
  ASSUME HotTypes, NEW h \in Hosts, MissHost(h)
  PROVE  /\ SweepTypes' /\ UNCHANGED <<now, servers, attempt, store>>
         /\ sweep'.at = sweep.at /\ sweep'.half = Empty /\ sweep'.got = sweep.got
<1> DEFINE todo == sweep.todo \ {h}
<1>1. sweep \in Sweeps /\ todo \in SUBSET Hosts
  BY SweepFields DEF HotTypes
<1>2. sweep' = [sweep EXCEPT !.todo = todo, !.half = Empty] /\ UNCHANGED <<now, servers, attempt, store>>
  BY DEF MissHost
<1> HIDE DEF todo
<1>3. /\ sweep' \in Sweeps /\ sweep'.at = sweep.at /\ sweep'.got = sweep.got
      /\ sweep'.half = Empty
  BY <1>1, <1>2, EmptyIsPartial DEF Sweeps
<1> QED
  BY <1>2, <1>3, EmptyIsPartial, HotConfigOK DEF SweepTypes

-----------------------------------------------------------------------------
(* What a capture stores. *)

\* The fields of a stored snapshot.
LEMMA SnapFields ==
  ASSUME StoreTypes, NEW i \in 1 .. Len(snaps)
  PROVE  /\ snaps[i].at \in Nat
         /\ DOMAIN snaps[i].windows \subseteq Hosts /\ DOMAIN snaps[i].rows \subseteq Hosts
         /\ \A h \in DOMAIN snaps[i].windows : snaps[i].windows[h] \in WindowRecords
         /\ \A h \in DOMAIN snaps[i].rows :
              /\ snaps[i].rows[h] \in Samples
              /\ snaps[i].rows[h].rows \in SampleSets
              /\ DOMAIN snaps[i].rows[h].rows \subseteq Objects
              /\ \A o \in DOMAIN snaps[i].rows[h].rows : snaps[i].rows[h].rows[o] \in SampleRows
<1>1. snaps[i] \in Snapshots
  BY ElementOfSeq DEF StoreTypes
<1>2. /\ snaps[i].at \in Nat
      /\ snaps[i].windows \in PartialFcn(Hosts, WindowRecords)
      /\ snaps[i].rows \in PartialFcn(Hosts, Samples)
  BY <1>1 DEF Snapshots
<1>3. /\ DOMAIN snaps[i].windows \subseteq Hosts /\ DOMAIN snaps[i].rows \subseteq Hosts
      /\ \A h \in DOMAIN snaps[i].windows : snaps[i].windows[h] \in WindowRecords
      /\ \A h \in DOMAIN snaps[i].rows : snaps[i].rows[h] \in Samples
  BY <1>2, PartialElim
<1>4. \A h \in DOMAIN snaps[i].rows : snaps[i].rows[h].rows \in SampleSets
  BY <1>3 DEF Samples
<1> QED
  BY <1>2, <1>3, <1>4, PartialElim DEF SampleSets

LEMMA AnchorFields ==
  ASSUME StoreTypes, NEW h \in Hosts
  PROVE  /\ anchors[h] \in PartialFcn(Objects, AnchorRows) /\ DOMAIN anchors[h] \subseteq Objects
         /\ \A o \in DOMAIN anchors[h] : anchors[h][o] \in AnchorRows
BY PartialElim DEF StoreTypes

\* The sample of h, and the anchor it is compared with.
LEMMA GotFields ==
  ASSUME SweepTypes, NEW h \in Sampled
  PROVE  /\ sweep.got[h] \in Samples /\ h \in Hosts
         /\ sweep.got[h].reset \in Nat /\ sweep.got[h].standby \in BOOLEAN
         /\ sweep.got[h].rows \in SampleSets /\ DOMAIN sweep.got[h].rows \subseteq Objects
         /\ \A o \in DOMAIN sweep.got[h].rows : sweep.got[h].rows[o] \in SampleRows
<1>1. sweep.got[h] \in Samples /\ h \in Hosts
  BY SweepFields
<1>2. sweep.got[h].rows \in SampleSets /\ sweep.got[h].reset \in Nat /\ sweep.got[h].standby \in BOOLEAN
  BY <1>1 DEF Samples
<1> QED
  BY <1>1, <1>2, PartialElim DEF SampleSets

LEMMA WindowsType ==
  ASSUME HotTypes, sweep.at # Nil, NEW h \in Sampled, NEW w \in Windows(h)
  PROVE  /\ w \in WindowRecords
         /\ w.from \in From(h) /\ w.to = sweep.at /\ w.complete \in EpochIntact(h)
         /\ w.reset = sweep.got[h].reset /\ w.standby = sweep.got[h].standby
         /\ w.observed \in ObservedSince(h, w.complete)
<1>1. PICK complete \in EpochIntact(h) :
        w \in [from : From(h), to : {sweep.at}, complete : {complete},
               reset : {sweep.got[h].reset}, standby : {sweep.got[h].standby},
               observed : ObservedSince(h, complete)]
  BY DEF Windows
<1>2. /\ w.from \in From(h) /\ w.to = sweep.at /\ w.complete = complete
      /\ w.reset = sweep.got[h].reset /\ w.standby = sweep.got[h].standby
      /\ w.observed \in ObservedSince(h, complete)
      /\ w = [from |-> w.from, to |-> w.to, complete |-> w.complete, reset |-> w.reset,
              standby |-> w.standby, observed |-> w.observed]
  BY <1>1
<1>3. sweep.at \in Nat /\ h \in Hosts /\ StoreTypes
  BY SweepFields DEF HotTypes, Times
<1>4. w.from \in Nat
  BY <1>2, <1>3, AnchorFields DEF From, FirstAnchors, AnchorRows
<1>5. complete \in BOOLEAN
  BY <1>1 DEF EpochIntact
<1>6. w.observed \in Times
  <2>1. ASSUME NEW v \in PrevWindow(h) PROVE v.observed \in Times
    <3>1. PICK i \in Kept : h \in DOMAIN snaps[i].windows /\ v = snaps[i].windows[h]
      BY DEF PrevWindow
    <3>2. i \in 1 .. Len(snaps)
      BY <1>3, LenProperties DEF Kept, StoreTypes
    <3>3. v \in WindowRecords
      BY <1>3, <3>1, <3>2, SnapFields
    <3> QED
      BY <3>3 DEF WindowRecords
  <2> QED
    BY <1>2, <1>3, <2>1 DEF ObservedSince, Times
<1>7. w.reset \in Nat /\ w.standby \in BOOLEAN
  BY <1>2, GotFields DEF HotTypes
<1> QED
  BY <1>1, <1>2, <1>3, <1>4, <1>5, <1>6, <1>7 DEF WindowRecords

LEMMA DeltasType ==
  ASSUME HotTypes, NEW h \in Sampled, NEW complete \in BOOLEAN
  PROVE  Deltas(h, complete) \in PartialFcn(Objects, Nat)
<1> DEFINE D == {p \in DOMAIN sweep.got[h].rows : complete /\ Comparable(h, p)}
<1>1. D \in SUBSET Objects
  BY GotFields DEF HotTypes
<1>2. ASSUME NEW o \in D PROVE Delta(h, o) \in Nat
  <2>1. /\ o \in DOMAIN anchors[h] /\ sweep.got[h].rows[o].count >= anchors[h][o].count
        /\ o \in DOMAIN sweep.got[h].rows
    BY DEF Comparable
  <2>2. sweep.got[h].rows[o] \in SampleRows /\ anchors[h][o] \in AnchorRows
    BY <2>1, GotFields, AnchorFields DEF HotTypes
  <2>3. sweep.got[h].rows[o].count \in Nat /\ anchors[h][o].count \in Nat
    BY <2>2 DEF SampleRows, AnchorRows
  <2> QED
    BY <2>1, <2>3 DEF Delta
<1>3. Deltas(h, complete) = [o \in D |-> Delta(h, o)]
  BY DEF Deltas
<1> HIDE DEF D
<1>4. Deltas(h, complete) \in [D -> Nat]
  BY <1>2, <1>3
<1> QED
  BY <1>1, <1>4, PartialIntro

\* The anchors a sample leaves.
LEMMA AdvanceQuietFields ==
  ASSUME HotTypes, sweep.at # Nil, NEW h \in Sampled, NEW intact \in BOOLEAN
  PROVE  LET rows == sweep.got[h].rows
             next == AdvanceQuiet(h, intact)
         IN /\ DOMAIN next = DOMAIN rows
            /\ \A o \in DOMAIN rows :
                 /\ next[o] \in AnchorRows
                 /\ next[o].sig = rows[o].sig /\ next[o].count = rows[o].count
                 /\ next[o].reset = rows[o].reset /\ next[o].at = sweep.at
                 /\ next[o].quiet = IF o \in Tables /\ ~sweep.got[h].standby
                                    THEN QuietSince(h, o, intact) ELSE Nil
<1> DEFINE rows == sweep.got[h].rows
           next == AdvanceQuiet(h, intact)
           quiet(o) == IF o \in Tables /\ ~sweep.got[h].standby
                       THEN QuietSince(h, o, intact) ELSE Nil
<1>1. sweep.at \in Nat /\ h \in Hosts /\ StoreTypes
  BY SweepFields DEF HotTypes, Times
<1>2. next = [o \in DOMAIN rows |->
                [sig |-> rows[o].sig, count |-> rows[o].count, reset |-> rows[o].reset,
                 at |-> sweep.at, quiet |-> quiet(o)]]
  BY DEF AdvanceQuiet
<1>3. ASSUME NEW o \in DOMAIN rows PROVE quiet(o) \in Times
  <2>1. o \in DOMAIN anchors[h] => anchors[h][o].quiet \in Times
    BY <1>1, AnchorFields DEF AnchorRows
  <2> QED
    BY <1>1, <2>1 DEF QuietSince, Times
<1>4. \A o \in DOMAIN rows : rows[o] \in SampleRows
  BY GotFields DEF HotTypes
<1>5. \A o \in DOMAIN rows : rows[o].sig \in Nat /\ rows[o].count \in Nat /\ rows[o].reset \in Nat
  BY <1>4 DEF SampleRows
<1> HIDE DEF next, quiet, rows
<1>6. DOMAIN next = DOMAIN rows
  BY <1>2
<1>7. ASSUME NEW o \in DOMAIN rows
      PROVE  /\ next[o] \in AnchorRows
             /\ next[o].sig = rows[o].sig /\ next[o].count = rows[o].count
             /\ next[o].reset = rows[o].reset /\ next[o].at = sweep.at
             /\ next[o].quiet = quiet(o)
  BY <1>1, <1>2, <1>3, <1>5 DEF AnchorRows
<1> QED
  BY <1>6, <1>7 DEF next, quiet, rows

\* The snapshot stored with the windows chosen.
NewSnap(windows) ==
  [at |-> sweep.at, windows |-> windows, rows |-> sweep.got,
   deltas |-> [h \in Sampled |-> Deltas(h, windows[h].complete)]]

\* The transaction of a capture with the choices made.
Stores(windows, intact) ==
  /\ windows \in [Sampled -> WindowRecords] /\ intact \in [Sampled -> BOOLEAN]
  /\ \A h \in Sampled : windows[h] \in Windows(h) /\ intact[h] \in EpochIntact(h)
  /\ NewSnap(windows) \in Snapshots
  /\ snaps' \in Seq(Snapshots) /\ Len(snaps) \in Nat /\ Len(snaps') = Len(snaps) + 1
  /\ \A i \in 1 .. Len(snaps) : snaps'[i] = snaps[i]
  /\ snaps'[Len(snaps) + 1] = NewSnap(windows)
  /\ anchors' = [h \in Hosts |->
       IF h \in Sampled THEN UpsertHotAnchors(anchors[h], AdvanceQuiet(h, intact[h]))
                        ELSE anchors[h]]

LEMMA StoreShape ==
  ASSUME HotTypes, Store
  PROVE  /\ sweep.at # Nil /\ sweep.at \in Nat /\ sweep.half = Empty
         /\ sweep' = NoSweep /\ UNCHANGED <<now, servers, attempt, dropped>>
         /\ \E windows, intact : Stores(windows, intact)
<1>1. /\ sweep.at # Nil /\ sweep.half = Empty
      /\ sweep' = NoSweep /\ UNCHANGED <<now, servers, attempt, dropped>>
  BY DEF Store
<1>2. sweep.at \in Nat
  BY <1>1, SweepFields DEF HotTypes, Times
<1>3. PICK windows \in AnyOf(Windows), intact \in AnyOf(EpochIntact) :
        InsertHotSnapshotWithAnchors(
          NewSnap(windows), [h \in Sampled |-> AdvanceQuiet(h, intact[h])])
  BY DEF Store, NewSnap
<1>4. /\ windows \in [Sampled -> UNION {Windows(h) : h \in Sampled}]
      /\ \A h \in Sampled : windows[h] \in Windows(h)
  BY DEF AnyOf
<1>5. /\ intact \in [Sampled -> UNION {EpochIntact(h) : h \in Sampled}]
      /\ \A h \in Sampled : intact[h] \in EpochIntact(h)
  BY DEF AnyOf
<1>6. windows \in [Sampled -> WindowRecords]
  BY <1>1, <1>4, WindowsType
<1>7. intact \in [Sampled -> BOOLEAN]
  <2>1. \A h \in Sampled : intact[h] \in BOOLEAN
    BY <1>5 DEF EpochIntact
  <2> QED
    BY <1>5, <2>1
<1>8. NewSnap(windows) \in Snapshots
  <2> DEFINE deltas == [h \in Sampled |-> Deltas(h, windows[h].complete)]
  <2>1. \A h \in Sampled : windows[h].complete \in BOOLEAN
    BY <1>6 DEF WindowRecords
  <2>2. deltas \in [Sampled -> PartialFcn(Objects, Nat)]
    BY <2>1, DeltasType
  <2>3. Sampled \in SUBSET Hosts /\ sweep.got \in PartialFcn(Hosts, Samples)
    BY SweepFields DEF HotTypes
  <2>4. /\ deltas \in PartialFcn(Hosts, PartialFcn(Objects, Nat))
        /\ windows \in PartialFcn(Hosts, WindowRecords)
    BY <1>6, <2>2, <2>3, PartialIntro
  <2> HIDE DEF deltas
  <2>5. NewSnap(windows) = [at |-> sweep.at, windows |-> windows, rows |-> sweep.got, deltas |-> deltas]
    BY DEF NewSnap, deltas
  <2> QED
    BY <1>2, <2>3, <2>4, <2>5 DEF Snapshots
<1>9. snaps' = Append(snaps, NewSnap(windows)) /\ snaps \in Seq(Snapshots)
  BY <1>3 DEF InsertHotSnapshotWithAnchors, HotTypes, StoreTypes
<1>10. /\ snaps' \in Seq(Snapshots) /\ Len(snaps) \in Nat /\ Len(snaps') = Len(snaps) + 1
       /\ \A i \in 1 .. Len(snaps) : snaps'[i] = snaps[i]
       /\ snaps'[Len(snaps) + 1] = NewSnap(windows)
  BY <1>8, <1>9, AppendProperties, LenProperties
<1>11. anchors' = [h \in Hosts |->
         IF h \in Sampled THEN UpsertHotAnchors(anchors[h], AdvanceQuiet(h, intact[h]))
                          ELSE anchors[h]]
  BY <1>3 DEF InsertHotSnapshotWithAnchors
<1>12. Stores(windows, intact)
  BY <1>4, <1>5, <1>6, <1>7, <1>8, <1>10, <1>11 DEF Stores
<1> QED
  BY <1>1, <1>2, <1>12

LEMMA StoreStepTypes ==
  ASSUME HotTypes, Store
  PROVE  StoreTypes'
<1>1. PICK windows, intact : Stores(windows, intact)
  BY StoreShape
<1>2. sweep.at # Nil /\ dropped' = dropped
  BY StoreShape
<1>3. ASSUME NEW h \in Hosts PROVE anchors'[h] \in PartialFcn(Objects, AnchorRows)
  <2> DEFINE next == AdvanceQuiet(h, intact[h])
             old == anchors[h]
  <2>1. old \in PartialFcn(Objects, AnchorRows) /\ DOMAIN old \subseteq Objects
        /\ \A o \in DOMAIN old : old[o] \in AnchorRows
    BY AnchorFields DEF HotTypes
  <2>2. CASE h \notin Sampled
    BY <1>1, <2>1, <2>2 DEF Stores
  <2>3. CASE h \in Sampled
    <3>1. intact[h] \in BOOLEAN
      BY <1>1, <2>3 DEF Stores
    <3>2. DOMAIN next = DOMAIN sweep.got[h].rows /\ \A o \in DOMAIN next : next[o] \in AnchorRows
      BY <1>2, <2>3, <3>1, AdvanceQuietFields
    <3>3. DOMAIN next \subseteq Objects
      BY <2>3, <3>2, GotFields DEF HotTypes
    <3>4. anchors'[h] = UpsertHotAnchors(old, next)
      BY <1>1, <2>3 DEF Stores
    <3> HIDE DEF next, old
    <3> DEFINE D == {p \in DOMAIN old : old[p].at >= sweep.at} \cup DOMAIN next
    <3>5. anchors'[h] = [o \in D |-> IF o \in DOMAIN next THEN next[o] ELSE old[o]]
      BY <3>4 DEF UpsertHotAnchors
    <3>6. D \in SUBSET Objects
      BY <2>1, <3>3
    <3>7. \A o \in D : (IF o \in DOMAIN next THEN next[o] ELSE old[o]) \in AnchorRows
      BY <2>1, <3>2
    <3> HIDE DEF D
    <3>8. anchors'[h] \in [D -> AnchorRows]
      BY <3>5, <3>7
    <3> QED
      BY <3>6, <3>8, PartialIntro
  <2> QED
    BY <2>2, <2>3
<1>4. anchors' \in [Hosts -> PartialFcn(Objects, AnchorRows)]
  <2>1. anchors' = [h \in Hosts |-> anchors'[h]]
    BY <1>1 DEF Stores
  <2> QED
    BY <1>3, <2>1
<1>5. snaps' \in Seq(Snapshots) /\ dropped' \in Nat /\ dropped' <= Len(snaps')
  BY <1>1, <1>2 DEF Stores, HotTypes, StoreTypes
<1> QED
  BY <1>4, <1>5 DEF StoreTypes

-----------------------------------------------------------------------------
(* The types of every step, and the groups of steps the invariants look at. *)

\* A step of the sweep that samples or misses a host.
SampleStep == \E h \in Hosts : SampleTables(h) \/ SampleIndexes(h) \/ MissHost(h)

\* The capture ends with nothing stored.
Ends == sweep' = NoSweep /\ UNCHANGED <<now, servers, store>> /\ attempt' \in {attempt, Nil}

LEMMA NextByKind ==
  ASSUME [Next]_vars
  PROVE  \/ Tick \/ ServerStep \/ Begin \/ SampleStep \/ Store \/ Ends \/ Retention
         \/ UNCHANGED vars
<1>1. GiveUp => Ends
  BY DEF GiveUp, Ends
<1>2. Crash => Ends
  BY DEF Crash, Ends
<1>3. Horizon => UNCHANGED vars
  BY DEF Horizon
<1> QED
  BY <1>1, <1>2, <1>3 DEF Next, ServerStep, SampleStep

\* Retention drops the snapshots under the cut-off, which are the oldest.
LEMMA RetentionShape ==
  ASSUME StoreTypes, now \in Nat, CapturesInOrder, Retention
  PROVE  /\ UNCHANGED <<now, servers, sweep, attempt, anchors, snaps>> /\ sweep.at = Nil
         /\ dropped' \in Nat /\ dropped' <= Len(snaps)
         /\ \A i \in 1 .. dropped' : snaps[i].at < now - HotRetention
<1> DEFINE n == Len(snaps)
           cut == now - HotRetention
           old == {i \in Kept : snaps[i].at < cut}
<1>1. /\ UNCHANGED <<now, servers, sweep, attempt, anchors, snaps>> /\ sweep.at = Nil
      /\ dropped' = dropped + Cardinality(old)
  BY DEF Retention
<1>2. n \in Nat /\ dropped \in Nat /\ dropped <= n /\ cut \in Int
  BY LenProperties, HotConfigOK DEF StoreTypes
<1>3. \A i \in 1 .. n : snaps[i].at \in Nat
  BY SnapFields
<1>4. Kept = dropped + 1 .. n
  BY DEF Kept
<1> HIDE DEF n, cut
<1>5. IsFiniteSet(Kept) /\ Cardinality(Kept) = n - dropped
  <2> DEFINE a == dropped + 1
  <2>1. a \in Int /\ n \in Int
    BY <1>2
  <2> HIDE DEF a
  <2>2. IsFiniteSet(a .. n) /\ Cardinality(a .. n) = IF a > n THEN 0 ELSE n - a + 1
    BY <2>1, FS_Interval
  <2> QED
    BY <1>2, <1>4, <2>2 DEF a
<1>6. IsFiniteSet(old) /\ Cardinality(old) \in Nat /\ Cardinality(old) <= n - dropped
  BY <1>5, FS_Subset, FS_CardinalityType
<1>7. dropped' \in Nat /\ dropped' <= n
  BY <1>1, <1>2, <1>6
<1>8. ASSUME NEW i \in 1 .. dropped' PROVE snaps[i].at < cut
  <2>1. CASE i <= dropped
    BY <1>2, <2>1 DEF CapturesInOrder, cut
  <2>2. CASE i > dropped
    <3>1. i \in Kept /\ i \in 1 .. n
      BY <1>2, <1>4, <1>7, <2>2
    <3>2. SUFFICES ASSUME ~(snaps[i].at < cut) PROVE FALSE
      OBVIOUS
    <3>3. ASSUME NEW k \in old PROVE k \in dropped + 1 .. i - 1
      <4>1. k \in dropped + 1 .. n /\ snaps[k].at < cut /\ k \in 1 .. n
        BY <1>2, <1>4
      <4>2. ~(i < k)
        BY <1>2, <1>3, <3>1, <3>2, <4>1 DEF CapturesInOrder, n
      <4>3. k # i
        BY <3>2, <4>1
      <4> QED
        BY <1>2, <3>1, <4>1, <4>2, <4>3
    <3>4. /\ IsFiniteSet(dropped + 1 .. i - 1)
          /\ Cardinality(dropped + 1 .. i - 1) = i - 1 - dropped
      <4> DEFINE a == dropped + 1
                 b == i - 1
      <4>1. a \in Int /\ b \in Int
        BY <1>2, <3>1
      <4> HIDE DEF a, b
      <4>2. IsFiniteSet(a .. b) /\ Cardinality(a .. b) = IF a > b THEN 0 ELSE b - a + 1
        BY <4>1, FS_Interval
      <4> QED
        BY <1>2, <2>2, <3>1, <4>2 DEF a, b
    <3>5. old \subseteq dropped + 1 .. i - 1
      BY <3>3
    <3>6. Cardinality(old) <= i - 1 - dropped
      <4> DEFINE R == dropped + 1 .. i - 1
      <4> HIDE DEF old
      <4>1. IsFiniteSet(R) /\ old \in SUBSET R
        BY <3>4, <3>5
      <4> HIDE DEF R
      <4>2. Cardinality(old) <= Cardinality(R)
        BY <4>1, FS_Subset
      <4> QED
        BY <3>4, <4>2 DEF R
    <3> QED
      BY <1>1, <1>2, <1>6, <3>1, <3>6
  <2> QED
    BY <1>2, <1>7, <2>1, <2>2
<1> QED
  BY <1>1, <1>7, <1>8 DEF n, cut

LEMMA StepTypes ==
  ASSUME HotTypes, CapturesInOrder, [Next]_vars
  PROVE  HotTypes'
<1>1. CASE Tick
  <2>1. now' = now + 1 /\ UNCHANGED <<servers, sweep, attempt, store>>
    BY <1>1 DEF Tick
  <2>2. now' \in Nat /\ attempt' \in Times
    BY <2>1 DEF HotTypes
  <2>3. ServerTypes' /\ SweepTypes' /\ StoreTypes'
    BY <2>1 DEF HotTypes, servers, store, ServerTypes, SweepTypes, StoreTypes
  <2> QED
    BY <2>2, <2>3 DEF HotTypes
<1>2. CASE ServerStep
  <2>1. ServerTypes' /\ UNCHANGED <<now, sweep, attempt, store>>
    BY <1>2, ServerStepTypes DEF HotTypes
  <2> QED
    BY <2>1 DEF HotTypes, store, SweepTypes, StoreTypes
<1>3. CASE Begin
  <2>1. SweepTypes' /\ attempt' \in Times /\ UNCHANGED <<now, servers, store>>
    BY <1>3, BeginShape
  <2> QED
    BY <2>1 DEF HotTypes, servers, store, ServerTypes, StoreTypes
<1>4. CASE SampleStep
  <2>1. SweepTypes' /\ UNCHANGED <<now, servers, attempt, store>>
    BY <1>4, TablesShape, IndexesShape, MissShape DEF SampleStep
  <2> QED
    BY <2>1 DEF HotTypes, servers, store, ServerTypes, StoreTypes
<1>5. CASE Store
  <2>1. sweep' = NoSweep /\ UNCHANGED <<now, servers, attempt>>
    BY <1>5, StoreShape
  <2>2. StoreTypes' /\ SweepTypes'
    BY <1>5, <2>1, StoreStepTypes, NoSweepTypes
  <2> QED
    BY <2>1, <2>2 DEF HotTypes, servers, ServerTypes
<1>6. CASE Ends
  <2>1. SweepTypes' /\ UNCHANGED <<now, servers, store>> /\ attempt' \in Times
    BY <1>6, NoSweepTypes DEF Ends, HotTypes, Times
  <2> QED
    BY <2>1 DEF HotTypes, servers, store, ServerTypes, StoreTypes
<1>7. CASE Retention
  <2>1. /\ UNCHANGED <<now, servers, sweep, attempt, anchors, snaps>>
        /\ dropped' \in Nat /\ dropped' <= Len(snaps)
    BY <1>7, RetentionShape DEF HotTypes
  <2> QED
    BY <2>1 DEF HotTypes, servers, ServerTypes, SweepTypes, StoreTypes
<1>8. CASE UNCHANGED vars
  BY <1>8 DEF vars, HotTypes, servers, store, ServerTypes, SweepTypes, StoreTypes
<1> QED
  BY <1>1, <1>2, <1>3, <1>4, <1>5, <1>6, <1>7, <1>8, NextByKind

-----------------------------------------------------------------------------
(* The order of the captures and the schedule. *)

\* sched.Next(t) lies after t and at most a period away.
LEMMA NextFireBounds ==
  ASSUME NEW t \in Nat
  PROVE  NextFire(t) \in Nat /\ t < NextFire(t) /\ NextFire(t) <= t + Interval
<1> DEFINE q == t \div Interval
           r == t % Interval
<1>1. Interval \in Nat /\ Interval > 0
  BY HotConfigOK
<1>2. q \in Nat /\ r \in 0 .. Interval - 1 /\ t = Interval * q + r
  BY <1>1
<1>3. NextFire(t) = (q + 1) * Interval
  BY DEF NextFire
<1> HIDE DEF q, r
<1>4. (q + 1) * Interval = Interval * q + Interval /\ Interval * q \in Nat
  BY <1>1, <1>2
<1> QED
  BY <1>1, <1>2, <1>3, <1>4

LEMMA OrderInit == Init => CapturesInOrder
<1> SUFFICES ASSUME Init PROVE CapturesInOrder
  OBVIOUS
<1>1. Len(snaps) = 0 /\ dropped = 0 /\ sweep.at = Nil
  BY DEF Init, NoSweep
<1> QED
  BY <1>1 DEF CapturesInOrder, OncePerFiring

LEMMA OrderBegin ==
  ASSUME HotTypes, CapturesInOrder, Begin
  PROVE  CapturesInOrder'
<1> DEFINE n == Len(snaps)
<1>1. /\ UNCHANGED <<now, servers, store>> /\ sweep.at = Nil /\ DueForCapture /\ sweep'.at = now
  BY BeginShape
<1>2. UNCHANGED <<now, snaps, dropped>>
  BY <1>1 DEF store
<1>3. /\ n \in Nat /\ now \in Nat /\ dropped \in Nat /\ dropped <= n /\ HotRetention \in Nat
      /\ Interval \in Nat
  BY LenProperties, HotConfigOK DEF HotTypes, StoreTypes
<1>4. \A i \in 1 .. n : snaps[i].at \in Nat
  BY SnapFields DEF HotTypes
<1> HIDE DEF n
<1>5. /\ \A i \in 1 .. n : snaps[i].at < now
      /\ HotRetention >= Interval /\ n > 0 => NextFire(snaps[n].at) <= now
  <2>1. CASE Kept # {}
    <3>1. n \in 1 .. n
      BY <1>3, <2>1 DEF Kept, n
    <3>2. now >= NextFire(snaps[n].at)
      BY <1>1, <2>1 DEF DueForCapture, CronDue, n
    <3>3. NextFire(snaps[n].at) \in Nat /\ snaps[n].at < NextFire(snaps[n].at)
      BY <1>4, <3>1, NextFireBounds
    <3>4. \A i \in 1 .. n : i < n => snaps[i].at < snaps[n].at
      BY <3>1 DEF CapturesInOrder, n
    <3>5. \A i \in 1 .. n : i < n \/ i = n
      BY <1>3
    <3> QED
      BY <1>3, <1>4, <3>1, <3>2, <3>3, <3>4, <3>5
  <2>2. CASE Kept = {}
    <3>1. dropped = n
      BY <1>3, <2>2 DEF Kept, n
    <3>2. \A i \in 1 .. n : snaps[i].at < now - HotRetention
      BY <3>1 DEF CapturesInOrder
    <3>3. \A i \in 1 .. n : snaps[i].at < now
      BY <1>3, <1>4, <3>2
    <3>4. ASSUME HotRetention >= Interval, n > 0
          PROVE  NextFire(snaps[n].at) <= now
      <4>1. n \in 1 .. n
        BY <1>3, <3>4
      <4>2. /\ snaps[n].at \in Nat /\ snaps[n].at < now - HotRetention
            /\ NextFire(snaps[n].at) \in Nat /\ NextFire(snaps[n].at) <= snaps[n].at + Interval
        BY <1>4, <3>2, <4>1, NextFireBounds
      <4> QED
        BY <1>3, <3>4, <4>2
    <3> QED
      BY <3>3, <3>4
  <2> QED
    BY <2>1, <2>2
<1>6. snaps # <<>> => n > 0
  BY <1>3, EmptySeq, LenProperties DEF HotTypes, StoreTypes, n
<1>7. OncePerFiring'
  BY <1>2 DEF CapturesInOrder, OncePerFiring, NextFire
<1>8. sweep'.at <= now /\ \A i \in 1 .. n : snaps[i].at < sweep'.at
  BY <1>1, <1>3, <1>5
<1>9. HotRetention >= Interval /\ snaps # <<>> => NextFire(snaps[n].at) <= sweep'.at
  BY <1>1, <1>5, <1>6
<1> QED
  BY <1>2, <1>7, <1>8, <1>9 DEF CapturesInOrder, NextFire, n

LEMMA OrderStore ==
  ASSUME HotTypes, CapturesInOrder, Store
  PROVE  CapturesInOrder'
<1> DEFINE n == Len(snaps)
<1>1. PICK windows, intact : Stores(windows, intact)
  BY StoreShape
<1>2. sweep.at # Nil /\ sweep.at \in Nat /\ sweep' = NoSweep /\ now' = now /\ dropped' = dropped
  BY StoreShape
<1>3. /\ n \in Nat /\ now \in Nat /\ dropped \in Nat /\ dropped <= n
      /\ Len(snaps') = n + 1
      /\ \A i \in 1 .. n : snaps'[i] = snaps[i]
      /\ snaps'[n + 1] = NewSnap(windows)
  BY <1>1 DEF Stores, HotTypes, StoreTypes
<1>4. snaps'[n + 1].at = sweep.at
  BY <1>3 DEF NewSnap
<1>5. \A i \in 1 .. n : snaps[i].at \in Nat
  BY SnapFields DEF HotTypes
<1>6. /\ \A i \in 1 .. n : snaps[i].at <= now
      /\ \A i, j \in 1 .. n : i < j => snaps[i].at < snaps[j].at
      /\ \A i \in 1 .. dropped : snaps[i].at < now - HotRetention
      /\ sweep.at <= now /\ \A i \in 1 .. n : snaps[i].at < sweep.at
      /\ HotRetention >= Interval /\ snaps # <<>> => NextFire(snaps[n].at) <= sweep.at
      /\ OncePerFiring
  BY <1>2 DEF CapturesInOrder
<1> HIDE DEF n
<1>7. \A i \in 1 .. n + 1 : i = n + 1 \/ (i \in 1 .. n /\ snaps'[i] = snaps[i])
  BY <1>3
<1>8. \A i \in 1 .. n + 1 : snaps'[i].at <= now
  BY <1>4, <1>6, <1>7
<1>9. \A i, j \in 1 .. n + 1 : i < j => snaps'[i].at < snaps'[j].at
  <2> SUFFICES ASSUME NEW i \in 1 .. n + 1, NEW j \in 1 .. n + 1, i < j
               PROVE  snaps'[i].at < snaps'[j].at
    OBVIOUS
  <2>1. i \in 1 .. n /\ snaps'[i] = snaps[i]
    BY <1>3
  <2>2. CASE j = n + 1
    BY <1>4, <1>6, <2>1, <2>2
  <2>3. CASE j # n + 1
    BY <1>6, <1>7, <2>1, <2>3
  <2> QED
    BY <2>2, <2>3
<1>10. \A i \in 1 .. dropped : snaps'[i].at < now - HotRetention
  BY <1>3, <1>6
<1>11. ASSUME HotRetention >= Interval, NEW i \in 1 .. (n + 1) - 1
       PROVE  NextFire(snaps'[i].at) <= snaps'[i + 1].at
  <2>1. i \in 1 .. n /\ snaps'[i] = snaps[i]
    BY <1>3
  <2>2. CASE i = n
    <3>1. n # 0 /\ snaps # <<>>
      BY <1>3, <2>1, <2>2, EmptySeq DEF n
    <3> QED
      BY <1>4, <1>6, <1>11, <2>1, <2>2, <3>1
  <2>3. CASE i # n
    <3>1. i \in 1 .. n - 1 /\ i + 1 \in 1 .. n
      BY <1>3, <2>1, <2>3
    <3>2. NextFire(snaps[i].at) <= snaps[i + 1].at
      BY <1>6, <1>11, <3>1 DEF OncePerFiring, n
    <3> QED
      BY <1>3, <2>1, <3>1, <3>2
  <2> QED
    BY <2>2, <2>3
<1>12. OncePerFiring'
  BY <1>3, <1>11 DEF OncePerFiring, NextFire
<1>13. sweep'.at = Nil
  BY <1>2 DEF NoSweep
<1> QED
  BY <1>2, <1>3, <1>8, <1>9, <1>10, <1>12, <1>13 DEF CapturesInOrder

LEMMA OrderStep ==
  ASSUME HotTypes, CapturesInOrder, [Next]_vars
  PROVE  CapturesInOrder'
<1>0. /\ now \in Nat /\ HotRetention \in Nat /\ sweep.at \in Times
      /\ \A i \in 1 .. Len(snaps) : snaps[i].at \in Nat
      /\ Len(snaps) \in Nat /\ dropped \in Nat /\ dropped <= Len(snaps)
  BY SweepFields, SnapFields, HotConfigOK, LenProperties DEF HotTypes, StoreTypes
<1>1. ASSUME UNCHANGED <<snaps, dropped>>, now' \in {now, now + 1}, sweep'.at \in {sweep.at, Nil}
      PROVE  CapturesInOrder'
  <2>1. \A i \in 1 .. Len(snaps) : snaps[i].at <= now'
    BY <1>0, <1>1 DEF CapturesInOrder
  <2>2. \A i \in 1 .. dropped : snaps[i].at < now' - HotRetention
    <3>1. \A i \in 1 .. dropped : i \in 1 .. Len(snaps)
      BY <1>0
    <3> QED
      BY <1>0, <1>1, <3>1 DEF CapturesInOrder
  <2>3. sweep'.at # Nil => sweep'.at = sweep.at /\ sweep.at \in Nat /\ sweep'.at <= now'
    BY <1>0, <1>1 DEF CapturesInOrder, Times
  <2>4. OncePerFiring'
    BY <1>1 DEF CapturesInOrder, OncePerFiring, NextFire
  <2> QED
    BY <1>1, <2>1, <2>2, <2>3, <2>4 DEF CapturesInOrder, NextFire
<1>2. CASE Tick
  BY <1>1, <1>2 DEF Tick, store
<1>3. CASE ServerStep
  <2>1. UNCHANGED <<now, sweep, attempt, store>>
    BY <1>3, ServerStepTypes DEF HotTypes
  <2> QED
    BY <1>1, <2>1 DEF store
<1>4. CASE Begin
  BY <1>4, OrderBegin
<1>5. CASE SampleStep
  <2>1. sweep'.at = sweep.at /\ UNCHANGED <<now, servers, attempt, store>>
    BY <1>5, TablesShape, IndexesShape, MissShape DEF SampleStep
  <2> QED
    BY <1>1, <2>1 DEF store
<1>6. CASE Store
  BY <1>6, OrderStore
<1>7. CASE Ends
  BY <1>1, <1>7, NoSweepTypes DEF Ends, store
<1>8. CASE Retention
  <2>1. /\ UNCHANGED <<now, sweep, snaps>> /\ sweep.at = Nil
        /\ \A i \in 1 .. dropped' : snaps[i].at < now - HotRetention
    BY <1>8, RetentionShape DEF HotTypes
  <2>2. OncePerFiring'
    BY <2>1 DEF CapturesInOrder, OncePerFiring, NextFire
  <2> QED
    BY <2>1, <2>2 DEF CapturesInOrder
<1>9. CASE UNCHANGED vars
  BY <1>1, <1>9 DEF vars, store
<1> QED
  BY <1>2, <1>3, <1>4, <1>5, <1>6, <1>7, <1>8, <1>9, NextByKind

-----------------------------------------------------------------------------
(* Rows against the servers. *)

\* What a query reads of o on h now.
CurrentRow(h, o) ==
  [sig |-> oid[o], count |-> count[h][o], reset |-> epoch[h],
   mine |-> did[h][o], all |-> [g \in Hosts |-> did[g][o]], term |-> switches]

LEMMA CatalogStep ==
  ASSUME HotTypes, CatalogSound, ServerStep
  PROVE  CatalogSound'
<1>0. /\ oid \in [Objects -> Nat] /\ ddl \in Nat /\ TableOf \in [Indexes -> Tables]
      /\ Tables \cap Indexes = {} /\ Objects = Tables \cup Indexes
  BY HotConfigOK DEF HotTypes, ServerTypes, Objects
<1>1. CASE UNCHANGED <<oid, ddl>>
  BY <1>1 DEF CatalogSound
<1>2. ASSUME NEW o \in Objects, DropRelation(o)
      PROVE  CatalogSound'
  <2>1. oid' = [p \in Objects |-> IF p \in Family(o) THEN 0 ELSE oid[p]] /\ ddl' = ddl
    BY <1>2 DEF DropRelation
  <2>2. \A p \in Objects : oid'[p] <= ddl'
    BY <1>0, <2>1 DEF CatalogSound
  <2>3. ASSUME NEW i \in Indexes, oid'[i] # 0
        PROVE  oid'[TableOf[i]] # 0
    <3>1. i \in Objects /\ TableOf[i] \in Objects /\ i \notin Family(o) /\ oid[i] # 0
      BY <1>0, <2>1, <2>3
    <3>2. TableOf[i] \notin Family(o)
      BY <1>0, <3>1 DEF Family
    <3> QED
      BY <2>1, <3>1, <3>2 DEF CatalogSound
  <2> QED
    BY <2>2, <2>3 DEF CatalogSound
<1>3. ASSUME NEW o \in Objects, NEW n \in AttachedCounts, ReplaceRelation(o, n)
      PROVE  CatalogSound'
  <2>1. /\ oid' = [p \in Objects |-> IF p \in Family(o) THEN ddl + 1 ELSE oid[p]]
        /\ ddl' = ddl + 1 /\ (o \in Indexes => oid[TableOf[o]] # 0)
    BY <1>3 DEF ReplaceRelation
  <2>2. \A p \in Objects : oid'[p] <= ddl'
    BY <1>0, <2>1 DEF CatalogSound
  <2>3. ASSUME NEW i \in Indexes, oid'[i] # 0
        PROVE  oid'[TableOf[i]] # 0
    <3>1. i \in Objects /\ TableOf[i] \in Objects /\ ddl + 1 # 0
      BY <1>0
    <3>2. CASE TableOf[i] \in Family(o)
      BY <2>1, <3>1, <3>2
    <3>3. CASE TableOf[i] \notin Family(o)
      <4>1. oid'[TableOf[i]] = oid[TableOf[i]]
        BY <2>1, <3>1, <3>3
      <4>2. CASE i \in Family(o)
        <5>1. i = o
          BY <3>3, <4>2 DEF Family
        <5> QED
          BY <2>1, <4>1, <5>1
      <4>3. CASE i \notin Family(o)
        BY <2>1, <2>3, <3>1, <4>1, <4>3 DEF CatalogSound
      <4> QED
        BY <4>2, <4>3
    <3> QED
      BY <3>2, <3>3
  <2> QED
    BY <2>2, <2>3 DEF CatalogSound
<1> QED
  BY <1>1, <1>2, <1>3 DEF ServerStep, Activity, ResetStats, Switchover

\* A row goes on describing the past of its server.
LEMMA RowPastStep ==
  ASSUME ServerTypes, ServerStep, NEW h \in Hosts, NEW o \in Objects, NEW r \in SampleRows,
         RowPast(r, h, o)
  PROVE  RowPast(r, h, o)'
<1>0. /\ r.sig \in Nat /\ r.sig # 0 /\ r.reset \in Nat /\ r.mine \in Nat /\ r.count \in Nat
      /\ r.term \in Nat
  BY DEF SampleRows
<1>1. /\ r.sig <= ddl /\ r.reset <= epoch[h] /\ r.mine <= did[h][o] /\ r.term <= switches
      /\ r.all[h] = r.mine
      /\ r.sig = oid[o] /\ r.reset = epoch[h] => count[h][o] - r.count = did[h][o] - r.mine
  BY DEF RowPast
<1>2. /\ oid[o] \in Nat /\ epoch[h] \in Nat /\ count[h][o] \in Nat /\ did[h][o] \in Nat
      /\ ddl \in Nat /\ switches \in Nat
  BY DEF ServerTypes
<1>3. ASSUME NEW g \in Hosts, NEW p \in Objects, Activity(g, p)
      PROVE  RowPast(r, h, o)'
  <2>1. /\ count' = [count EXCEPT ![g][p] = @ + 1] /\ did' = [did EXCEPT ![g][p] = @ + 1]
        /\ UNCHANGED <<oid, epoch, ddl, switches>>
    BY <1>3 DEF Activity
  <2>2. CASE g = h /\ p = o
    <3>1. count'[h][o] = count[h][o] + 1 /\ did'[h][o] = did[h][o] + 1
      BY <2>1, <2>2 DEF ServerTypes
    <3> QED
      BY <1>0, <1>1, <1>2, <2>1, <3>1 DEF RowPast
  <2>3. CASE ~(g = h /\ p = o)
    <3>1. count'[h][o] = count[h][o] /\ did'[h][o] = did[h][o]
      BY <2>1, <2>3 DEF ServerTypes
    <3> QED
      BY <1>1, <2>1, <3>1 DEF RowPast
  <2> QED
    BY <2>2, <2>3
<1>4. ASSUME NEW g \in Hosts, ResetStats(g)
      PROVE  RowPast(r, h, o)'
  <2>1. /\ epoch' = [epoch EXCEPT ![g] = @ + 1]
        /\ count' = [count EXCEPT ![g] = [q \in Objects |-> 0]]
        /\ UNCHANGED <<oid, did, ddl, switches>>
    BY <1>4 DEF ResetStats
  <2>2. CASE g = h
    <3>1. epoch'[h] = epoch[h] + 1
      BY <2>1, <2>2 DEF ServerTypes
    <3> QED
      BY <1>0, <1>1, <1>2, <2>1, <3>1 DEF RowPast
  <2>3. CASE g # h
    <3>1. epoch'[h] = epoch[h] /\ count'[h] = count[h]
      BY <2>1, <2>3 DEF ServerTypes
    <3> QED
      BY <1>1, <2>1, <3>1 DEF RowPast
  <2> QED
    BY <2>2, <2>3
<1>5. ASSUME NEW g \in Hosts, Switchover(g)
      PROVE  RowPast(r, h, o)'
  <2>1. switches' = switches + 1 /\ UNCHANGED <<oid, count, epoch, did, ddl>>
    BY <1>5 DEF Switchover
  <2> QED
    BY <1>0, <1>1, <1>2, <2>1 DEF RowPast
<1>6. ASSUME NEW p \in Objects, DropRelation(p)
      PROVE  RowPast(r, h, o)'
  <2>1. oid'[o] \in {0, oid[o]} /\ UNCHANGED <<count, epoch, did, ddl, switches>>
    BY <1>6 DEF DropRelation
  <2> QED
    BY <1>0, <1>1, <2>1 DEF RowPast
<1>7. ASSUME NEW p \in Objects, NEW n \in AttachedCounts, ReplaceRelation(p, n)
      PROVE  RowPast(r, h, o)'
  <2>1. /\ ddl' = ddl + 1 /\ UNCHANGED <<epoch, did, switches>>
        /\ oid' = [q \in Objects |-> IF q \in Family(p) THEN ddl + 1 ELSE oid[q]]
        /\ count' = [g \in Hosts |->
             [q \in Objects |-> IF q \in Family(p) THEN n ELSE count[g][q]]]
    BY <1>7 DEF ReplaceRelation
  <2>2. oid'[o] = ddl + 1 \/ (oid'[o] = oid[o] /\ count'[h][o] = count[h][o])
    BY <2>1
  <2> QED
    BY <1>0, <1>1, <1>2, <2>1, <2>2 DEF RowPast
<1> QED
  BY <1>3, <1>4, <1>5, <1>6, <1>7 DEF ServerStep

\* Only the primary writes to a table until the next switchover.
LEMMA PrimaryPastStep ==
  ASSUME ServerTypes, ServerStep, NEW h \in Hosts, NEW o \in Tables, NEW r \in SampleRows,
         r.term <= switches, PrimaryPast(r, h, o)
  PROVE  PrimaryPast(r, h, o)'
<1>0. r.term \in Nat /\ switches \in Nat /\ o \in Objects
  BY DEF SampleRows, ServerTypes, Objects
<1>1. CASE UNCHANGED <<switches, primary, did>>
  BY <1>1 DEF PrimaryPast
<1>2. ASSUME NEW g \in Hosts, Switchover(g)
      PROVE  PrimaryPast(r, h, o)'
  <2>1. switches' = switches + 1
    BY <1>2 DEF Switchover
  <2> QED
    BY <1>0, <2>1 DEF PrimaryPast
<1>3. ASSUME NEW g \in Hosts, NEW p \in Objects, Activity(g, p)
      PROVE  PrimaryPast(r, h, o)'
  <2>1. /\ did' = [did EXCEPT ![g][p] = @ + 1] /\ (p \in Tables => g = primary)
        /\ UNCHANGED <<switches, primary>>
    BY <1>3 DEF Activity
  <2> SUFFICES ASSUME r.term = switches
               PROVE  primary = h /\ \A f \in Hosts \ {h} : r.all[f] = did'[f][o]
    BY <2>1 DEF PrimaryPast
  <2>2. primary = h /\ \A f \in Hosts \ {h} : r.all[f] = did[f][o]
    BY DEF PrimaryPast
  <2>3. ASSUME NEW f \in Hosts \ {h} PROVE did'[f][o] = did[f][o]
    <3>1. ~(f = g /\ o = p)
      BY <2>1, <2>2
    <3> QED
      BY <1>0, <2>1, <3>1 DEF ServerTypes
  <2> QED
    BY <2>2, <2>3
<1> QED
  BY <1>1, <1>2, <1>3 DEF ServerStep, ResetStats, DropRelation, ReplaceRelation

\* A row read now.
LEMMA CurrentRowPast ==
  ASSUME ServerTypes, CatalogSound, NEW h \in Hosts, NEW o \in Objects
  PROVE  /\ RowPast(CurrentRow(h, o), h, o)
         /\ primary = h => PrimaryPast(CurrentRow(h, o), h, o)
         /\ \A r \in SampleRows :
              /\ RowPast(r, h, o) => RowsFollow(r, CurrentRow(h, o))
              /\ PrimaryPast(r, h, o) => PrimaryFollows(r, CurrentRow(h, o), h)
<1>1. /\ oid[o] \in Nat /\ epoch[h] \in Nat /\ count[h][o] \in Nat /\ did[h][o] \in Nat
      /\ ddl \in Nat /\ switches \in Nat /\ oid[o] <= ddl
  BY DEF ServerTypes, CatalogSound
<1>2. RowPast(CurrentRow(h, o), h, o)
  BY <1>1 DEF RowPast, CurrentRow
<1>3. primary = h => PrimaryPast(CurrentRow(h, o), h, o)
  BY DEF PrimaryPast, CurrentRow
<1>4. ASSUME NEW r \in SampleRows, RowPast(r, h, o) PROVE RowsFollow(r, CurrentRow(h, o))
  BY <1>4 DEF RowPast, CurrentRow, RowsFollow
<1>5. ASSUME NEW r \in SampleRows, PrimaryPast(r, h, o) PROVE PrimaryFollows(r, CurrentRow(h, o), h)
  BY <1>5 DEF PrimaryPast, CurrentRow, PrimaryFollows
<1> QED
  BY <1>2, <1>3, <1>4, <1>5

-----------------------------------------------------------------------------
(* The samples in memory and those stored. *)

LEMMA SampleFields ==
  ASSUME NEW s \in Samples
  PROVE  /\ s.rows \in SampleSets /\ s.reset \in Nat /\ s.standby \in BOOLEAN
         /\ DOMAIN s.rows \subseteq Objects
         /\ \A o \in DOMAIN s.rows : s.rows[o] \in SampleRows
<1>1. s.rows \in SampleSets /\ s.reset \in Nat /\ s.standby \in BOOLEAN
  BY DEF Samples
<1> QED
  BY <1>1, PartialElim DEF SampleSets

LEMMA SamplesTyped ==
  ASSUME HotTypes, NEW h \in Hosts
  PROVE  \A s \in InHand(h) \cup Stored(h) : s \in Samples
<1>1. \A s \in InHand(h) : s \in Samples
  BY SweepFields DEF InHand, HotTypes, Sampled
<1>2. \A i \in 1 .. Len(snaps) : h \in DOMAIN snaps[i].rows => snaps[i].rows[h] \in Samples
  BY SnapFields DEF HotTypes
<1> QED
  BY <1>1, <1>2 DEF Stored

\* Every row of the sample s of h describes the past of h.
SamplePast(s, h) ==
  \A o \in DOMAIN s.rows :
    RowPast(s.rows[o], h, o) /\ (o \in Tables /\ ~s.standby => PrimaryPast(s.rows[o], h, o))

\* The sample t of h was taken after s.
SampleFollows(s, t, h) ==
  \A o \in DOMAIN s.rows \cap DOMAIN t.rows :
    /\ RowsFollow(s.rows[o], t.rows[o])
    /\ o \in Tables /\ ~s.standby /\ ~t.standby => PrimaryFollows(s.rows[o], t.rows[o], h)

LEMMA SamplePastStep ==
  ASSUME ServerTypes, ServerStep, NEW h \in Hosts, NEW s \in Samples, SamplePast(s, h)
  PROVE  SamplePast(s, h)'
<1> SUFFICES ASSUME NEW o \in DOMAIN s.rows
             PROVE  /\ RowPast(s.rows[o], h, o)'
                    /\ o \in Tables /\ ~s.standby => PrimaryPast(s.rows[o], h, o)'
  BY DEF SamplePast
<1> DEFINE r == s.rows[o]
<1>1. r \in SampleRows /\ o \in Objects
  BY SampleFields
<1>2. RowPast(r, h, o) /\ (o \in Tables /\ ~s.standby => PrimaryPast(r, h, o))
  BY DEF SamplePast
<1> HIDE DEF r
<1>3. RowPast(r, h, o)'
  BY <1>1, <1>2, RowPastStep
<1>4. ASSUME o \in Tables, ~s.standby PROVE PrimaryPast(r, h, o)'
  <2>1. r.term <= switches
    BY <1>2 DEF RowPast
  <2> QED
    BY <1>1, <1>2, <1>4, <2>1, PrimaryPastStep
<1> QED
  BY <1>3, <1>4 DEF r

LEMMA SamplePastSame ==
  ASSUME UNCHANGED servers, NEW h, NEW s, SamplePast(s, h)
  PROVE  SamplePast(s, h)'
BY DEF SamplePast, RowPast, PrimaryPast, servers

\* The sample of the tables: read now, and of one epoch.
LEMMA TablesSampleRows ==
  ASSUME HotTypes, CatalogSound, NEW h \in Hosts
  PROVE  LET t == TablesSample(h) IN
         /\ DOMAIN t.rows = {p \in Tables : oid[p] # 0}
         /\ \A o \in DOMAIN t.rows : t.rows[o] = CurrentRow(h, o)
         /\ t.rows # Empty => t.reset = epoch[h]
         /\ t.rows = Empty => \A i \in Indexes : oid[i] = 0
         /\ t.rows # Empty /\ ~t.standby => primary = h
<1> DEFINE t == TablesSample(h)
<1>1. /\ t.rows = Rows(h, Tables)
      /\ t.reset = IF t.rows = Empty THEN 0 ELSE epoch[h]
      /\ t.standby = (t.rows # Empty /\ h # primary)
  BY DEF TablesSample
<1>2. /\ DOMAIN Rows(h, Tables) = {p \in Tables : oid[p] # 0}
      /\ \A o \in DOMAIN Rows(h, Tables) : Rows(h, Tables)[o] = CurrentRow(h, o)
  BY RowsType DEF HotTypes, Objects, CurrentRow
<1>3. ASSUME t.rows = Empty PROVE \A i \in Indexes : oid[i] = 0
  <2>1. {p \in Tables : oid[p] # 0} = {}
    BY <1>1, <1>2, <1>3, EmptyIsPartial
  <2> QED
    BY <2>1, HotConfigOK DEF CatalogSound
<1> QED
  BY <1>1, <1>2, <1>3

LEMMA TablesSamplePast ==
  ASSUME HotTypes, CatalogSound, NEW h \in Hosts
  PROVE  /\ SamplePast(TablesSample(h), h)
         /\ \A s \in Samples : SamplePast(s, h) => SampleFollows(s, TablesSample(h), h)
<1> DEFINE t == TablesSample(h)
<1>1. /\ \A o \in DOMAIN t.rows : o \in Tables /\ t.rows[o] = CurrentRow(h, o)
      /\ t.rows # Empty /\ ~t.standby => primary = h
  BY TablesSampleRows
<1>2. \A o \in DOMAIN t.rows : t.rows # Empty /\ o \in Objects
  BY <1>1, EmptyIsPartial DEF Objects
<1> HIDE DEF t
<1>3. SamplePast(t, h)
  BY <1>1, <1>2, CurrentRowPast DEF HotTypes, SamplePast
<1>4. ASSUME NEW s \in Samples, SamplePast(s, h) PROVE SampleFollows(s, t, h)
  <2>1. ASSUME NEW o \in DOMAIN s.rows \cap DOMAIN t.rows
        PROVE  /\ RowsFollow(s.rows[o], t.rows[o])
               /\ o \in Tables /\ ~s.standby /\ ~t.standby => PrimaryFollows(s.rows[o], t.rows[o], h)
    <3>1. s.rows[o] \in SampleRows /\ o \in Objects /\ t.rows[o] = CurrentRow(h, o)
      BY <1>1, <1>2, SampleFields
    <3>2. RowPast(s.rows[o], h, o) /\ (o \in Tables /\ ~s.standby => PrimaryPast(s.rows[o], h, o))
      BY <1>4 DEF SamplePast
    <3> QED
      BY <3>1, <3>2, CurrentRowPast DEF HotTypes
  <2> QED
    BY <2>1 DEF SampleFollows
<1> QED
  BY <1>3, <1>4 DEF t

\* The sample with its indexes: the tables' rows as they were, the indexes' as
\* they are.
LEMMA IndexesSampleRows ==
  ASSUME HotTypes, NEW h \in Hosts, SampleIndexes(h)
  PROVE  LET t == IndexesSample(h)
             half == sweep.half[h]
         IN /\ t \in Samples /\ half \in Samples /\ half \in InHand(h)
            /\ t.reset = half.reset /\ t.standby = half.standby
            /\ \A o \in DOMAIN half.rows : o \in DOMAIN t.rows
            /\ \A o \in DOMAIN t.rows :
                 \/ o \in DOMAIN half.rows /\ t.rows[o] = half.rows[o]
                 \/ o \in Indexes /\ oid[o] # 0 /\ t.rows[o] = CurrentRow(h, o)
<1> DEFINE t == IndexesSample(h)
           half == sweep.half[h]
           indexes == Rows(h, Indexes)
<1>1. /\ t \in Samples /\ half \in Samples /\ h \in DOMAIN sweep.half
      /\ t.reset = half.reset /\ t.standby = half.standby
      /\ t.rows = [o \in DOMAIN half.rows \cup DOMAIN indexes |->
                     IF o \in DOMAIN half.rows THEN half.rows[o] ELSE indexes[o]]
  BY IndexesShape
<1>2. half \in InHand(h)
  BY <1>1 DEF InHand
<1>3. /\ DOMAIN indexes = {p \in Indexes : oid[p] # 0}
      /\ \A o \in DOMAIN indexes : indexes[o] = CurrentRow(h, o)
  BY RowsType DEF HotTypes, Objects, CurrentRow
<1> HIDE DEF t, half, indexes
<1>4. \A o \in DOMAIN t.rows :
        \/ o \in DOMAIN half.rows /\ t.rows[o] = half.rows[o]
        \/ o \in Indexes /\ oid[o] # 0 /\ t.rows[o] = CurrentRow(h, o)
  BY <1>1, <1>3
<1>5. \A o \in DOMAIN half.rows : o \in DOMAIN t.rows
  BY <1>1
<1> QED
  BY <1>1, <1>2, <1>4, <1>5 DEF t, half

LEMMA IndexesSamplePast ==
  ASSUME HotTypes, CatalogSound, SamplesPast, SamplesFollow, NEW h \in Hosts, SampleIndexes(h)
  PROVE  /\ SamplePast(IndexesSample(h), h)
         /\ \A s \in Stored(h) : SampleFollows(s, IndexesSample(h), h)
<1> DEFINE t == IndexesSample(h)
           half == sweep.half[h]
<1>1. /\ t \in Samples /\ half \in Samples /\ half \in InHand(h)
      /\ t.standby = half.standby
      /\ \A o \in DOMAIN t.rows :
           \/ o \in DOMAIN half.rows /\ t.rows[o] = half.rows[o]
           \/ o \in Indexes /\ t.rows[o] = CurrentRow(h, o)
  BY IndexesSampleRows
<1> HIDE DEF t, half
<1>2. SamplePast(half, h) /\ \A s \in Stored(h) : SamplePast(s, h) /\ SampleFollows(s, half, h)
  BY <1>1 DEF SamplesPast, SamplesFollow, SamplePast, SampleFollows
<1>3. \A o \in Indexes : o \in Objects /\ o \notin Tables
  BY HotConfigOK DEF Objects
<1>4. SamplePast(t, h)
  <2> SUFFICES ASSUME NEW o \in DOMAIN t.rows
               PROVE  /\ RowPast(t.rows[o], h, o)
                      /\ o \in Tables /\ ~t.standby => PrimaryPast(t.rows[o], h, o)
    BY DEF SamplePast
  <2>1. CASE o \in DOMAIN half.rows /\ t.rows[o] = half.rows[o]
    BY <1>1, <1>2, <2>1 DEF SamplePast
  <2>2. CASE o \in Indexes /\ t.rows[o] = CurrentRow(h, o)
    BY <1>3, <2>2, CurrentRowPast DEF HotTypes
  <2> QED
    BY <1>1, <2>1, <2>2
<1>5. ASSUME NEW s \in Stored(h) PROVE SampleFollows(s, t, h)
  <2> SUFFICES ASSUME NEW o \in DOMAIN s.rows \cap DOMAIN t.rows
               PROVE  /\ RowsFollow(s.rows[o], t.rows[o])
                      /\ o \in Tables /\ ~s.standby /\ ~t.standby
                           => PrimaryFollows(s.rows[o], t.rows[o], h)
    BY DEF SampleFollows
  <2>1. CASE o \in DOMAIN half.rows /\ t.rows[o] = half.rows[o]
    BY <1>1, <1>2, <2>1 DEF SampleFollows
  <2>2. CASE o \in Indexes /\ t.rows[o] = CurrentRow(h, o)
    <3>1. s \in Samples
      BY SamplesTyped
    <3>2. s.rows[o] \in SampleRows /\ RowPast(s.rows[o], h, o)
      BY <1>2, <3>1, SampleFields DEF SamplePast
    <3> QED
      BY <1>3, <2>2, <3>2, CurrentRowPast DEF HotTypes
  <2> QED
    BY <1>1, <2>1, <2>2
<1> QED
  BY <1>4, <1>5 DEF t

\* A sampling step leaves at most one new sample in memory.
LEMMA InHandStep ==
  ASSUME HotTypes, SampleStep
  PROVE  /\ UNCHANGED <<now, servers, attempt, store>>
         /\ \A h \in Hosts : \A s \in InHand(h)' :
              \/ s \in InHand(h)
              \/ SampleTables(h) /\ s = TablesSample(h)
              \/ SampleIndexes(h) /\ s = IndexesSample(h)
<1>1. ASSUME NEW g \in Hosts, SampleTables(g), NEW h \in Hosts, NEW s \in InHand(h)'
      PROVE  s \in InHand(h) \/ (SampleTables(h) /\ s = TablesSample(h))
  <2>1. sweep'.got = sweep.got /\ sweep'.half = [f \in {g} |-> TablesSample(g)]
    BY <1>1, TablesShape
  <2> QED
    BY <1>1, <2>1 DEF InHand
<1>2. ASSUME NEW g \in Hosts, SampleIndexes(g), NEW h \in Hosts, NEW s \in InHand(h)'
      PROVE  s \in InHand(h) \/ (SampleIndexes(h) /\ s = IndexesSample(h))
  <2>1. /\ DOMAIN sweep'.half = {}
        /\ DOMAIN sweep'.got = Sampled \cup {g} /\ sweep'.got[g] = IndexesSample(g)
        /\ \A f \in Sampled \ {g} : sweep'.got[f] = sweep.got[f]
    BY <1>2, IndexesShape, EmptyIsPartial
  <2> QED
    BY <1>2, <2>1 DEF InHand, Sampled
<1>3. ASSUME NEW g \in Hosts, MissHost(g), NEW h \in Hosts, NEW s \in InHand(h)'
      PROVE  s \in InHand(h)
  <2>1. sweep'.got = sweep.got /\ DOMAIN sweep'.half = {}
    BY <1>3, MissShape, EmptyIsPartial
  <2> QED
    BY <1>3, <2>1 DEF InHand
<1>4. UNCHANGED <<now, servers, attempt, store>>
  BY TablesShape, IndexesShape, MissShape DEF SampleStep
<1> QED
  BY <1>1, <1>2, <1>3, <1>4 DEF SampleStep

\* Without a sampling step memory holds what it held, or nothing.
LEMMA InHandElse ==
  ASSUME HotTypes, [Next]_vars, ~SampleStep
  PROVE  UNCHANGED sweep \/ (sweep'.half = Empty /\ sweep'.got = Empty)
<1>1. CASE ServerStep
  BY <1>1, ServerStepTypes DEF HotTypes
<1>2. CASE Begin
  BY <1>2, BeginShape
<1>3. CASE Store
  BY <1>3, StoreShape, NoSweepTypes
<1>4. CASE Ends
  BY <1>4, NoSweepTypes DEF Ends
<1> QED
  BY <1>1, <1>2, <1>3, <1>4, NextByKind DEF Tick, Retention, vars

LEMMA NothingInHand ==
  ASSUME sweep'.half = Empty, sweep'.got = Empty, NEW h
  PROVE  InHand(h)' = {}
<1>1. DOMAIN sweep'.half = {} /\ DOMAIN sweep'.got = {}
  BY EmptyIsPartial
<1> QED
  BY <1>1 DEF InHand

\* Only storing a capture changes the snapshots, and it adds what was sampled.
LEMMA StoredStep ==
  ASSUME HotTypes, CapturesInOrder, [Next]_vars
  PROVE  /\ Store \/ UNCHANGED <<anchors, snaps>>
         /\ \A h \in Hosts : \A s \in Stored(h)' :
              s \in Stored(h) \/ (Store /\ h \in Sampled /\ s = sweep.got[h])
<1>1. CASE Store
  <2>1. PICK windows, intact : Stores(windows, intact)
    BY <1>1, StoreShape
  <2>2. /\ Len(snaps) \in Nat /\ Len(snaps') = Len(snaps) + 1
        /\ \A i \in 1 .. Len(snaps) : snaps'[i] = snaps[i]
        /\ snaps'[Len(snaps) + 1].rows = sweep.got
    BY <2>1 DEF Stores, NewSnap
  <2>3. ASSUME NEW h \in Hosts, NEW s \in Stored(h)'
        PROVE  s \in Stored(h) \/ (h \in Sampled /\ s = sweep.got[h])
    <3>1. PICK i \in 1 .. Len(snaps) + 1 : h \in DOMAIN snaps'[i].rows /\ s = snaps'[i].rows[h]
      BY <2>2, <2>3 DEF Stored
    <3>2. i = Len(snaps) + 1 \/ (i \in 1 .. Len(snaps) /\ snaps'[i] = snaps[i])
      BY <2>2
    <3> QED
      BY <2>2, <3>1, <3>2 DEF Stored, Sampled
  <2> QED
    BY <1>1, <2>3
<1>2. CASE ~Store
  <2>1. UNCHANGED <<anchors, snaps>>
    <3>1. ServerStep => UNCHANGED store
      BY ServerStepTypes DEF HotTypes
    <3>2. Begin => UNCHANGED store
      BY BeginShape
    <3>3. SampleStep => UNCHANGED store
      BY InHandStep
    <3> QED
      BY <1>2, <3>1, <3>2, <3>3, NextByKind DEF Tick, Ends, Retention, vars, store
  <2> QED
    BY <2>1 DEF Stored
<1> QED
  BY <1>1, <1>2

\* A sample once torn stays torn.
LEMMA TornStays ==
  ASSUME HotTypes, [Next]_vars
  PROVE  torn => torn'
<1>1. ServerStep => (torn => torn')
  BY DEF ServerStep, Activity, ResetStats, Switchover, DropRelation, ReplaceRelation
<1>2. SampleStep => (torn => torn')
  BY InHandStep DEF servers
<1> QED
  BY <1>1, <1>2, NextByKind DEF Tick, Begin, Store, Ends, Retention, vars, servers

LEMMA CatalogStepAll ==
  ASSUME HotTypes, CatalogSound, [Next]_vars
  PROVE  CatalogSound'
<1>1. ASSUME UNCHANGED servers PROVE CatalogSound'
  BY <1>1 DEF servers, CatalogSound
<1>2. SampleStep => UNCHANGED servers
  BY InHandStep
<1> QED
  BY <1>1, <1>2, CatalogStep, NextByKind DEF Tick, Begin, Store, Ends, Retention, vars

LEMMA HalfCurrentStep ==
  ASSUME HotTypes, CatalogSound, HalfCurrent, [Next]_vars
  PROVE  HalfCurrent'
<1>1. ASSUME DOMAIN sweep'.half = {} PROVE HalfCurrent'
  BY <1>1 DEF HalfCurrent
<1>2. ASSUME UNCHANGED <<sweep, servers>> PROVE HalfCurrent'
  BY <1>2 DEF HalfCurrent, servers
<1>3. CASE SampleStep
  <2>1. ASSUME NEW g \in Hosts, SampleTables(g) PROVE HalfCurrent'
    <3> DEFINE t == TablesSample(g)
    <3>1. sweep'.half = [f \in {g} |-> t] /\ UNCHANGED servers
      BY <2>1, TablesShape
    <3>2. /\ DOMAIN t.rows \subseteq Tables
          /\ \A o \in DOMAIN t.rows : t.rows[o] = CurrentRow(g, o)
          /\ t.rows # Empty => t.reset = epoch[g]
          /\ t.rows = Empty => \A i \in Indexes : oid[i] = 0
      BY TablesSampleRows
    <3> HIDE DEF t
    <3>3. \A o \in DOMAIN t.rows : t.rows # Empty /\ t.rows[o].reset = epoch[g]
      <4>1. \A o \in DOMAIN t.rows : t.rows # Empty
        BY EmptyIsPartial
      <4>2. \A o : CurrentRow(g, o).reset = epoch[g]
        BY DEF CurrentRow
      <4> QED
        BY <3>2, <4>1, <4>2
    <3> QED
      BY <3>1, <3>2, <3>3 DEF HalfCurrent, servers
  <2>2. ASSUME NEW g \in Hosts, SampleIndexes(g) PROVE HalfCurrent'
    BY <1>1, <2>2, IndexesShape, EmptyIsPartial
  <2>3. ASSUME NEW g \in Hosts, MissHost(g) PROVE HalfCurrent'
    BY <1>1, <2>3, MissShape, EmptyIsPartial
  <2> QED
    BY <1>3, <2>1, <2>2, <2>3 DEF SampleStep
<1>4. CASE ServerStep
  <2>1. sweep' = sweep
    BY <1>4, ServerStepTypes DEF HotTypes
  <2>2. ASSUME NEW h \in DOMAIN sweep.half, ~torn'
        PROVE  IF sweep.half[h].rows = Empty THEN \A i \in Indexes : oid'[i] = 0
                                             ELSE sweep.half[h].reset = epoch'[h]
    <3>1. /\ h \in Hosts /\ epoch \in [Hosts -> Nat] /\ oid \in [Objects -> Nat]
          /\ \A i \in Indexes : i \in Objects
      BY SweepFields DEF HotTypes, ServerTypes, Objects
    <3>2. ~torn
      BY <2>2, TornStays
    <3>3. IF sweep.half[h].rows = Empty THEN \A i \in Indexes : oid[i] = 0
                                        ELSE sweep.half[h].reset = epoch[h]
      BY <3>2 DEF HalfCurrent
    <3>4. ASSUME NEW g \in Hosts, ResetStats(g) PROVE epoch'[h] = epoch[h] /\ oid' = oid
      BY <2>2, <3>1, <3>4 DEF ResetStats
    <3>5. ASSUME NEW o \in Objects, DropRelation(o)
          PROVE  epoch' = epoch /\ \A i \in Indexes : oid[i] = 0 => oid'[i] = 0
      BY <3>1, <3>5 DEF DropRelation
    <3>6. ASSUME NEW o \in Objects, NEW n \in AttachedCounts, ReplaceRelation(o, n)
          PROVE  epoch' = epoch /\ sweep.half[h].rows # Empty
      BY <2>2, <3>6 DEF ReplaceRelation
    <3>7. epoch'[h] = epoch[h]
      BY <1>4, <3>4, <3>5, <3>6 DEF ServerStep, Activity, Switchover
    <3>8. sweep.half[h].rows = Empty => \A i \in Indexes : oid[i] = 0 => oid'[i] = 0
      BY <1>4, <3>4, <3>5, <3>6 DEF ServerStep, Activity, Switchover
    <3> QED
      BY <3>3, <3>7, <3>8
  <2> QED
    BY <2>1, <2>2 DEF HalfCurrent
<1>5. CASE ~SampleStep /\ ~ServerStep
  <2>1. UNCHANGED sweep \/ sweep'.half = Empty
    BY <1>5, InHandElse
  <2>2. UNCHANGED servers
    BY <1>5, NextByKind DEF Tick, Begin, Store, Ends, Retention, vars
  <2> QED
    BY <1>1, <1>2, <2>1, <2>2, EmptyIsPartial
<1> QED
  BY <1>3, <1>4, <1>5

LEMMA SamplesPastStep ==
  ASSUME HotTypes, CapturesInOrder, CatalogSound, SamplesPast, SamplesFollow, [Next]_vars
  PROVE  SamplesPast'
<1> SUFFICES ASSUME NEW h \in Hosts, NEW s \in InHand(h)' \cup Stored(h)'
             PROVE  SamplePast(s, h)'
  BY DEF SamplesPast, SamplePast
<1>1. \A t \in InHand(h) \cup Stored(h) : t \in Samples /\ SamplePast(t, h)
  BY SamplesTyped DEF SamplesPast, SamplePast
<1>2. CASE ServerStep
  <2>1. UNCHANGED <<sweep, snaps>>
    BY <1>2, ServerStepTypes DEF HotTypes, store
  <2>2. s \in InHand(h) \cup Stored(h)
    BY <2>1 DEF InHand, Stored
  <2> QED
    BY <1>1, <1>2, <2>2, SamplePastStep DEF HotTypes
<1>3. CASE ~ServerStep
  <2>1. UNCHANGED servers
    <3>1. SampleStep => UNCHANGED servers
      BY InHandStep
    <3> QED
      BY <1>3, <3>1, NextByKind DEF Tick, Begin, Store, Ends, Retention, vars
  <2>2. SamplePast(s, h)
    <3>1. ASSUME s \in Stored(h)' PROVE SamplePast(s, h)
      <4>1. s \in Stored(h) \/ (h \in Sampled /\ s = sweep.got[h])
        BY <3>1, StoredStep
      <4>2. h \in Sampled => sweep.got[h] \in InHand(h)
        BY DEF InHand, Sampled
      <4> QED
        BY <1>1, <4>1, <4>2
    <3>2. ASSUME s \in InHand(h)', SampleStep PROVE SamplePast(s, h)
      BY <1>1, <3>2, InHandStep, TablesSamplePast, IndexesSamplePast
    <3>3. ASSUME s \in InHand(h)', ~SampleStep PROVE SamplePast(s, h)
      <4>1. UNCHANGED sweep
        BY <3>3, InHandElse, NothingInHand
      <4>2. s \in InHand(h)
        BY <3>3, <4>1 DEF InHand
      <4> QED
        BY <1>1, <4>2
    <3> QED
      BY <3>1, <3>2, <3>3
  <2> QED
    BY <2>1, <2>2, SamplePastSame
<1> QED
  BY <1>2, <1>3

LEMMA SamplesFollowStep ==
  ASSUME HotTypes, CapturesInOrder, CatalogSound, SamplesPast, SamplesFollow, [Next]_vars
  PROVE  SamplesFollow'
<1> SUFFICES ASSUME NEW h \in Hosts, NEW s \in Stored(h)', NEW t \in InHand(h)'
             PROVE  SampleFollows(s, t, h)
  BY DEF SamplesFollow, SampleFollows
<1>1. \A u \in Stored(h) : /\ u \in Samples /\ SamplePast(u, h)
                           /\ \A v \in InHand(h) : SampleFollows(u, v, h)
  BY SamplesTyped DEF SamplesPast, SamplePast, SamplesFollow, SampleFollows
<1>2. s \in Stored(h)
  <2>1. Store => InHand(h)' = {}
    BY StoreShape, NoSweepTypes, NothingInHand
  <2> QED
    BY <2>1, StoredStep
<1>3. CASE SampleStep
  BY <1>1, <1>2, <1>3, InHandStep, TablesSamplePast, IndexesSamplePast
<1>4. CASE ~SampleStep
  <2>1. UNCHANGED sweep
    BY <1>4, InHandElse, NothingInHand
  <2>2. t \in InHand(h)
    BY <2>1 DEF InHand
  <2> QED
    BY <1>1, <1>2, <2>2
<1> QED
  BY <1>3, <1>4

LEMMA OneEpochStep ==
  ASSUME HotTypes, CapturesInOrder, HalfCurrent, SamplesOfOneEpoch, [Next]_vars
  PROVE  SamplesOfOneEpoch'
<1> SUFFICES ASSUME ~torn', NEW h \in Hosts
             PROVE  /\ h \in DOMAIN sweep'.got => OneEpoch(sweep'.got[h])
                    /\ \A s \in Stored(h)' : OneEpoch(s)
  BY DEF SamplesOfOneEpoch, Sampled, OneEpoch
<1>1. /\ ~torn
      /\ h \in Sampled => OneEpoch(sweep.got[h])
      /\ \A s \in Stored(h) : OneEpoch(s)
  BY TornStays DEF SamplesOfOneEpoch
<1>2. \A s \in Stored(h)' : OneEpoch(s)
  BY <1>1, StoredStep
<1>3. ASSUME h \in DOMAIN sweep'.got PROVE OneEpoch(sweep'.got[h])
  <2>1. CASE ~SampleStep
    <3>1. UNCHANGED sweep
      BY <1>3, <2>1, InHandElse, EmptyIsPartial
    <3> QED
      BY <1>1, <1>3, <3>1 DEF Sampled
  <2>2. ASSUME NEW g \in Hosts, SampleTables(g) \/ MissHost(g) PROVE OneEpoch(sweep'.got[h])
    <3>1. sweep'.got = sweep.got
      BY <2>2, TablesShape, MissShape
    <3> QED
      BY <1>1, <1>3, <3>1 DEF Sampled
  <2>3. ASSUME NEW g \in Hosts, SampleIndexes(g) PROVE OneEpoch(sweep'.got[h])
    <3> DEFINE t == IndexesSample(g)
               half == sweep.half[g]
    <3>1. /\ DOMAIN sweep'.got = Sampled \cup {g} /\ sweep'.got[g] = t
          /\ \A f \in Sampled \ {g} : sweep'.got[f] = sweep.got[f]
      BY <2>3, IndexesShape
    <3>2. CASE h # g
      BY <1>1, <1>3, <3>1, <3>2
    <3>3. CASE h = g
      <4>1. /\ t.reset = half.reset
            /\ \A o \in DOMAIN t.rows :
                 \/ o \in DOMAIN half.rows /\ t.rows[o] = half.rows[o]
                 \/ o \in Indexes /\ oid[o] # 0 /\ t.rows[o] = CurrentRow(g, o)
        BY <2>3, IndexesSampleRows
      <4>2. /\ \A o \in DOMAIN half.rows : half.rows[o].reset = half.reset
            /\ IF half.rows = Empty THEN \A i \in Indexes : oid[i] = 0
                                    ELSE half.reset = epoch[g]
        BY <1>1, <2>3, IndexesShape DEF HalfCurrent
      <4>3. \A o : CurrentRow(g, o).reset = epoch[g]
        BY DEF CurrentRow
      <4> HIDE DEF t, half
      <4>4. OneEpoch(t)
        BY <4>1, <4>2, <4>3 DEF OneEpoch
      <4> QED
        BY <3>1, <3>3, <4>4
    <3> QED
      BY <3>2, <3>3
  <2> QED
    BY <2>1, <2>2, <2>3 DEF SampleStep
<1> QED
  BY <1>2, <1>3

-----------------------------------------------------------------------------
(* The newest capture of a host. *)

\* There is at most one newest capture.
LEMMA LatestUnique ==
  ASSUME NEW h, NEW is \in SUBSET Int, NEW i \in LatestWith(h, is), NEW j \in LatestWith(h, is)
  PROVE  i = j
<1>1. i \in Int /\ j \in Int /\ i <= j /\ j <= i
  BY DEF LatestWith
<1> QED
  BY <1>1

\* What the invariant says of a newest capture.
LEMMA LatestFacts ==
  ASSUME HotTypes, WindowsMatch, AnchorsAreNewest, NEW h \in Hosts,
         NEW j \in LatestWith(h, 1 .. Len(snaps))
  PROVE  /\ j \in 1 .. Len(snaps) /\ h \in DOMAIN snaps[j].windows /\ h \in DOMAIN snaps[j].rows
         /\ AnchorsOf(h, j)
         /\ snaps[j].rows[h] \in Stored(h) /\ snaps[j].rows[h] \in Samples
         /\ \A k \in 1 .. Len(snaps) : h \in DOMAIN snaps[k].windows => k <= j
<1>1. /\ j \in 1 .. Len(snaps) /\ h \in DOMAIN snaps[j].windows
      /\ \A k \in 1 .. Len(snaps) : h \in DOMAIN snaps[k].windows => k <= j
  BY DEF LatestWith
<1>2. h \in DOMAIN snaps[j].rows
  BY <1>1 DEF WindowsMatch
<1>3. AnchorsOf(h, j)
  <2>1. PICK i \in LatestWith(h, 1 .. Len(snaps)) : AnchorsOf(h, i)
    BY <1>1, <1>2 DEF AnchorsAreNewest
  <2>2. 1 .. Len(snaps) \in SUBSET Int
    BY LenProperties DEF HotTypes, StoreTypes
  <2>3. i = j
    BY <2>2, LatestUnique
  <2> QED
    BY <2>1, <2>3
<1>4. snaps[j].rows[h] \in Stored(h)
  BY <1>1, <1>2 DEF Stored
<1> QED
  BY <1>1, <1>2, <1>3, <1>4, SamplesTyped

\* Without a capture there is no anchor.
LEMMA NoLatest ==
  ASSUME AnchorsAreNewest, NEW h \in Hosts, LatestWith(h, 1 .. Len(snaps)) = {}
  PROVE  anchors[h] = Empty
BY DEF AnchorsAreNewest

LEMMA SomeLatest ==
  ASSUME AnchorsAreNewest, NEW h \in Hosts, NEW o \in DOMAIN anchors[h]
  PROVE  \E j \in LatestWith(h, 1 .. Len(snaps)) : AnchorsOf(h, j)
<1>1. anchors[h] # Empty
  BY EmptyIsPartial
<1> QED
  BY <1>1 DEF AnchorsAreNewest

\* Storing a capture leaves the older ones and their order alone.
LEMMA LatestStore ==
  ASSUME HotTypes, NEW windows, NEW intact, Stores(windows, intact), NEW h \in Hosts
  PROVE  /\ \A k \in 0 .. Len(snaps) : LatestWith(h, 1 .. k)' = LatestWith(h, 1 .. k)
         /\ LatestWith(h, 1 .. Len(snaps))' =
              IF h \in Sampled THEN {Len(snaps) + 1} ELSE LatestWith(h, 1 .. Len(snaps))
<1> DEFINE n == Len(snaps)
<1>1. /\ n \in Nat /\ Len(snaps') = n + 1
      /\ \A i \in 1 .. n : snaps'[i] = snaps[i]
      /\ DOMAIN snaps'[n + 1].windows = Sampled
  BY DEF Stores, NewSnap
<1> HIDE DEF n
<1>2. ASSUME NEW k \in 0 .. n PROVE LatestWith(h, 1 .. k)' = LatestWith(h, 1 .. k)
  <2>1. \A i \in 1 .. k : snaps'[i] = snaps[i]
    BY <1>1
  <2> QED
    BY <2>1 DEF LatestWith
<1>3. \A i \in 1 .. n + 1 : i = n + 1 \/ (i \in 1 .. n /\ snaps'[i] = snaps[i])
  BY <1>1
<1>4. LatestWith(h, 1 .. Len(snaps))' =
        {i \in 1 .. n + 1 : /\ h \in DOMAIN snaps'[i].windows
                            /\ \A j \in 1 .. n + 1 : h \in DOMAIN snaps'[j].windows => j <= i}
  BY <1>1 DEF LatestWith
<1>5. CASE h \in Sampled
  <2>1. n + 1 \in 1 .. n + 1 /\ h \in DOMAIN snaps'[n + 1].windows
        /\ \A j \in 1 .. n + 1 : j <= n + 1 /\ (n + 1 <= j => j = n + 1)
    BY <1>1, <1>5
  <2>2. LatestWith(h, 1 .. Len(snaps))' = {n + 1}
    BY <1>4, <2>1
  <2> QED
    BY <1>2, <1>5, <2>2 DEF n
<1>6. CASE h \notin Sampled
  <2>1. h \notin DOMAIN snaps'[n + 1].windows /\ \A i \in 1 .. n : i \in 1 .. n + 1
    BY <1>1, <1>6
  <2>2. LatestWith(h, 1 .. Len(snaps))' = LatestWith(h, 1 .. n)
    <3> DEFINE has(i) == h \in DOMAIN snaps[i].windows
               hasNext(i) == h \in DOMAIN snaps'[i].windows
    <3>1. \A i \in 1 .. n + 1 : hasNext(i) <=> (i \in 1 .. n /\ has(i))
      BY <1>1, <1>3, <2>1
    <3>2. LatestWith(h, 1 .. Len(snaps))' =
            {i \in 1 .. n + 1 : hasNext(i) /\ \A j \in 1 .. n + 1 : hasNext(j) => j <= i}
      BY <1>4
    <3>3. LatestWith(h, 1 .. n) = {i \in 1 .. n : has(i) /\ \A j \in 1 .. n : has(j) => j <= i}
      BY DEF LatestWith
    <3> HIDE DEF has, hasNext
    <3> QED
      BY <2>1, <3>1, <3>2, <3>3
  <2> QED
    BY <1>2, <1>6, <2>2 DEF n
<1> QED
  BY <1>5, <1>6

-----------------------------------------------------------------------------
(* What storing a capture does to anchors and windows. *)

\* The prune keeps nothing of older captures: a sampled host is left with the
\* anchors of its sample.
LEMMA AnchorsStore ==
  ASSUME HotTypes, CapturesInOrder, WindowsMatch, AnchorsAreNewest, Store,
         NEW windows, NEW intact, Stores(windows, intact), NEW h \in Hosts
  PROVE  /\ h \notin Sampled => anchors'[h] = anchors[h]
         /\ h \in Sampled =>
              LET rows == sweep.got[h].rows IN
              /\ DOMAIN anchors'[h] = DOMAIN rows
              /\ \A o \in DOMAIN rows :
                   /\ anchors'[h][o].sig = rows[o].sig /\ anchors'[h][o].count = rows[o].count
                   /\ anchors'[h][o].reset = rows[o].reset /\ anchors'[h][o].at = sweep.at
                   /\ anchors'[h][o].quiet = IF o \in Tables /\ ~sweep.got[h].standby
                                             THEN QuietSince(h, o, intact[h]) ELSE Nil
<1>1. h \notin Sampled => anchors'[h] = anchors[h]
  BY DEF Stores
<1>2. ASSUME h \in Sampled
      PROVE  LET rows == sweep.got[h].rows IN
             /\ DOMAIN anchors'[h] = DOMAIN rows
             /\ \A o \in DOMAIN rows :
                  /\ anchors'[h][o].sig = rows[o].sig /\ anchors'[h][o].count = rows[o].count
                  /\ anchors'[h][o].reset = rows[o].reset /\ anchors'[h][o].at = sweep.at
                  /\ anchors'[h][o].quiet = IF o \in Tables /\ ~sweep.got[h].standby
                                            THEN QuietSince(h, o, intact[h]) ELSE Nil
  <2> DEFINE next == AdvanceQuiet(h, intact[h])
             old == anchors[h]
             rows == sweep.got[h].rows
  <2>1. intact[h] \in BOOLEAN /\ anchors'[h] = UpsertHotAnchors(old, next)
    BY <1>2 DEF Stores
  <2>2. sweep.at # Nil /\ sweep.at \in Nat
    BY StoreShape
  <2>3. /\ DOMAIN next = DOMAIN rows
        /\ \A o \in DOMAIN rows :
             /\ next[o].sig = rows[o].sig /\ next[o].count = rows[o].count
             /\ next[o].reset = rows[o].reset /\ next[o].at = sweep.at
             /\ next[o].quiet = IF o \in Tables /\ ~sweep.got[h].standby
                                THEN QuietSince(h, o, intact[h]) ELSE Nil
    BY <1>2, <2>1, <2>2, AdvanceQuietFields
  <2>4. ASSUME NEW p \in DOMAIN old PROVE ~(old[p].at >= sweep.at)
    <3>1. PICK j \in LatestWith(h, 1 .. Len(snaps)) : AnchorsOf(h, j)
      BY SomeLatest
    <3>2. j \in 1 .. Len(snaps) /\ old[p].at = snaps[j].at
      BY <3>1, LatestFacts DEF AnchorsOf
    <3>3. snaps[j].at \in Nat /\ snaps[j].at < sweep.at
      BY <2>2, <3>2, SnapFields DEF HotTypes, CapturesInOrder
    <3> QED
      BY <2>2, <3>2, <3>3
  <2>5. anchors'[h] = [o \in DOMAIN next |-> next[o]]
    <3> HIDE DEF old, next
    <3>1. {p \in DOMAIN old : old[p].at >= sweep.at} \cup DOMAIN next = DOMAIN next
      BY <2>4
    <3>2. anchors'[h] = [o \in {p \in DOMAIN old : old[p].at >= sweep.at} \cup DOMAIN next |->
                           IF o \in DOMAIN next THEN next[o] ELSE old[o]]
      BY <2>1 DEF UpsertHotAnchors
    <3> QED
      BY <3>1, <3>2
  <2> HIDE DEF next
  <2>6. DOMAIN anchors'[h] = DOMAIN rows /\ \A o \in DOMAIN rows : anchors'[h][o] = next[o]
    BY <2>3, <2>5
  <2> QED
    BY <2>3, <2>6
<1> QED
  BY <1>1, <1>2

\* epochIntact answers for the epochs of the last sample and this one,
\* whichever anchor it looks at.
LEMMA EpochIntactMeans ==
  ASSUME HotTypes, WindowsMatch, AnchorsAreNewest, SamplesOfOneEpoch, ~torn,
         NEW h \in Sampled, NEW b \in EpochIntact(h)
  PROVE  /\ b => \E j \in LatestWith(h, 1 .. Len(snaps)) :
                   snaps[j].rows[h].reset = sweep.got[h].reset
         /\ \A j \in LatestWith(h, 1 .. Len(snaps)) :
              snaps[j].rows[h].rows # Empty =>
                b = (snaps[j].rows[h].reset = sweep.got[h].reset)
<1>1. h \in Hosts
  BY SweepFields DEF HotTypes
<1>2. \A j \in LatestWith(h, 1 .. Len(snaps)) : \A o \in DOMAIN anchors[h] :
        anchors[h][o].reset = snaps[j].rows[h].reset
  <2> SUFFICES ASSUME NEW j \in LatestWith(h, 1 .. Len(snaps)), NEW o \in DOMAIN anchors[h]
               PROVE  anchors[h][o].reset = snaps[j].rows[h].reset
    OBVIOUS
  <2>1. AnchorsOf(h, j) /\ snaps[j].rows[h] \in Stored(h)
    BY <1>1, LatestFacts
  <2>2. OneEpoch(snaps[j].rows[h])
    BY <1>1, <2>1 DEF SamplesOfOneEpoch
  <2> QED
    BY <2>1, <2>2 DEF AnchorsOf, OneEpoch
<1>3. CASE anchors[h] = Empty
  <2>1. b = FALSE
    BY <1>3 DEF EpochIntact
  <2>2. ASSUME NEW j \in LatestWith(h, 1 .. Len(snaps)) PROVE snaps[j].rows[h].rows = Empty
    <3>1. AnchorsOf(h, j) /\ snaps[j].rows[h] \in Samples
      BY <1>1, LatestFacts
    <3>2. DOMAIN snaps[j].rows[h].rows = {} /\ snaps[j].rows[h].rows \in SampleSets
      BY <1>3, <3>1, EmptyIsPartial, SampleFields DEF AnchorsOf
    <3> QED
      BY <3>2, NoDomain DEF SampleSets
  <2> QED
    BY <2>1, <2>2
<1>4. CASE anchors[h] # Empty
  <2>1. PICK o \in DOMAIN anchors[h] : b = (anchors[h][o].reset = sweep.got[h].reset)
    BY <1>4 DEF EpochIntact, FirstAnchors
  <2>2. PICK j \in LatestWith(h, 1 .. Len(snaps)) : AnchorsOf(h, j)
    BY <1>1, SomeLatest
  <2> QED
    BY <1>2, <2>1, <2>2
<1> QED
  BY <1>3, <1>4

\* The snapshots after storing a capture: the old ones and the new.
LEMMA NewSnapFields ==
  ASSUME HotTypes, Store, NEW windows, NEW intact, Stores(windows, intact)
  PROVE  LET n == Len(snaps)
             new == snaps'[n + 1]
         IN /\ n \in Nat /\ Len(snaps') = n + 1
            /\ \A i \in 1 .. n + 1 : i = n + 1 \/ (i \in 1 .. n /\ snaps'[i] = snaps[i])
            /\ \A i \in 1 .. n : snaps'[i] = snaps[i]
            /\ new.at = sweep.at /\ new.rows = sweep.got /\ new.windows = windows
            /\ DOMAIN windows = Sampled /\ DOMAIN new.rows = Sampled
            /\ DOMAIN new.deltas = Sampled
            /\ \A h \in Sampled :
                 /\ new.deltas[h] = Deltas(h, windows[h].complete)
                 /\ windows[h].reset = sweep.got[h].reset
                 /\ windows[h].standby = sweep.got[h].standby
                 /\ windows[h].from \in From(h)
                 /\ windows[h].complete \in EpochIntact(h) /\ windows[h].complete \in BOOLEAN
                 /\ windows[h].observed \in ObservedSince(h, windows[h].complete)
                 /\ intact[h] \in EpochIntact(h) /\ intact[h] \in BOOLEAN
<1> DEFINE n == Len(snaps)
           new == snaps'[n + 1]
<1>1. /\ n \in Nat /\ Len(snaps') = n + 1
      /\ \A i \in 1 .. n : snaps'[i] = snaps[i]
      /\ new = NewSnap(windows)
      /\ windows \in [Sampled -> WindowRecords] /\ intact \in [Sampled -> BOOLEAN]
      /\ \A h \in Sampled : windows[h] \in Windows(h) /\ intact[h] \in EpochIntact(h)
  BY DEF Stores
<1>2. \A i \in 1 .. n + 1 : i = n + 1 \/ (i \in 1 .. n /\ snaps'[i] = snaps[i])
  BY <1>1
<1>3. /\ new.at = sweep.at /\ new.rows = sweep.got /\ new.windows = windows
      /\ DOMAIN windows = Sampled /\ DOMAIN new.rows = Sampled /\ DOMAIN new.deltas = Sampled
      /\ \A h \in Sampled : new.deltas[h] = Deltas(h, windows[h].complete)
  BY <1>1 DEF NewSnap, Sampled
<1>4. ASSUME NEW h \in Sampled
      PROVE  /\ windows[h].reset = sweep.got[h].reset
             /\ windows[h].standby = sweep.got[h].standby
             /\ windows[h].from \in From(h)
             /\ windows[h].complete \in EpochIntact(h) /\ windows[h].complete \in BOOLEAN
             /\ windows[h].observed \in ObservedSince(h, windows[h].complete)
             /\ intact[h] \in EpochIntact(h) /\ intact[h] \in BOOLEAN
  <2>1. sweep.at # Nil
    BY StoreShape
  <2>2. windows[h] \in WindowRecords /\ intact[h] \in BOOLEAN
    BY <1>1
  <2>3. windows[h].complete \in BOOLEAN
    BY <2>2 DEF WindowRecords
  <2> QED
    BY <1>1, <2>1, <2>2, <2>3, WindowsType
<1> HIDE DEF new
<1> QED
  BY <1>1, <1>2, <1>3, <1>4 DEF new

LEMMA WindowsMatchStore ==
  ASSUME HotTypes, WindowsMatch, Store
  PROVE  WindowsMatch'
<1>1. PICK windows, intact : Stores(windows, intact)
  BY StoreShape
<1> DEFINE n == Len(snaps)
<1>2. /\ n \in Nat /\ Len(snaps') = n + 1
      /\ \A i \in 1 .. n + 1 : i = n + 1 \/ (i \in 1 .. n /\ snaps'[i] = snaps[i])
      /\ snaps'[n + 1].rows = sweep.got /\ snaps'[n + 1].windows = windows
      /\ DOMAIN windows = Sampled
      /\ \A h \in Sampled : /\ windows[h].reset = sweep.got[h].reset
                            /\ windows[h].standby = sweep.got[h].standby
  BY <1>1, NewSnapFields
<1> HIDE DEF n
<1>3. \A i \in 1 .. n :
        /\ DOMAIN snaps[i].windows = DOMAIN snaps[i].rows
        /\ \A h \in DOMAIN snaps[i].rows :
             /\ snaps[i].windows[h].reset = snaps[i].rows[h].reset
             /\ snaps[i].windows[h].standby = snaps[i].rows[h].standby
  BY DEF WindowsMatch, n
<1>4. \A i \in 1 .. n + 1 :
        /\ DOMAIN snaps'[i].windows = DOMAIN snaps'[i].rows
        /\ \A h \in DOMAIN snaps'[i].rows :
             /\ snaps'[i].windows[h].reset = snaps'[i].rows[h].reset
             /\ snaps'[i].windows[h].standby = snaps'[i].rows[h].standby
  BY <1>2, <1>3 DEF Sampled
<1> QED
  BY <1>2, <1>4 DEF WindowsMatch

LEMMA AnchorsNewestStore ==
  ASSUME HotTypes, CapturesInOrder, WindowsMatch, AnchorsAreNewest, Store
  PROVE  AnchorsAreNewest'
<1>1. PICK windows, intact : Stores(windows, intact)
  BY StoreShape
<1> SUFFICES ASSUME NEW h \in Hosts
             PROVE  \/ anchors'[h] = Empty /\ \A i \in 1 .. Len(snaps') : h \notin DOMAIN snaps'[i].rows
                    \/ \E i \in LatestWith(h, 1 .. Len(snaps))' : AnchorsOf(h, i)'
  BY DEF AnchorsAreNewest
<1> DEFINE n == Len(snaps)
<1>2. /\ n \in Nat /\ Len(snaps') = n + 1
      /\ \A i \in 1 .. n + 1 : i = n + 1 \/ (i \in 1 .. n /\ snaps'[i] = snaps[i])
      /\ snaps'[n + 1].rows = sweep.got /\ DOMAIN snaps'[n + 1].rows = Sampled
      /\ snaps'[n + 1].at = sweep.at
  BY <1>1, NewSnapFields
<1>3. LatestWith(h, 1 .. Len(snaps))' = IF h \in Sampled THEN {n + 1} ELSE LatestWith(h, 1 .. n)
  BY <1>1, LatestStore
<1> HIDE DEF n
<1>4. CASE h \in Sampled
  <2>1. LET rows == sweep.got[h].rows IN
        /\ DOMAIN anchors'[h] = DOMAIN rows
        /\ \A o \in DOMAIN rows :
             /\ anchors'[h][o].sig = rows[o].sig /\ anchors'[h][o].count = rows[o].count
             /\ anchors'[h][o].reset = rows[o].reset /\ anchors'[h][o].at = sweep.at
    BY <1>1, <1>4, AnchorsStore
  <2>2. ASSUME NEW i, i = n + 1 PROVE AnchorsOf(h, i)'
    BY <1>2, <2>1, <2>2 DEF AnchorsOf
  <2> QED
    BY <1>3, <1>4, <2>2
<1>5. CASE h \notin Sampled
  <2>1. anchors'[h] = anchors[h]
    BY <1>1, <1>5, AnchorsStore
  <2>2. CASE anchors[h] = Empty /\ \A i \in 1 .. n : h \notin DOMAIN snaps[i].rows
    BY <1>2, <1>5, <2>1, <2>2
  <2>3. CASE \E i \in LatestWith(h, 1 .. n) : AnchorsOf(h, i)
    <3>1. PICK i \in LatestWith(h, 1 .. n) : AnchorsOf(h, i)
      BY <2>3
    <3>2. i \in 1 .. n /\ i \in 1 .. n + 1 /\ i # n + 1
      BY <1>2 DEF LatestWith
    <3>3. snaps'[i] = snaps[i]
      BY <1>2, <3>2
    <3>4. AnchorsOf(h, i)'
      BY <2>1, <3>1, <3>3 DEF AnchorsOf
    <3> QED
      BY <1>3, <1>5, <3>4
  <2> QED
    BY <2>2, <2>3 DEF AnchorsAreNewest, n
<1> QED
  BY <1>4, <1>5

-----------------------------------------------------------------------------
(* No interval lost or counted twice. *)

\* What IntervalsTile says of one host of one capture, given the capture of
\* the host before it.
FirstTile(i, h) == snaps[i].deltas[h] = Empty

Tile(i, h, j) ==
  LET w == snaps[i].windows[h]
      new == snaps[i].rows[h].rows
      deltas == snaps[i].deltas[h]
      old == snaps[j].rows[h].rows
  IN /\ old # Empty => w.from = snaps[j].at
     /\ \A o \in DOMAIN deltas : o \in DOMAIN old /\ deltas[o] = new[o].mine - old[o].mine
     /\ \A o \in DOMAIN old \cap DOMAIN new :
          (old[o].sig = new[o].sig /\ old[o].reset = new[o].reset) => o \in DOMAIN deltas

LEMMA TilesByHost ==
  IntervalsTile <=>
    (~torn => \A i \in 1 .. Len(snaps) : \A h \in DOMAIN snaps[i].windows :
                /\ Previous(i, h) = {} => FirstTile(i, h)
                /\ \A j \in Previous(i, h) : Tile(i, h, j))
BY DEF IntervalsTile, FirstTile, Tile

\* A delta of the capture under way against the sample the anchors are of.
LEMMA DeltaIsActivity ==
  ASSUME HotTypes, SamplesFollow, SamplesOfOneEpoch, WindowsMatch, AnchorsAreNewest, ~torn,
         NEW h \in Sampled, NEW j \in LatestWith(h, 1 .. Len(snaps)),
         NEW o \in DOMAIN sweep.got[h].rows
  PROVE  LET old == snaps[j].rows[h].rows
             new == sweep.got[h].rows
         IN /\ o \in DOMAIN anchors[h] <=> o \in DOMAIN old
            /\ o \in DOMAIN old =>
                 /\ old[o] \in SampleRows /\ new[o] \in SampleRows
                 /\ anchors[h][o].sig = old[o].sig /\ anchors[h][o].count = old[o].count
                 /\ old[o].reset = snaps[j].rows[h].reset /\ new[o].reset = sweep.got[h].reset
                 /\ old[o].mine <= new[o].mine
                 /\ (old[o].sig = new[o].sig /\ old[o].reset = new[o].reset) =>
                      Delta(h, o) = new[o].mine - old[o].mine /\ Comparable(h, o)
<1> DEFINE s == snaps[j].rows[h]
           t == sweep.got[h]
<1>1. h \in Hosts /\ t \in Samples /\ t.rows[o] \in SampleRows
  BY GotFields DEF HotTypes
<1>2. AnchorsOf(h, j) /\ s \in Stored(h) /\ s \in Samples
  BY <1>1, LatestFacts
<1>3. t \in InHand(h)
  BY DEF InHand, Sampled
<1>4. OneEpoch(s) /\ OneEpoch(t)
  BY <1>1, <1>2 DEF SamplesOfOneEpoch
<1>5. o \in DOMAIN anchors[h] <=> o \in DOMAIN s.rows
  BY <1>2 DEF AnchorsOf
<1>6. ASSUME o \in DOMAIN s.rows
      PROVE  /\ s.rows[o] \in SampleRows
             /\ anchors[h][o].sig = s.rows[o].sig /\ anchors[h][o].count = s.rows[o].count
             /\ s.rows[o].reset = s.reset /\ t.rows[o].reset = t.reset
             /\ RowsFollow(s.rows[o], t.rows[o])
  <2>1. anchors[h][o].sig = s.rows[o].sig /\ anchors[h][o].count = s.rows[o].count
    BY <1>2, <1>6 DEF AnchorsOf
  <2>2. RowsFollow(s.rows[o], t.rows[o])
    BY <1>1, <1>2, <1>3, <1>6 DEF SamplesFollow
  <2> QED
    BY <1>2, <1>4, <1>6, <2>1, <2>2, SampleFields DEF OneEpoch
<1>7. Delta(h, o) = t.rows[o].count - anchors[h][o].count
  BY DEF Delta
<1>8. Comparable(h, o) <=> /\ o \in DOMAIN anchors[h] /\ anchors[h][o].sig = t.rows[o].sig
                           /\ t.rows[o].count >= anchors[h][o].count
  BY DEF Comparable
<1> HIDE DEF s, t
<1>9. ASSUME o \in DOMAIN s.rows
      PROVE  /\ s.rows[o].mine <= t.rows[o].mine
             /\ (s.rows[o].sig = t.rows[o].sig /\ s.rows[o].reset = t.rows[o].reset) =>
                  Delta(h, o) = t.rows[o].mine - s.rows[o].mine /\ Comparable(h, o)
  <2> DEFINE r == s.rows[o]
             q == t.rows[o]
  <2>1. /\ r.count \in Nat /\ q.count \in Nat /\ r.mine \in Nat /\ q.mine \in Nat
    BY <1>1, <1>6, <1>9 DEF SampleRows
  <2>2. /\ r.mine <= q.mine
        /\ r.sig = q.sig /\ r.reset = q.reset => q.count - r.count = q.mine - r.mine
    BY <1>6, <1>9 DEF RowsFollow
  <2>3. anchors[h][o].count = r.count /\ anchors[h][o].sig = r.sig /\ o \in DOMAIN anchors[h]
    BY <1>5, <1>6, <1>9
  <2>4. Delta(h, o) = q.count - r.count
    BY <1>7, <2>3
  <2>5. Comparable(h, o) <=> r.sig = q.sig /\ q.count >= r.count
    BY <1>8, <2>3
  <2> HIDE DEF r, q
  <2>6. /\ r.mine <= q.mine
        /\ (r.sig = q.sig /\ r.reset = q.reset) => Delta(h, o) = q.mine - r.mine /\ Comparable(h, o)
    BY <2>1, <2>2, <2>4, <2>5
  <2> QED
    BY <2>6 DEF r, q
<1> QED
  BY <1>1, <1>5, <1>6, <1>9 DEF s, t

\* The deltas of the capture under way.
LEMMA DeltasAre ==
  ASSUME HotTypes, NEW h \in Sampled, NEW complete \in BOOLEAN
  PROVE  /\ DOMAIN Deltas(h, complete) = {p \in DOMAIN sweep.got[h].rows : complete /\ Comparable(h, p)}
         /\ \A o \in DOMAIN Deltas(h, complete) : Deltas(h, complete)[o] = Delta(h, o)
         /\ ~complete => Deltas(h, complete) = Empty
<1>1. /\ DOMAIN Deltas(h, complete) = {p \in DOMAIN sweep.got[h].rows : complete /\ Comparable(h, p)}
      /\ \A o \in DOMAIN Deltas(h, complete) : Deltas(h, complete)[o] = Delta(h, o)
  BY DEF Deltas
<1>2. ASSUME ~complete PROVE Deltas(h, complete) = Empty
  <2>1. DOMAIN Deltas(h, complete) = {} /\ Deltas(h, complete) \in PartialFcn(Objects, Nat)
    BY <1>1, <1>2, DeltasType
  <2> QED
    BY <2>1, NoDomain
<1> QED
  BY <1>1, <1>2

\* A delta is stored exactly for the relations both samples saw in one epoch.
LEMMA NewTile ==
  ASSUME HotTypes, SamplesFollow, SamplesOfOneEpoch, WindowsMatch, AnchorsAreNewest, ~torn,
         NEW h \in Sampled, NEW complete \in EpochIntact(h), complete \in BOOLEAN,
         NEW j \in LatestWith(h, 1 .. Len(snaps)), NEW from \in From(h)
  PROVE  LET new == sweep.got[h].rows
             deltas == Deltas(h, complete)
             old == snaps[j].rows[h].rows
         IN /\ old # Empty => from = snaps[j].at
            /\ \A o \in DOMAIN deltas : o \in DOMAIN old /\ deltas[o] = new[o].mine - old[o].mine
            /\ \A o \in DOMAIN old \cap DOMAIN new :
                 (old[o].sig = new[o].sig /\ old[o].reset = new[o].reset) => o \in DOMAIN deltas
<1> DEFINE new == sweep.got[h].rows
           deltas == Deltas(h, complete)
           old == snaps[j].rows[h].rows
<1>1. h \in Hosts
  BY SweepFields DEF HotTypes
<1>2. AnchorsOf(h, j) /\ snaps[j].rows[h] \in Samples
  BY <1>1, LatestFacts
<1>3. old \in SampleSets /\ DOMAIN anchors[h] = DOMAIN old
      /\ \A o \in DOMAIN anchors[h] : anchors[h][o].at = snaps[j].at
  BY <1>2, SampleFields DEF AnchorsOf
<1>4. old # Empty => DOMAIN old # {}
  BY <1>3, NoDomain DEF SampleSets
<1>5. old # Empty => from = snaps[j].at
  <2>1. ASSUME old # Empty PROVE anchors[h] # Empty
    BY <1>3, <1>4, <2>1, EmptyIsPartial
  <2> QED
    BY <1>3, <2>1 DEF From, FirstAnchors
<1>6. \A o \in DOMAIN old : old # Empty
  BY EmptyIsPartial
<1>7. /\ DOMAIN deltas = {p \in DOMAIN new : complete /\ Comparable(h, p)}
      /\ \A o \in DOMAIN deltas : deltas[o] = Delta(h, o)
  BY DeltasAre
<1>8. old # Empty => complete = (snaps[j].rows[h].reset = sweep.got[h].reset)
  BY EpochIntactMeans
<1>9. ASSUME NEW o \in DOMAIN deltas PROVE o \in DOMAIN old /\ deltas[o] = new[o].mine - old[o].mine
  <2>1. o \in DOMAIN new /\ complete /\ Comparable(h, o) /\ deltas[o] = Delta(h, o)
    BY <1>7
  <2>2. o \in DOMAIN anchors[h] /\ anchors[h][o].sig = new[o].sig
    BY <2>1 DEF Comparable
  <2>3. o \in DOMAIN old
    BY <1>3, <2>2
  <2>4. snaps[j].rows[h].reset = sweep.got[h].reset
    BY <1>6, <1>8, <2>1, <2>3
  <2>5. /\ anchors[h][o].sig = old[o].sig
        /\ old[o].reset = snaps[j].rows[h].reset /\ new[o].reset = sweep.got[h].reset
        /\ (old[o].sig = new[o].sig /\ old[o].reset = new[o].reset) =>
             Delta(h, o) = new[o].mine - old[o].mine
    BY <2>1, <2>3, DeltaIsActivity
  <2> QED
    BY <2>1, <2>2, <2>3, <2>4, <2>5
<1>10. ASSUME NEW o \in DOMAIN old \cap DOMAIN new,
              old[o].sig = new[o].sig, old[o].reset = new[o].reset
       PROVE  o \in DOMAIN deltas
  <2>1. /\ old[o].reset = snaps[j].rows[h].reset /\ new[o].reset = sweep.got[h].reset
        /\ (old[o].sig = new[o].sig /\ old[o].reset = new[o].reset) => Comparable(h, o)
    BY DeltaIsActivity
  <2>2. complete /\ Comparable(h, o)
    BY <1>6, <1>8, <1>10, <2>1
  <2> QED
    BY <1>7, <2>2
<1> HIDE DEF new, deltas, old
<1>11. /\ old # Empty => from = snaps[j].at
       /\ \A o \in DOMAIN deltas : o \in DOMAIN old /\ deltas[o] = new[o].mine - old[o].mine
       /\ \A o \in DOMAIN old \cap DOMAIN new :
            (old[o].sig = new[o].sig /\ old[o].reset = new[o].reset) => o \in DOMAIN deltas
  BY <1>5, <1>9, <1>10
<1> QED
  BY <1>11 DEF new, deltas, old

LEMMA TileStore ==
  ASSUME HotTypes, SamplesFollow, SamplesOfOneEpoch, WindowsMatch, AnchorsAreNewest,
         IntervalsTile, Store
  PROVE  IntervalsTile'
<1>1. PICK windows, intact : Stores(windows, intact)
  BY StoreShape
<1> DEFINE n == Len(snaps)
<1>2. /\ n \in Nat /\ Len(snaps') = n + 1
      /\ \A i \in 1 .. n + 1 : i = n + 1 \/ (i \in 1 .. n /\ snaps'[i] = snaps[i])
      /\ \A i \in 1 .. n : snaps'[i] = snaps[i]
      /\ snaps'[n + 1].rows = sweep.got /\ snaps'[n + 1].windows = windows
      /\ DOMAIN windows = Sampled
      /\ \A h \in Sampled :
           /\ snaps'[n + 1].deltas[h] = Deltas(h, windows[h].complete)
           /\ windows[h].from \in From(h)
           /\ windows[h].complete \in EpochIntact(h) /\ windows[h].complete \in BOOLEAN
  BY <1>1, NewSnapFields
<1>3. \A h \in Hosts : \A k \in 0 .. n : LatestWith(h, 1 .. k)' = LatestWith(h, 1 .. k)
  BY <1>1, LatestStore
<1>4. torn' = torn
  BY StoreShape DEF servers
<1>5. ASSUME ~torn, NEW i \in 1 .. n + 1, NEW h \in DOMAIN snaps'[i].windows
      PROVE  /\ Previous(i, h)' = {} => FirstTile(i, h)'
             /\ \A j \in Previous(i, h)' : Tile(i, h, j)'
  <2>1. h \in Hosts
    <3>1. Sampled \subseteq Hosts
      BY SweepFields DEF HotTypes
    <3>2. \A k \in 1 .. n : DOMAIN snaps[k].windows \subseteq Hosts
      BY SnapFields DEF HotTypes
    <3> QED
      BY <1>2, <1>5, <3>1, <3>2
  <2>2. Previous(i, h)' = Previous(i, h)
    <3>1. i - 1 \in 0 .. n
      BY <1>2
    <3>2. LatestWith(h, 1 .. (i - 1))' = LatestWith(h, 1 .. (i - 1))
      BY <1>3, <2>1, <3>1
    <3> QED
      BY <3>2 DEF Previous
  <2>3. \A j \in Previous(i, h) : j \in 1 .. n /\ snaps'[j] = snaps[j]
    BY <1>2 DEF Previous, LatestWith
  <2> HIDE DEF n
  <2>4. CASE i \in 1 .. n /\ snaps'[i] = snaps[i]
    <3>1. /\ Previous(i, h) = {} => FirstTile(i, h)
          /\ \A j \in Previous(i, h) : Tile(i, h, j)
      BY <1>5, <2>4, TilesByHost DEF n
    <3> QED
      BY <2>2, <2>3, <2>4, <3>1 DEF FirstTile, Tile
  <2>5. CASE i = n + 1
    <3>1. h \in Sampled
      BY <1>2, <1>5, <2>5
    <3>2. Previous(i, h) = LatestWith(h, 1 .. n)
      <4>1. i - 1 = n
        BY <1>2, <2>5
      <4> QED
        BY <4>1 DEF Previous
    <3>3. ASSUME Previous(i, h) = {} PROVE FirstTile(i, h)'
      <4>1. anchors[h] = Empty
        BY <2>1, <3>2, <3>3, NoLatest DEF n
      <4>2. windows[h].complete = FALSE
        BY <1>2, <3>1, <4>1 DEF EpochIntact
      <4>3. Deltas(h, windows[h].complete) = Empty
        BY <1>2, <3>1, <4>2, DeltasAre
      <4> QED
        BY <1>2, <2>5, <3>1, <4>3 DEF FirstTile
    <3>4. ASSUME NEW j \in Previous(i, h) PROVE Tile(i, h, j)'
      <4> DEFINE new == sweep.got[h].rows
                 deltas == Deltas(h, windows[h].complete)
                 old == snaps[j].rows[h].rows
      <4>1. /\ old # Empty => windows[h].from = snaps[j].at
            /\ \A o \in DOMAIN deltas : o \in DOMAIN old /\ deltas[o] = new[o].mine - old[o].mine
            /\ \A o \in DOMAIN old \cap DOMAIN new :
                 (old[o].sig = new[o].sig /\ old[o].reset = new[o].reset) => o \in DOMAIN deltas
        BY <1>2, <1>5, <3>1, <3>2, <3>4, NewTile DEF n
      <4>2. /\ snaps'[i].windows[h] = windows[h] /\ snaps'[i].rows[h].rows = new
            /\ snaps'[i].deltas[h] = deltas /\ snaps'[j] = snaps[j]
        BY <1>2, <2>3, <2>5, <3>1, <3>4
      <4> HIDE DEF new, deltas
      <4> QED
        BY <4>1, <4>2 DEF Tile
    <3> QED
      BY <2>2, <3>3, <3>4
  <2> QED
    BY <1>2, <2>4, <2>5
<1>6. ~torn' => \A i \in 1 .. Len(snaps') : \A h \in DOMAIN snaps'[i].windows :
                  /\ Previous(i, h)' = {} => FirstTile(i, h)'
                  /\ \A j \in Previous(i, h)' : Tile(i, h, j)'
  BY <1>2, <1>4, <1>5
<1> QED
  BY <1>6 DEF IntervalsTile, FirstTile, Tile

-----------------------------------------------------------------------------
(* The observation. *)

\* What ObservationUnbroken says of one host of one capture.
Observed(i, h) ==
  LET w == snaps[i].windows[h]
      since == {j \in 1 .. i : h \in DOMAIN snaps[j].windows /\ snaps[j].at >= w.observed}
  IN w.observed # Nil =>
       /\ \E j \in since : snaps[j].at = w.observed
       /\ \A j \in since : LET v == snaps[j].windows[h]
                           IN v.observed = w.observed /\ v.reset = w.reset /\ ~v.standby

\* The window the last capture of a host left is that of its newest capture.
LEMMA PrevWindowIsLatest ==
  ASSUME HotTypes, CapturesInOrder, sweep.at \in Nat, NEW h \in Hosts, NEW v \in PrevWindow(h)
  PROVE  \E i \in LatestWith(h, 1 .. Len(snaps)) : v = snaps[i].windows[h]
<1> DEFINE n == Len(snaps)
           cut == sweep.at - HotRetention
           is == {i \in Kept : h \in DOMAIN snaps[i].windows /\ snaps[i].at >= cut}
<1>1. PICK i \in is : v = snaps[i].windows[h] /\ \A k \in is : k <= i
  BY DEF PrevWindow
<1>2. n \in Nat /\ dropped \in Nat /\ Kept = dropped + 1 .. n /\ cut \in Int
  BY LenProperties, HotConfigOK DEF HotTypes, StoreTypes, Kept
<1>3. \A k \in 1 .. n : snaps[k].at \in Nat
  BY SnapFields DEF HotTypes
<1>4. \A k, j \in 1 .. n : k < j => snaps[k].at < snaps[j].at
  BY DEF CapturesInOrder
<1>5. i \in Kept /\ i \in 1 .. n /\ h \in DOMAIN snaps[i].windows /\ snaps[i].at >= cut
  BY <1>2
<1> HIDE DEF n, cut
<1>6. ASSUME NEW j \in 1 .. n, h \in DOMAIN snaps[j].windows PROVE j <= i
  <2> SUFFICES ASSUME i < j PROVE FALSE
    BY <1>2, <1>5
  <2>1. j \in Kept
    BY <1>2, <1>5
  <2>2. snaps[j].at >= cut
    BY <1>2, <1>3, <1>4, <1>5
  <2>3. j \in is
    BY <1>6, <2>1, <2>2
  <2> QED
    BY <1>1, <1>2, <1>5, <2>3
<1>7. i \in LatestWith(h, 1 .. n)
  BY <1>5, <1>6 DEF LatestWith
<1> QED
  BY <1>1, <1>7 DEF n

LEMMA ObservedStore ==
  ASSUME HotTypes, CapturesInOrder, SamplesOfOneEpoch, WindowsMatch, AnchorsAreNewest,
         ObservationUnbroken, Store
  PROVE  ObservationUnbroken'
<1>1. PICK windows, intact : Stores(windows, intact)
  BY StoreShape
<1> DEFINE n == Len(snaps)
<1>2. /\ n \in Nat /\ Len(snaps') = n + 1
      /\ \A i \in 1 .. n + 1 : i = n + 1 \/ (i \in 1 .. n /\ snaps'[i] = snaps[i])
      /\ \A i \in 1 .. n : snaps'[i] = snaps[i]
      /\ snaps'[n + 1].at = sweep.at /\ snaps'[n + 1].windows = windows
      /\ DOMAIN windows = Sampled
      /\ \A h \in Sampled :
           /\ windows[h].reset = sweep.got[h].reset
           /\ windows[h].standby = sweep.got[h].standby
           /\ windows[h].complete \in EpochIntact(h) /\ windows[h].complete \in BOOLEAN
           /\ windows[h].observed \in ObservedSince(h, windows[h].complete)
  BY <1>1, NewSnapFields
<1>3. torn' = torn /\ sweep.at \in Nat /\ sweep.at # Nil
  BY StoreShape DEF servers
<1>4. \A k \in 1 .. n : snaps[k].at \in Nat /\ snaps[k].at < sweep.at
  BY <1>3, SnapFields DEF HotTypes, CapturesInOrder
<1>5. ASSUME ~torn, NEW i \in 1 .. n + 1, NEW h \in DOMAIN snaps'[i].windows
      PROVE  Observed(i, h)'
  <2>1. CASE i \in 1 .. n /\ snaps'[i] = snaps[i]
    <3>1. Observed(i, h)
      BY <1>5, <2>1 DEF ObservationUnbroken, Observed
    <3>2. \A j \in 1 .. i : snaps'[j] = snaps[j]
      BY <1>2, <2>1
    <3> HIDE DEF n
    <3> QED
      BY <2>1, <3>1, <3>2 DEF Observed
  <2>2. CASE i = n + 1
    <3> DEFINE w == windows[h]
               q == w.observed
               since == {j \in 1 .. n + 1 : h \in DOMAIN snaps'[j].windows /\ snaps'[j].at >= q}
    <3>1. /\ h \in Sampled /\ h \in Hosts
          /\ snaps'[i].windows[h] = w /\ snaps'[i].at = sweep.at /\ h \in DOMAIN snaps'[n + 1].windows
      BY <1>2, <1>5, <2>2, SweepFields DEF HotTypes
    <3>2. SUFFICES ASSUME q # Nil
                   PROVE  /\ \E j \in since : snaps'[j].at = q
                          /\ \A j \in since : /\ snaps'[j].windows[h].observed = q
                                              /\ snaps'[j].windows[h].reset = w.reset
                                              /\ ~snaps'[j].windows[h].standby
      BY <2>2, <3>1 DEF Observed
    <3>3. ~w.standby /\ w.standby = sweep.got[h].standby /\ w.reset = sweep.got[h].reset
      BY <1>2, <3>1, <3>2 DEF ObservedSince
    <3>4. CASE q = sweep.at
      <4>1. \A j \in since : j = n + 1
        BY <1>2, <1>3, <1>4, <3>4
      <4>2. n + 1 \in since
        BY <1>2, <1>3, <3>1, <3>4
      <4> QED
        BY <1>2, <3>1, <3>3, <3>4, <4>1, <4>2
    <3>5. CASE q # sweep.at
      <4>1. w.complete /\ \E v \in PrevWindow(h) : q = v.observed
        BY <1>2, <3>1, <3>2, <3>5 DEF ObservedSince
      <4>2. PICK v \in PrevWindow(h) : q = v.observed
        BY <4>1
      <4>3. PICK k \in LatestWith(h, 1 .. n) : v = snaps[k].windows[h]
        BY <1>3, <3>1, PrevWindowIsLatest
      <4>4. /\ k \in 1 .. n /\ h \in DOMAIN snaps[k].windows /\ h \in DOMAIN snaps[k].rows
            /\ \A j \in 1 .. n : h \in DOMAIN snaps[j].windows => j <= k
        BY <3>1, LatestFacts
      <4>5. snaps[k].windows[h].reset = w.reset
        <5>1. PICK j \in LatestWith(h, 1 .. n) : snaps[j].rows[h].reset = sweep.got[h].reset
          BY <1>2, <1>5, <3>1, <4>1, EpochIntactMeans
        <5>2. 1 .. n \in SUBSET Int
          BY <1>2
        <5>3. j = k
          BY <5>2, LatestUnique
        <5> QED
          BY <3>3, <4>4, <5>1, <5>3 DEF WindowsMatch
      <4>6. Observed(k, h)
        BY <1>5, <4>4 DEF ObservationUnbroken, Observed
      <4> DEFINE before == {j \in 1 .. k : h \in DOMAIN snaps[j].windows /\ snaps[j].at >= q}
      <4>7. /\ \E j \in before : snaps[j].at = q
            /\ \A j \in before : /\ snaps[j].windows[h].observed = q
                                 /\ snaps[j].windows[h].reset = w.reset
                                 /\ ~snaps[j].windows[h].standby
        BY <3>2, <4>2, <4>3, <4>5, <4>6 DEF Observed
      <4>8. \A j \in before : j \in since /\ snaps'[j] = snaps[j]
        BY <1>2, <4>4
      <4>9. \A j \in since : j = n + 1 \/ (j \in before /\ snaps'[j] = snaps[j])
        BY <1>2, <4>4
      <4> HIDE DEF since, before
      <4> QED
        BY <1>2, <2>2, <3>1, <3>3, <4>7, <4>8, <4>9
    <3> QED
      BY <3>4, <3>5
  <2> QED
    BY <1>2, <2>1, <2>2
<1>6. ~torn' => \A i \in 1 .. Len(snaps') : \A h \in DOMAIN snaps'[i].windows : Observed(i, h)'
  BY <1>2, <1>3, <1>5
<1> QED
  BY <1>6 DEF ObservationUnbroken, Observed

-----------------------------------------------------------------------------
(* Quiet tables. *)

\* The row old of the table o of h is of the same relation and epoch as new,
\* with no write between them.
SameQuiet(old, new) ==
  /\ old.sig = new.sig /\ old.reset = new.reset /\ old.mine = new.mine
  /\ old.term = new.term => old.all = new.all

\* What QuietBacked says of the table o of h, its newest capture being j and
\* its quiet time q.
Backed(h, o, j, q) ==
  LET since == {i \in 1 .. j : h \in DOMAIN snaps[i].windows /\ snaps[i].at >= q}
  IN /\ \E i \in since : snaps[i].at = q
     /\ \A i \in since :
          /\ ~snaps[i].windows[h].standby
          /\ o \in DOMAIN snaps[i].rows[h].rows
          /\ SameQuiet(snaps[i].rows[h].rows[o], snaps[j].rows[h].rows[o])

LEMMA QuietByTable ==
  QuietBacked <=>
    (~torn => \A h \in Hosts : \A o \in DOMAIN anchors[h] : anchors[h][o].quiet # Nil =>
                /\ o \in Tables
                /\ \A j \in LatestWith(h, 1 .. Len(snaps)) : Backed(h, o, j, anchors[h][o].quiet))
BY DEF QuietBacked, Backed, SameQuiet

\* A quiet table carried over: the rows of the captures since are those of the
\* new sample.
LEMMA QuietCarried ==
  ASSUME HotTypes, SamplesPast, SamplesFollow, SamplesOfOneEpoch, WindowsMatch,
         AnchorsAreNewest, QuietBacked, ~torn,
         NEW h \in Sampled, NEW o \in DOMAIN sweep.got[h].rows, ~sweep.got[h].standby,
         NEW b \in EpochIntact(h), b,
         o \in DOMAIN anchors[h], anchors[h][o].quiet # Nil, Comparable(h, o), Delta(h, o) = 0,
         NEW j \in LatestWith(h, 1 .. Len(snaps)), NEW i \in 1 .. j,
         h \in DOMAIN snaps[i].windows, snaps[i].at >= anchors[h][o].quiet
  PROVE  /\ ~snaps[i].windows[h].standby
         /\ o \in DOMAIN snaps[i].rows[h].rows
         /\ SameQuiet(snaps[i].rows[h].rows[o], sweep.got[h].rows[o])
<1> DEFINE old == snaps[i].rows[h].rows[o]
           mid == snaps[j].rows[h].rows[o]
           new == sweep.got[h].rows[o]
<1>1. h \in Hosts /\ sweep.got[h] \in Samples /\ sweep.got[h] \in InHand(h) /\ o \in Objects
      /\ new \in SampleRows
  BY GotFields DEF HotTypes, InHand, Sampled
<1>2. j \in 1 .. Len(snaps) /\ i \in 1 .. Len(snaps) /\ AnchorsOf(h, j)
  <2>1. j \in 1 .. Len(snaps) /\ AnchorsOf(h, j)
    BY <1>1, LatestFacts
  <2> QED
    BY <2>1, LenProperties DEF HotTypes, StoreTypes
<1>3. o \in Tables /\ Backed(h, o, j, anchors[h][o].quiet)
  BY <1>1, QuietByTable
<1>4. ~snaps[i].windows[h].standby /\ o \in DOMAIN snaps[i].rows[h].rows /\ SameQuiet(old, mid)
  BY <1>3 DEF Backed
<1>5. h \in DOMAIN snaps[i].rows /\ ~snaps[i].rows[h].standby
  BY <1>2, <1>4 DEF WindowsMatch
<1>6. snaps[i].rows[h] \in Stored(h) /\ snaps[i].rows[h] \in Samples
  <2>1. snaps[i].rows[h] \in Stored(h)
    BY <1>2, <1>5 DEF Stored
  <2> QED
    BY <1>1, <2>1, SamplesTyped
<1>7. old \in SampleRows
  BY <1>4, <1>6, SampleFields
<1>8. mid.sig = new.sig /\ mid.reset = new.reset /\ mid.mine = new.mine
  <2>1. o \in DOMAIN snaps[j].rows[h].rows
    BY <1>2 DEF AnchorsOf
  <2>2. snaps[j].rows[h].rows # Empty
    BY <2>1, EmptyIsPartial
  <2>3. snaps[j].rows[h].reset = sweep.got[h].reset
    BY <2>2, EpochIntactMeans
  <2>4. /\ mid \in SampleRows /\ anchors[h][o].sig = mid.sig
        /\ mid.reset = snaps[j].rows[h].reset /\ new.reset = sweep.got[h].reset
        /\ (mid.sig = new.sig /\ mid.reset = new.reset) => Delta(h, o) = new.mine - mid.mine
    BY <2>1, DeltaIsActivity
  <2>5. mid.sig = new.sig /\ mid.reset = new.reset
    BY <2>3, <2>4 DEF Comparable
  <2>6. mid.mine \in Nat /\ new.mine \in Nat
    BY <1>1, <2>4 DEF SampleRows
  <2> HIDE DEF mid, new
  <2> QED
    BY <2>4, <2>5, <2>6
<1>9. PrimaryFollows(old, new, h)
  BY <1>1, <1>3, <1>4, <1>5, <1>6 DEF SamplesFollow
<1>10. old.all[h] = old.mine /\ new.all[h] = new.mine
  <2>1. RowPast(old, h, o)
    BY <1>1, <1>4, <1>6 DEF SamplesPast
  <2>2. RowPast(new, h, o)
    BY <1>1 DEF SamplesPast
  <2> QED
    BY <2>1, <2>2 DEF RowPast
<1> HIDE DEF old, mid, new
<1>11. old.all \in [Hosts -> Nat] /\ new.all \in [Hosts -> Nat]
  BY <1>1, <1>7 DEF SampleRows
<1>12. old.sig = new.sig /\ old.reset = new.reset /\ old.mine = new.mine
  BY <1>4, <1>8 DEF SameQuiet
<1>13. ASSUME old.term = new.term PROVE old.all = new.all
  <2>1. \A g \in Hosts : old.all[g] = new.all[g]
    BY <1>9, <1>10, <1>12, <1>13 DEF PrimaryFollows
  <2> QED
    BY <1>11, <2>1
<1>14. SameQuiet(old, new)
  BY <1>12, <1>13 DEF SameQuiet
<1> QED
  BY <1>4, <1>14 DEF old, new

LEMMA QuietStore ==
  ASSUME HotTypes, CapturesInOrder, SamplesPast, SamplesFollow, SamplesOfOneEpoch, WindowsMatch,
         AnchorsAreNewest, QuietBacked, Store
  PROVE  QuietBacked'
<1>1. PICK windows, intact : Stores(windows, intact)
  BY StoreShape
<1> DEFINE n == Len(snaps)
<1>2. /\ n \in Nat /\ Len(snaps') = n + 1
      /\ \A i \in 1 .. n + 1 : i = n + 1 \/ (i \in 1 .. n /\ snaps'[i] = snaps[i])
      /\ \A i \in 1 .. n : snaps'[i] = snaps[i]
      /\ snaps'[n + 1].at = sweep.at /\ snaps'[n + 1].windows = windows
      /\ snaps'[n + 1].rows = sweep.got /\ DOMAIN windows = Sampled
      /\ \A h \in Sampled :
           /\ windows[h].standby = sweep.got[h].standby
           /\ intact[h] \in EpochIntact(h) /\ intact[h] \in BOOLEAN
  BY <1>1, NewSnapFields
<1>3. torn' = torn /\ sweep.at \in Nat /\ sweep.at # Nil
  BY StoreShape DEF servers
<1>4. \A k \in 1 .. n : snaps[k].at \in Nat /\ snaps[k].at < sweep.at
  BY <1>3, SnapFields DEF HotTypes, CapturesInOrder
<1>5. ASSUME ~torn, NEW h \in Hosts, NEW o \in DOMAIN anchors'[h], anchors'[h][o].quiet # Nil,
             NEW j \in LatestWith(h, 1 .. Len(snaps))', NEW q, q = anchors'[h][o].quiet
      PROVE  o \in Tables /\ Backed(h, o, j, q)'
  <2>1. CASE h \notin Sampled
    <3>1. anchors'[h] = anchors[h] /\ j \in LatestWith(h, 1 .. n)
      BY <1>1, <1>5, <2>1, AnchorsStore, LatestStore
    <3>2. o \in Tables /\ Backed(h, o, j, q)
      BY <1>5, <3>1, QuietByTable
    <3>3. j \in 1 .. n
      BY <3>1 DEF LatestWith
    <3>4. \A i \in 1 .. j : snaps'[i] = snaps[i] /\ snaps'[j] = snaps[j]
      BY <1>2, <3>3
    <3> HIDE DEF n
    <3> QED
      BY <3>2, <3>4 DEF Backed
  <2>2. CASE h \in Sampled
    <3>1. j = n + 1
      BY <1>1, <1>5, <2>2, LatestStore
    <3>2. /\ o \in DOMAIN sweep.got[h].rows
          /\ q = IF o \in Tables /\ ~sweep.got[h].standby THEN QuietSince(h, o, intact[h]) ELSE Nil
      BY <1>1, <1>5, <2>2, AnchorsStore
    <3>3. o \in Tables /\ ~sweep.got[h].standby /\ q = QuietSince(h, o, intact[h])
      BY <1>5, <3>2
    <3> DEFINE since == {i \in 1 .. n + 1 : h \in DOMAIN snaps'[i].windows /\ snaps'[i].at >= q}
               new == sweep.got[h].rows[o]
               good(i) == /\ ~snaps'[i].windows[h].standby
                          /\ o \in DOMAIN snaps'[i].rows[h].rows
                          /\ SameQuiet(snaps'[i].rows[h].rows[o], new)
    <3>4. SUFFICES (\E i \in since : snaps'[i].at = q) /\ (\A i \in since : good(i))
      BY <1>2, <3>1, <3>3 DEF Backed
    <3>5. good(n + 1)
      BY <1>2, <2>2, <3>2, <3>3 DEF SameQuiet
    <3> HIDE DEF good
    <3>6. CASE q = sweep.at
      <4>1. \A i \in since : i = n + 1
        BY <1>2, <1>3, <1>4, <3>6
      <4>2. n + 1 \in since
        BY <1>2, <1>3, <2>2, <3>6
      <4> QED
        BY <1>2, <3>5, <3>6, <4>1, <4>2
    <3>7. CASE q # sweep.at
      <4>1. /\ o \in DOMAIN anchors[h] /\ anchors[h][o].quiet # Nil /\ intact[h]
            /\ Comparable(h, o) /\ Delta(h, o) = 0 /\ q = anchors[h][o].quiet
        BY <3>3, <3>7 DEF QuietSince
      <4>2. PICK k \in LatestWith(h, 1 .. n) : AnchorsOf(h, k)
        BY <4>1, SomeLatest
      <4>3. k \in 1 .. n /\ \A i \in 1 .. n : h \in DOMAIN snaps[i].windows => i <= k
        BY <4>2, LatestFacts
      <4>4. \E i \in 1 .. k : h \in DOMAIN snaps[i].windows /\ snaps[i].at = q
        <5>1. Backed(h, o, k, q)
          BY <1>5, <4>1, QuietByTable
        <5> QED
          BY <5>1 DEF Backed
      <4>5. \E i \in since : snaps'[i].at = q
        <5>1. PICK i \in 1 .. k : h \in DOMAIN snaps[i].windows /\ snaps[i].at = q
          BY <4>4
        <5>2. i \in 1 .. n /\ i \in 1 .. n + 1 /\ snaps'[i] = snaps[i] /\ snaps[i].at \in Nat
          BY <1>2, <1>4, <4>3
        <5>3. snaps'[i].at >= q
          BY <5>1, <5>2
        <5> QED
          BY <5>1, <5>2, <5>3
      <4>6. ASSUME NEW i \in since PROVE good(i)
        <5>1. CASE i = n + 1
          BY <3>5, <5>1
        <5>2. CASE i # n + 1
          <6>1. /\ i \in 1 .. n /\ snaps'[i] = snaps[i] /\ h \in DOMAIN snaps[i].windows
                /\ snaps[i].at >= anchors[h][o].quiet
            BY <1>2, <4>1, <5>2
          <6>2. i \in 1 .. k
            BY <1>2, <4>3, <6>1
          <6>3. /\ ~snaps[i].windows[h].standby
                /\ o \in DOMAIN snaps[i].rows[h].rows
                /\ SameQuiet(snaps[i].rows[h].rows[o], sweep.got[h].rows[o])
            BY <1>2, <1>5, <2>2, <3>2, <3>3, <4>1, <6>1, <6>2, QuietCarried
          <6> QED
            BY <6>1, <6>3 DEF good
        <5> QED
          BY <5>1, <5>2
      <4> HIDE DEF since
      <4> QED
        BY <4>5, <4>6
    <3> QED
      BY <3>6, <3>7
  <2> QED
    BY <2>1, <2>2
<1>6. ASSUME ~torn, NEW h \in Hosts, NEW o \in DOMAIN anchors'[h], anchors'[h][o].quiet # Nil
      PROVE  /\ o \in Tables
             /\ \A j \in LatestWith(h, 1 .. Len(snaps))' : Backed(h, o, j, anchors[h][o].quiet)'
  <2>1. PICK q : q = anchors'[h][o].quiet
    OBVIOUS
  <2>2. \A j \in LatestWith(h, 1 .. Len(snaps))' : Backed(h, o, j, anchors[h][o].quiet)'
    BY <1>5, <1>6, <2>1 DEF Backed
  <2>3. PICK i \in LatestWith(h, 1 .. Len(snaps))' : TRUE
    <3>1. AnchorsAreNewest'
      BY AnchorsNewestStore
    <3>2. anchors'[h] # Empty
      BY <1>6, EmptyIsPartial
    <3> QED
      BY <3>1, <3>2 DEF AnchorsAreNewest
  <2>4. o \in Tables
    BY <1>5, <1>6, <2>1, <2>3
  <2> QED
    BY <2>2, <2>4
<1> QED
  BY <1>3, <1>6 DEF QuietBacked, Backed, SameQuiet

-----------------------------------------------------------------------------
(* The invariant, and what it gives. *)

\* The parts of the invariant about the sweep, and those about the tables.
SampleParts == CatalogSound /\ HalfCurrent /\ SamplesPast /\ SamplesFollow /\ SamplesOfOneEpoch

StoreParts ==
  WindowsMatch /\ AnchorsAreNewest /\ IntervalsTile /\ ObservationUnbroken /\ QuietBacked

LEMMA PartsInit ==
  ASSUME Init
  PROVE  SampleParts /\ StoreParts
<1>1. /\ DOMAIN sweep.half = {} /\ DOMAIN sweep.got = {} /\ Len(snaps) = 0
      /\ oid = [o \in Objects |-> 1] /\ ddl = 1 /\ anchors = [h \in Hosts |-> Empty]
      /\ DOMAIN Empty = {}
  BY EmptyIsPartial DEF Init, NoSweep
<1>2. \A h : InHand(h) = {} /\ Stored(h) = {}
  BY <1>1 DEF InHand, Stored
<1>3. CatalogSound
  BY <1>1, HotConfigOK DEF CatalogSound, Objects
<1>4. HalfCurrent
  BY <1>1 DEF HalfCurrent
<1>5. SamplesPast /\ SamplesFollow
  BY <1>2 DEF SamplesPast, SamplesFollow
<1>6. SamplesOfOneEpoch
  BY <1>1, <1>2 DEF SamplesOfOneEpoch, Sampled
<1>7. WindowsMatch /\ AnchorsAreNewest
  BY <1>1 DEF WindowsMatch, AnchorsAreNewest
<1>8. IntervalsTile /\ ObservationUnbroken
  BY <1>1 DEF IntervalsTile, ObservationUnbroken
<1>9. QuietBacked
  BY <1>1 DEF QuietBacked
<1> QED
  BY <1>3, <1>4, <1>5, <1>6, <1>7, <1>8, <1>9 DEF SampleParts, StoreParts

LEMMA PartsStep ==
  ASSUME HotTypes, CapturesInOrder, SampleParts, StoreParts, [Next]_vars
  PROVE  SampleParts' /\ StoreParts'
<1>1. SampleParts'
  BY CatalogStepAll, HalfCurrentStep, SamplesPastStep, SamplesFollowStep, OneEpochStep
     DEF SampleParts
<1>2. CASE Store
  BY <1>1, <1>2, WindowsMatchStore, AnchorsNewestStore, TileStore, ObservedStore, QuietStore
     DEF SampleParts, StoreParts
<1>3. CASE ~Store
  <2>1. UNCHANGED <<anchors, snaps>> /\ (torn => torn')
    BY <1>3, StoredStep, TornStays
  <2>2. WindowsMatch'
    BY <2>1 DEF StoreParts, WindowsMatch
  <2>3. AnchorsAreNewest'
    BY <2>1 DEF StoreParts, AnchorsAreNewest, AnchorsOf, LatestWith
  <2>4. IntervalsTile'
    BY <2>1 DEF StoreParts, IntervalsTile, Previous, LatestWith
  <2>5. ObservationUnbroken'
    BY <2>1 DEF StoreParts, ObservationUnbroken
  <2>6. QuietBacked'
    BY <2>1 DEF StoreParts, QuietBacked, LatestWith
  <2> QED
    BY <1>1, <2>2, <2>3, <2>4, <2>5, <2>6 DEF StoreParts
<1> QED
  BY <1>2, <1>3

LEMMA InvUniform ==
  HotTypes /\ TypeOK /\ SampleParts /\ StoreParts => AnchorsUniform
<1> SUFFICES ASSUME HotTypes, TypeOK, SampleParts, StoreParts,
                    NEW h \in Hosts, NEW o \in DOMAIN anchors[h]
             PROVE  \E i \in LatestWith(h, 1 .. Len(snaps)) :
                      /\ anchors[h][o].at = snaps[i].at
                      /\ ~torn => anchors[h][o].reset = snaps[i].rows[h].reset
  BY DEF AnchorsUniform
<1>1. WindowsMatch /\ AnchorsAreNewest /\ SamplesOfOneEpoch
  BY DEF SampleParts, StoreParts
<1>2. PICK i \in LatestWith(h, 1 .. Len(snaps)) : AnchorsOf(h, i)
  BY <1>1, SomeLatest
<1>3. /\ anchors[h][o].at = snaps[i].at /\ o \in DOMAIN snaps[i].rows[h].rows
      /\ anchors[h][o].reset = snaps[i].rows[h].rows[o].reset
  BY <1>2 DEF AnchorsOf
<1>4. snaps[i].rows[h] \in Stored(h)
  BY <1>1, LatestFacts
<1>5. ~torn => OneEpoch(snaps[i].rows[h])
  BY <1>1, <1>4 DEF SamplesOfOneEpoch
<1> QED
  BY <1>3, <1>5 DEF OneEpoch

LEMMA InvQuiet ==
  HotTypes /\ StoreParts => QuietConfirmed
<1> SUFFICES ASSUME HotTypes, StoreParts, ~torn,
                    NEW h \in Hosts, NEW o \in DOMAIN anchors[h], anchors[h][o].quiet # Nil
             PROVE  \E i \in 1 .. Len(snaps), j \in LatestWith(h, 1 .. Len(snaps)) :
                      /\ snaps[i].at = anchors[h][o].quiet
                      /\ h \in DOMAIN snaps[i].rows
                      /\ o \in DOMAIN snaps[i].rows[h].rows
                      /\ snaps[i].rows[h].rows[o].mine = snaps[j].rows[h].rows[o].mine
                      /\ snaps[i].rows[h].rows[o].sig = snaps[j].rows[h].rows[o].sig
  BY DEF QuietConfirmed
<1>1. WindowsMatch /\ AnchorsAreNewest /\ QuietBacked
  BY DEF StoreParts
<1>2. PICK j \in LatestWith(h, 1 .. Len(snaps)) : AnchorsOf(h, j)
  BY <1>1, SomeLatest
<1>3. Backed(h, o, j, anchors[h][o].quiet)
  BY <1>1, QuietByTable
<1>4. PICK i \in 1 .. j : h \in DOMAIN snaps[i].windows /\ snaps[i].at = anchors[h][o].quiet
                          /\ snaps[i].at >= anchors[h][o].quiet
  BY <1>3 DEF Backed
<1>5. /\ o \in DOMAIN snaps[i].rows[h].rows
      /\ SameQuiet(snaps[i].rows[h].rows[o], snaps[j].rows[h].rows[o])
  BY <1>3, <1>4 DEF Backed
<1>6. i \in 1 .. Len(snaps) /\ h \in DOMAIN snaps[i].rows
  <2>1. j \in 1 .. Len(snaps) /\ Len(snaps) \in Nat
    BY <1>1, LatestFacts, LenProperties DEF HotTypes, StoreTypes
  <2>2. i \in 1 .. Len(snaps)
    BY <2>1
  <2> QED
    BY <1>1, <1>4, <2>2 DEF WindowsMatch
<1> QED
  BY <1>4, <1>5, <1>6 DEF SameQuiet

LEMMA InvCold ==
  HotTypes /\ StoreParts => ColdConfirmed
<1> SUFFICES ASSUME HotTypes, StoreParts, ~torn,
                    NEW h \in Hosts, NEW o \in ColdTables(h),
                    NEW j \in LatestWith(h, 1 .. Len(snaps)),
                    NEW q, q = anchors[h][o].quiet
             PROVE  /\ \E i \in {i \in 1 .. j : h \in DOMAIN snaps[i].windows /\ snaps[i].at >= q} :
                         snaps[j].at - snaps[i].at >= ColdWindow
                    /\ Backed(h, o, j, q)
  BY DEF ColdConfirmed, Backed, SameQuiet
<1>1. WindowsMatch /\ AnchorsAreNewest /\ QuietBacked
  BY DEF StoreParts
<1>2. PICK i \in LatestWith(h, Kept) :
        o \in DOMAIN anchors[h] /\ q # Nil /\ q <= snaps[i].at - ColdWindow
  BY DEF ColdTables
<1>3. i = j
  <2>1. /\ j \in 1 .. Len(snaps) /\ h \in DOMAIN snaps[j].windows
        /\ \A k \in 1 .. Len(snaps) : h \in DOMAIN snaps[k].windows => k <= j
    BY <1>1, LatestFacts
  <2>2. /\ i \in Kept /\ h \in DOMAIN snaps[i].windows
        /\ \A k \in Kept : h \in DOMAIN snaps[k].windows => k <= i
    BY DEF LatestWith
  <2>3. Len(snaps) \in Nat /\ dropped \in Nat /\ Kept = dropped + 1 .. Len(snaps)
    BY LenProperties DEF HotTypes, StoreTypes, Kept
  <2>4. i \in 1 .. Len(snaps) /\ i <= j
    BY <2>1, <2>2, <2>3
  <2>5. j \in Kept
    BY <2>1, <2>2, <2>3, <2>4
  <2> QED
    BY <2>1, <2>2, <2>3, <2>4, <2>5
<1>4. Backed(h, o, j, q)
  BY <1>1, <1>2, QuietByTable
<1>5. PICK k \in {i_1 \in 1 .. j : h \in DOMAIN snaps[i_1].windows /\ snaps[i_1].at >= q} :
        snaps[k].at = q
  BY <1>4 DEF Backed
<1>6. q \in Nat /\ snaps[j].at \in Nat /\ ColdWindow \in Nat
  <2>1. anchors[h][o] \in AnchorRows
    BY <1>2, AnchorFields DEF HotTypes
  <2>2. j \in 1 .. Len(snaps)
    BY <1>1, LatestFacts
  <2> QED
    BY <1>2, <2>1, <2>2, SnapFields, HotConfigOK DEF HotTypes, AnchorRows, Times
<1>7. snaps[j].at - q >= ColdWindow
  BY <1>2, <1>3, <1>6
<1> QED
  BY <1>4, <1>5, <1>7

-----------------------------------------------------------------------------
(* Theorems. *)

\* The proved form of the invariant: shapes, the order of the captures, and
\* the parts about the sweep and the tables.
HotProved == HotTypes /\ CapturesInOrder /\ SampleParts /\ StoreParts

LEMMA HotProvedAlways == Spec => []HotProved
<1>1. Init => HotProved
  BY InitTypes, OrderInit, PartsInit DEF HotProved
<1>2. HotProved /\ [Next]_vars => HotProved'
  BY StepTypes, OrderStep, PartsStep DEF HotProved
<1> QED
  BY <1>1, <1>2, PTL DEF Spec

\* Whatever servers, daemon and retention do in whatever order, the parts of
\* HotInv hold together: captures and firings in order (hot.go, schedule.go),
\* samples that describe their servers' past, and anchors, windows, deltas and
\* quiet times that follow from the stored samples (report.go, hotobjects.go).
THEOREM HotInvariant == Spec => []HotInv
<1>1. HotProved => HotInv
  BY HotTypesTypeOK DEF HotProved, SampleParts, StoreParts, HotInv
<1> QED
  BY <1>1, HotProvedAlways, PTL

\* cronDue and dueForCapture capture a database at most once per firing of its
\* schedule, through failed captures, restarts and retention.
THEOREM CapturedOncePerFiring == Spec => []OncePerFiring
<1>1. HotProved => OncePerFiring
  BY DEF HotProved, CapturesInOrder
<1> QED
  BY <1>1, HotProvedAlways, PTL

\* The anchors upsertHotAnchorsTx leaves are one capture's, so BuildSnapshot
\* and epochIntact may look at any of them.
THEOREM AnchorsOfOneCapture == Spec => []AnchorsUniform
<1>1. HotProved => AnchorsUniform
  BY HotTypesTypeOK, InvUniform DEF HotProved
<1> QED
  BY <1>1, HotProvedAlways, PTL

\* Unless a reset or a first table falls between the two queries of a host, the
\* deltas BuildSnapshot stores are the activity between consecutive samples.
THEOREM NoIntervalLost == Spec => []IntervalsTile
<1>1. HotProved => IntervalsTile
  BY DEF HotProved, StoreParts
<1> QED
  BY <1>1, HotProvedAlways, PTL

\* observedSince names a capture since which the host was a primary in one
\* epoch.
THEOREM ObservationHolds == Spec => []ObservationUnbroken
<1>1. HotProved => ObservationUnbroken
  BY DEF HotProved, StoreParts
<1> QED
  BY <1>1, HotProvedAlways, PTL

\* quietSince names a stored capture with the same relation and no write since.
THEOREM QuietTablesConfirmed == Spec => []QuietConfirmed
<1>1. HotProved => QuietConfirmed
  BY InvQuiet DEF HotProved
<1> QED
  BY <1>1, HotProvedAlways, PTL

\* What GetColdTables returns is backed by captures that span the cold window.
THEOREM ColdTablesConfirmed == Spec => []ColdConfirmed
<1>1. HotProved => ColdConfirmed
  BY InvCold DEF HotProved
<1> QED
  BY <1>1, HotProvedAlways, PTL
=============================================================================
