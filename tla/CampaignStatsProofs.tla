------------------------ MODULE CampaignStatsProofs ------------------------
(***************************************************************************)
(* Every total of campaign_stats is the number of events added to it, for  *)
(* any number of jobs, any events and any batches.                         *)
(***************************************************************************)
EXTENDS CampaignStats, FiniteSetTheorems, TLAPS

Keys == Rows \X Types
Hits(e, k) == RowOf(e) = k[1] /\ e.type = k[2]
InBatch(j) == at[j] \in {"range", "upsert"}

\* The events of j that its transaction has added to k.
Done(j, k) == {i \in DOMAIN events[j] : GroupOf(events[j][i]) \notin todo[j] /\ Hits(events[j][i], k)}

Shape ==
    \A j \in Jobs :
        /\ at[j] \in {"stats", "commit"} => Len(events[j]) = 1
        /\ at[j] = "upsert" => group[j] \in todo[j]
        /\ at[j] # "idle" => run[j] > 0

\* What an open transaction has written is the number of its events in the groups it
\* has visited.
Sums == \A j \in Jobs : InBatch(j) => \A k \in Keys : written[j][k] = Cardinality(Done(j, k))

\* Two open transactions have not written the same row.
Locks ==
    \A j, o \in Jobs : \A row \in Rows : \A t, u \in Types :
        j # o /\ written[j][<<row, t>>] > 0 => written[o][<<row, u>>] = 0

\* What an open transaction has written still fits when it commits.
Room == \A j \in Jobs : \A k \in Keys : stats[k] + written[j][k] <= MaxInt

\* The tokens of a run appear when it adds to the aggregates.
Fresh ==
    /\ IsFiniteSet(raw \cup stray)
    /\ \A x \in raw \cup stray : x.run = run[x.job] => at[x.job] \in {"idle", "commit"}
    /\ \A j \in Jobs : at[j] = "commit" => Tokens(j) \subseteq stray

IInv == TypeOK /\ Shape /\ Sums /\ Locks /\ Room /\ Fresh /\ StatsAccounted

-----------------------------------------------------------------------------
(* Data                                                                    *)

LEMMA EventFacts ==
    ASSUME NEW e \in Events
    PROVE  /\ RowOf(e) \in Rows /\ e.type \in Types
           /\ <<RowOf(e), e.type>> \in Keys
           /\ GroupOf(e) # NoGroup
           /\ RowOf(e) = <<GroupOf(e)[1], GroupOf(e)[2]>>
BY EventsAssumption DEF Rows, Keys, RowOf, GroupOf, NoGroup

LEMMA SeqFacts ==
    ASSUME TypeOK, NEW j \in Jobs
    PROVE  /\ events[j] \in Seq(Events)
           /\ IsFiniteSet(DOMAIN events[j])
           /\ \A i \in DOMAIN events[j] : events[j][i] \in Events
<1>1. events[j] \in {<<>>} \cup Batches \cup {<<e>> : e \in Singles}
  BY DEF TypeOK
<1>2. \A e \in Singles : <<e>> \in Seq(Events)
  BY DEF Events
<1>3. <<>> \in Seq(Events) /\ \A b \in Batches : b \in Seq(Events)
  BY BatchesAssumption
<1>4. events[j] \in Seq(Events)
  BY <1>1, <1>2, <1>3
<1>5. /\ DOMAIN events[j] = 1..Len(events[j]) /\ Len(events[j]) \in Nat
      /\ \A i \in DOMAIN events[j] : events[j][i] \in Events
  BY <1>4
<1>6. IsFiniteSet(1..Len(events[j]))
  BY <1>5, FS_Interval
<1> QED
  BY <1>4, <1>5, <1>6

LEMMA KeyFacts ==
    ASSUME NEW k \in Keys
    PROVE  k[1] \in Rows /\ k[2] \in Types /\ k = <<k[1], k[2]>>
BY DEF Keys

\* As many tokens as positions.
LEMMA TokenCount ==
    ASSUME TypeOK, NEW j \in Jobs, NEW k \in Keys,
           NEW D, D = {i \in DOMAIN events[j] : Hits(events[j][i], k)},
           NEW T, T = {x \in Tokens(j) : Hits(x.ev, k)}
    PROVE  IsFiniteSet(T) /\ Cardinality(T) = Cardinality(D)
<1> DEFINE f == [i \in D |-> Token(j, i)]
<1>1. IsFiniteSet(D)
  BY SeqFacts, FS_Subset
<1>2. \A i \in D : f[i] \in T
  BY DEF Tokens, Token
<1>3. \A x \in T : \E i \in D : f[i] = x
  <2> SUFFICES ASSUME NEW x \in T PROVE \E i \in D : f[i] = x
    OBVIOUS
  <2>1. PICK i \in DOMAIN events[j] : x = Token(j, i)
    BY DEF Tokens
  <2>2. i \in D
    BY <2>1 DEF Token
  <2> QED
    BY <2>1, <2>2
<1>4. \A i, o \in D : f[i] = f[o] => i = o
  BY DEF Token
<1>5. f \in Surjection(D, T) /\ f \in Injection(D, T)
  BY <1>2, <1>3, <1>4 DEF Surjection, Injection, IsInjective
<1> HIDE DEF f
<1> QED
  BY <1>1, <1>5, FS_Surjection

LEMMA DisjointCount ==
    ASSUME NEW S, NEW T, IsFiniteSet(S), IsFiniteSet(T), S \cap T = {}
    PROVE  Cardinality(S \cup T) = Cardinality(S) + Cardinality(T)
<1>1. Cardinality(S \cup T) = Cardinality(S) + Cardinality(T) - Cardinality(S \cap T)
  BY FS_Union
<1>2. Cardinality(S) \in Nat /\ Cardinality(T) \in Nat /\ Cardinality(S \cap T) = 0
  BY FS_CardinalityType, FS_EmptySet
<1> QED
  BY <1>1, <1>2

\* Counted grows by the tokens that arrive.
LEMMA CountedGrows ==
    ASSUME NEW k \in Keys, IsFiniteSet(raw \cup stray), NEW New, IsFiniteSet(New),
           raw' \cup stray' = (raw \cup stray) \cup New, New \cap (raw \cup stray) = {}
    PROVE  /\ IsFiniteSet(Counted(k))
           /\ Cardinality(Counted(k)') =
                Cardinality(Counted(k)) + Cardinality({x \in New : Hits(x.ev, k)})
<1> DEFINE N == {x \in New : Hits(x.ev, k)}
<1>1. IsFiniteSet(Counted(k)) /\ IsFiniteSet(N)
  BY FS_Subset DEF Counted
<1>2. Counted(k)' = Counted(k) \cup N /\ Counted(k) \cap N = {}
  BY DEF Counted, Hits
<1> HIDE DEF N
<1>3. Cardinality(Counted(k)') = Cardinality(Counted(k)) + Cardinality(N)
  BY <1>1, <1>2, DisjointCount
<1> QED
  BY <1>1, <1>3 DEF N

LEMMA InitInv == Init => IInv
<1> SUFFICES ASSUME Init PROVE IInv
  OBVIOUS
<1>1. Nothing \in [Rows \X Types -> 0..MaxInt]
  BY BoundsAssumption DEF Nothing
<1>2. TypeOK
  BY <1>1, BoundsAssumption DEF Init, TypeOK, Locations
<1>3. \A k \in Keys : Nothing[k] = 0
  BY DEF Keys, Nothing
<1>4. Shape /\ Sums
  BY DEF Init, Shape, Sums, InBatch
<1>5. Locks
  BY <1>3 DEF Init, Locks, Keys
<1>6. Room
  BY <1>3, BoundsAssumption DEF Init, Room
<1>7. Fresh
  BY FS_EmptySet DEF Init, Fresh
<1>8. \A k \in Keys : Counted(k) = {} /\ stats[k] = 0
  BY <1>3 DEF Init, Counted
<1>9. StatsAccounted
  BY <1>8, FS_EmptySet DEF StatsAccounted, Keys
<1> QED
  BY <1>2, <1>4, <1>5, <1>6, <1>7, <1>9 DEF IInv

-----------------------------------------------------------------------------
(* The steps                                                               *)

\* The step of one job that touches neither the tables nor what is written.
LEMMA JobMoves ==
    ASSUME IInv, NEW j \in Jobs, NEW l \in Locations,
           at' = [at EXCEPT ![j] = l],
           \A o \in Jobs \ {j} : /\ run'[o] = run[o] /\ events'[o] = events[o]
                                 /\ todo'[o] = todo[o] /\ group'[o] = group[o],
           UNCHANGED <<written, stats, raw, stray>>,
           run' \in [Jobs -> 0..MaxRuns], run'[j] >= run[j],
           events' \in [Jobs -> {<<>>} \cup Batches \cup {<<e>> : e \in Singles}],
           todo' \in [Jobs -> SUBSET Groups], group' \in [Jobs -> Groups \cup {NoGroup}],
           l \in {"stats", "commit"} => Len(events'[j]) = 1,
           l = "upsert" => group'[j] \in todo'[j],
           l # "idle" => l # "commit" /\ (run'[j] > run[j] \/ at[j] \notin {"idle", "commit"}),
           l \in {"range", "upsert"} => \A k \in Keys : written[j][k] = Cardinality(Done(j, k)'),
           l \notin {"range", "upsert"} => written[j] = Nothing
    PROVE  IInv'
<1> USE DEF IInv
<1>0. /\ at' \in [Jobs -> Locations] /\ at'[j] = l
      /\ \A o \in Jobs : o # j => at'[o] = at[o]
  BY DEF TypeOK
<1>a. /\ \A x \in raw \cup stray : x.job \in Jobs /\ x.run \in 1..run[x.job] /\ x.ev \in Events
      /\ run \in [Jobs -> 0..MaxRuns]
  BY DEF TypeOK
<1>b. run[j] \in Nat /\ run'[j] \in Nat
  BY <1>a, BoundsAssumption
<1>1. /\ \A x \in raw \cup stray : x.job \in Jobs /\ x.run \in 1..run[x.job] /\ x.ev \in Events
      /\ run[j] \in Nat /\ run'[j] \in Nat
  BY <1>a, <1>b
<1>2. \A x \in raw \cup stray : x.run \in 1..run'[x.job]
  <2> SUFFICES ASSUME NEW x \in raw \cup stray PROVE x.run \in 1..run'[x.job]
    OBVIOUS
  <2>1. CASE x.job = j
    BY <2>1, <1>1
  <2>2. CASE x.job # j
    BY <2>2, <1>1
  <2> QED
    BY <2>1, <2>2
<1>3. TypeOK'
  BY <1>0, <1>1, <1>2 DEF TypeOK
<1>4. Shape'
  <2>1. l # "idle" => run'[j] > 0
    BY <1>1 DEF Shape
  <2> QED
    BY <1>0, <2>1 DEF Shape
<1>5. Sums'
  <2> SUFFICES ASSUME NEW o \in Jobs, InBatch(o)', NEW k \in Keys
               PROVE written'[o][k] = Cardinality(Done(o, k)')
    BY DEF Sums, Keys
  <2>1. CASE o = j
    BY <2>1, <1>0 DEF InBatch
  <2>2. CASE o # j
    <3>1. Done(o, k)' = Done(o, k) /\ InBatch(o)
      BY <2>2, <1>0 DEF Done, InBatch
    <3> QED
      BY <3>1 DEF Sums
  <2> QED
    BY <2>1, <2>2
<1>6. Locks' /\ Room'
  BY DEF Locks, Room
<1>7. Fresh'
  <2>1. ASSUME NEW x \in raw \cup stray, x.run = run'[x.job]
        PROVE  at'[x.job] \in {"idle", "commit"}
    <3>1. CASE x.job = j
      <4>1. run[j] \in Nat /\ run'[j] \in Nat /\ x.run \in 1..run[j]
        BY <3>1, <1>1
      <4>2. run'[j] = run[j]
        BY <4>1, <2>1, <3>1
      <4>3. at[j] \in {"idle", "commit"}
        BY <4>2, <2>1, <3>1 DEF Fresh
      <4> QED
        BY <4>2, <4>3, <3>1, <1>0, <4>1
    <3>2. CASE x.job # j
      BY <3>2, <2>1, <1>0, <1>1 DEF Fresh
    <3> QED
      BY <3>1, <3>2
  <2>2. ASSUME NEW o \in Jobs, at'[o] = "commit"
        PROVE  Tokens(o)' \subseteq stray
    <3>1. o # j
      BY <2>2, <1>0
    <3>2. Tokens(o)' = Tokens(o) /\ at[o] = "commit"
      BY <3>1, <2>2, <1>0 DEF Tokens, Token
    <3> QED
      BY <3>2 DEF Fresh
  <2> QED
    BY <2>1, <2>2 DEF Fresh
<1>8. StatsAccounted'
  BY DEF StatsAccounted, Counted
<1> QED
  BY <1>3, <1>4, <1>5, <1>6, <1>7, <1>8

\* The types of what a run starts with.
LEMMA BeginFacts ==
    ASSUME IInv, NEW j \in Jobs, NEW s, NEW l, Begin(j, s, l)
    PROVE  /\ at[j] = "idle" /\ at' = [at EXCEPT ![j] = l]
           /\ run' \in [Jobs -> 0..MaxRuns] /\ run'[j] = run[j] + 1 /\ run[j] \in Nat
           /\ s \in {<<>>} \cup Batches \cup {<<e>> : e \in Singles} =>
                events' \in [Jobs -> {<<>>} \cup Batches \cup {<<e>> : e \in Singles}]
           /\ \A o \in Jobs \ {j} : run'[o] = run[o] /\ events'[o] = events[o]
           /\ events'[j] = s
           /\ written[j] = Nothing
<1>1. /\ run \in [Jobs -> 0..MaxRuns] /\ run[j] < MaxRuns
      /\ events \in [Jobs -> {<<>>} \cup Batches \cup {<<e>> : e \in Singles}]
      /\ at[j] \notin {"range", "upsert"}
  BY DEF IInv, TypeOK, Begin
<1>2. run' = [run EXCEPT ![j] = @ + 1] /\ run[j] \in Nat /\ run[j] + 1 \in 0..MaxRuns
  BY <1>1, BoundsAssumption DEF Begin
<1>3. written[j] = Nothing
  BY <1>1 DEF IInv, TypeOK
<1> QED
  BY <1>1, <1>2, <1>3 DEF Begin, Goto

LEMMA InsertInv == ASSUME IInv, NEW j \in Jobs, NEW e \in Singles, Insert(j, e) PROVE IInv'
<1>1. Begin(j, <<e>>, "stats")
  BY DEF Insert
<1>2. /\ todo' = todo /\ group' = group
      /\ UNCHANGED <<written, stats, raw, stray>>
  BY DEF Insert
<1>3. Len(<<e>>) = 1
  OBVIOUS
<1>4. todo \in [Jobs -> SUBSET Groups] /\ group \in [Jobs -> Groups \cup {NoGroup}]
  BY DEF IInv, TypeOK
<1> DEFINE l == "stats"
<1>5. l \in Locations /\ l = "stats"
  BY DEF Locations
<1> HIDE DEF l
<1> QED
  BY <1>1, <1>2, <1>3, <1>4, <1>5, BeginFacts, JobMoves

LEMMA CopyInv == ASSUME IInv, NEW j \in Jobs, NEW s \in Batches, Copy(j, s) PROVE IInv'
<1> DEFINE l == "range"
<1>1. Begin(j, s, l)
  BY DEF Copy
<1>2. /\ \A o \in Jobs \ {j} : todo'[o] = todo[o]
      /\ group' = group
      /\ todo' = [todo EXCEPT ![j] = {GroupOf(s[i]) : i \in DOMAIN s}]
      /\ UNCHANGED <<written, stats, raw, stray>>
  BY DEF Copy
<1>3. at[j] = "idle" /\ at' = [at EXCEPT ![j] = l] /\ events'[j] = s /\ written[j] = Nothing
  BY <1>1, BeginFacts
<1>4. todo \in [Jobs -> SUBSET Groups] /\ group \in [Jobs -> Groups \cup {NoGroup}]
  BY DEF IInv, TypeOK
<1>5. \A i \in DOMAIN s : s[i] \in Events
  BY DEF Events
<1>6. {GroupOf(s[i]) : i \in DOMAIN s} \in SUBSET Groups
  BY <1>5 DEF Groups
<1>7. \A k \in Keys : written[j][k] = Cardinality(Done(j, k)')
  <2> SUFFICES ASSUME NEW k \in Keys PROVE written[j][k] = Cardinality(Done(j, k)')
    OBVIOUS
  <2>1. todo'[j] = {GroupOf(s[i]) : i \in DOMAIN s}
    BY <1>2, <1>4
  <2>2. Done(j, k)' = {}
    BY <2>1, <1>3 DEF Done
  <2> QED
    BY <2>2, <1>3, FS_EmptySet DEF Nothing, Keys
<1>8. l \in Locations /\ l = "range"
  BY DEF Locations
<1>9. todo' \in [Jobs -> SUBSET Groups]
  BY <1>2, <1>4, <1>6
<1>10. /\ run' \in [Jobs -> 0..MaxRuns] /\ run'[j] = run[j] + 1 /\ run[j] \in Nat
       /\ events' \in [Jobs -> {<<>>} \cup Batches \cup {<<e>> : e \in Singles}]
       /\ \A o \in Jobs \ {j} : run'[o] = run[o] /\ events'[o] = events[o]
  BY <1>1, BeginFacts
<1>11. run'[j] > run[j] /\ run'[j] >= run[j]
  BY <1>10
<1> HIDE DEF l
<1> QED
  BY <1>2, <1>3, <1>4, <1>7, <1>8, <1>9, <1>10, <1>11, JobMoves

LEMMA VisitInv ==
    ASSUME IInv, NEW j \in Jobs, NEW g \in todo[j], Visit(j, g) PROVE IInv'
<1> DEFINE l == "upsert"
<1>1. /\ at[j] = "range" /\ at' = [at EXCEPT ![j] = l]
      /\ UNCHANGED <<run, events, todo, written, stats, raw, stray>>
      /\ group' = [group EXCEPT ![j] = g]
  BY DEF Visit, Goto
<1>2. /\ todo \in [Jobs -> SUBSET Groups] /\ group \in [Jobs -> Groups \cup {NoGroup}]
      /\ run \in [Jobs -> 0..MaxRuns]
      /\ events \in [Jobs -> {<<>>} \cup Batches \cup {<<e>> : e \in Singles}]
  BY DEF IInv, TypeOK
<1>3. /\ group' \in [Jobs -> Groups \cup {NoGroup}]
      /\ group'[j] \in todo'[j]
      /\ \A o \in Jobs \ {j} : group'[o] = group[o]
  BY <1>1, <1>2
<1>4. run'[j] >= run[j]
  BY <1>1, <1>2, BoundsAssumption
<1>5. \A k \in Keys : written[j][k] = Cardinality(Done(j, k)')
  BY <1>1 DEF IInv, Sums, InBatch, Done
<1>6. l \in Locations /\ l = "upsert"
  BY DEF Locations
<1> HIDE DEF l
<1> QED
  BY <1>1, <1>2, <1>3, <1>4, <1>5, <1>6, JobMoves

\* Written stays Nothing: a failed run of ProcessRawEvent.
LEMMA FailInv == ASSUME IInv, NEW j \in Jobs, Fail(j) PROVE IInv'
<1> DEFINE l == "idle"
<1>1. /\ at[j] \in {"stats", "commit"} /\ at' = [at EXCEPT ![j] = l]
      /\ UNCHANGED <<run, events, todo, group, written, stats, raw, stray>>
  BY DEF Fail, Goto
<1>2. /\ todo \in [Jobs -> SUBSET Groups] /\ group \in [Jobs -> Groups \cup {NoGroup}]
      /\ run \in [Jobs -> 0..MaxRuns]
      /\ events \in [Jobs -> {<<>>} \cup Batches \cup {<<e>> : e \in Singles}]
      /\ written[j] = Nothing
  BY <1>1 DEF IInv, TypeOK
<1>3. run'[j] >= run[j]
  BY <1>1, <1>2, BoundsAssumption
<1>4. l \in Locations /\ l = "idle"
  BY DEF Locations
<1> HIDE DEF l
<1> QED
  BY <1>1, <1>2, <1>3, <1>4, JobMoves

\* The row of an event that is added alone is not locked and is not in the tables.
LEMMA UpsertInv == ASSUME IInv, NEW j \in Jobs, Upsert(j) PROVE IInv'
<1> USE DEF IInv
<1> DEFINE e == events[j][1]
           q == <<RowOf(e), e.type>>
           tok == Token(j, 1)
<1>0. /\ at[j] = "stats" /\ ~LockedFor(j, RowOf(e)) /\ stats[q] < MaxInt
      /\ stats' = [stats EXCEPT ![q] = @ + 1]
      /\ stray' = stray \cup Tokens(j) /\ at' = [at EXCEPT ![j] = "commit"]
      /\ UNCHANGED <<run, events, todo, group, written, raw>>
  BY DEF Upsert, Added, Goto
<1>1. /\ at' \in [Jobs -> Locations] /\ at'[j] = "commit"
      /\ \A o \in Jobs : o # j => at'[o] = at[o]
  BY <1>0 DEF TypeOK, Locations
<1>2. /\ DOMAIN events[j] = {1} /\ e \in Events
  <2>1. events[j] \in Seq(Events) /\ Len(events[j]) = 1
    BY <1>0, SeqFacts DEF Shape
  <2> QED
    BY <2>1
<1>3. q \in Keys /\ Tokens(j) = {tok} /\ tok.job = j /\ tok.run = run[j] /\ tok.ev = e
  BY <1>2, EventFacts DEF Tokens, Token
<1>4. /\ stats \in [Keys -> 0..MaxInt] /\ MaxInt \in Nat
      /\ \A k \in Keys : stats'[k] = IF k = q THEN stats[k] + 1 ELSE stats[k]
  BY <1>0, <1>3, BoundsAssumption DEF TypeOK, Keys
<1>5. stats' \in [Keys -> 0..MaxInt]
  BY <1>0, <1>3, <1>4
<1>6. written[j] = Nothing /\ written \in [Jobs -> [Keys -> 0..MaxInt]]
  BY <1>0 DEF TypeOK, Keys
<1>7. tok \notin raw \cup stray /\ run[j] \in 1..run[j]
  <2>1. tok \notin raw \cup stray
    BY <1>0, <1>3 DEF Fresh
  <2>2. run[j] \in 1..run[j]
    <3>1. run \in [Jobs -> 0..MaxRuns] /\ run[j] > 0
      BY <1>0 DEF TypeOK, Shape
    <3> QED
      BY <3>1, BoundsAssumption
  <2> QED
    BY <2>1, <2>2
<1>8. TypeOK'
  <2>1. /\ run' \in [Jobs -> 0..MaxRuns]
        /\ events' \in [Jobs -> {<<>>} \cup Batches \cup {<<s>> : s \in Singles}]
        /\ todo' \in [Jobs -> SUBSET Groups]
        /\ group' \in [Jobs -> Groups \cup {NoGroup}]
        /\ written' \in [Jobs -> [Rows \X Types -> 0..MaxInt]]
        /\ stats' \in [Rows \X Types -> 0..MaxInt]
    BY <1>0, <1>5 DEF TypeOK, Keys
  <2>2. \A x \in raw' \cup stray' : x.job \in Jobs /\ x.run \in 1..run'[x.job] /\ x.ev \in Events
    BY <1>0, <1>2, <1>3, <1>7 DEF TypeOK
  <2>3. \A o \in Jobs : at'[o] \notin {"range", "upsert"} => written'[o] = Nothing
    BY <1>0, <1>1, <1>6 DEF TypeOK
  <2> QED
    BY <1>1, <2>1, <2>2, <2>3 DEF TypeOK
<1>9. Shape'
  BY <1>0, <1>1 DEF Shape
<1>10. Sums'
  <2>1. \A o \in Jobs : InBatch(o)' => InBatch(o)
    BY <1>1 DEF InBatch
  <2>2. \A o \in Jobs : \A k \in Keys : Done(o, k)' = Done(o, k)
    BY <1>0 DEF Done
  <2> QED
    BY <1>0, <2>1, <2>2 DEF Sums, Keys
<1>11. Locks'
  BY <1>0 DEF Locks
<1>12. Room'
  <2> SUFFICES ASSUME NEW o \in Jobs, NEW k \in Keys
               PROVE stats'[k] + written[o][k] <= MaxInt
    BY <1>0 DEF Room, Keys
  <2>1. CASE k # q
    BY <2>1, <1>4 DEF Room
  <2>2. CASE k = q
    <3>1. written[o][q] \in Nat
      BY <1>3, <1>4, <1>6
    <3>2. written[o][q] = 0
      <4>1. CASE o = j
        BY <4>1, <1>3, <1>6 DEF Nothing, Keys
      <4>2. CASE o # j
        BY <4>2, <3>1, <1>0, <1>2, EventFacts DEF LockedFor
      <4> QED
        BY <4>1, <4>2
    <3> QED
      BY <3>2, <2>2, <1>0, <1>3, <1>4
  <2> QED
    BY <2>1, <2>2
<1>13. Fresh'
  <2>1. IsFiniteSet(raw' \cup stray')
    <3>1. raw' \cup stray' = (raw \cup stray) \cup {tok}
      BY <1>0, <1>3
    <3> QED
      BY <3>1, FS_AddElement DEF Fresh
  <2>2. \A x \in raw' \cup stray' : x.run = run'[x.job] => at'[x.job] \in {"idle", "commit"}
    BY <1>0, <1>1, <1>3 DEF Fresh, TypeOK
  <2>3. ASSUME NEW o \in Jobs, at'[o] = "commit"
        PROVE  Tokens(o)' \subseteq stray'
    <3>1. Tokens(o)' = Tokens(o)
      BY <1>0 DEF Tokens, Token
    <3> QED
      BY <3>1, <2>3, <1>0, <1>1 DEF Fresh
  <2> QED
    BY <2>1, <2>2, <2>3 DEF Fresh
<1>14. StatsAccounted'
  <2> SUFFICES ASSUME NEW k \in Keys PROVE stats'[k] = Cardinality(Counted(k)')
    BY DEF StatsAccounted, Keys
  <2> DEFINE New == {tok}
             N == {x \in New : Hits(x.ev, k)}
  <2>1. /\ raw' \cup stray' = (raw \cup stray) \cup New
        /\ New \cap (raw \cup stray) = {} /\ IsFiniteSet(New) /\ IsFiniteSet(raw \cup stray)
    BY <1>0, <1>3, <1>7, FS_Singleton DEF Fresh
  <2>2. Cardinality(Counted(k)') = Cardinality(Counted(k)) + Cardinality(N)
    <3> HIDE DEF New
    <3> QED
      BY <2>1, CountedGrows
  <2>3. k = <<k[1], k[2]>>
    BY KeyFacts
  <2>4. CASE k = q
    <3>1. N = {tok}
      BY <2>4, <1>3 DEF Hits
    <3> QED
      BY <3>1, <2>4, <2>2, <1>4, FS_Singleton DEF StatsAccounted, Keys
  <2>5. CASE k # q
    <3>1. N = {}
      BY <2>5, <2>3, <1>3 DEF Hits
    <3>2. stats'[k] = stats[k] /\ stats[k] \in Nat
      BY <2>5, <1>4
    <3>4. Cardinality(N) = 0
      BY <3>1, FS_EmptySet
    <3>3. stats[k] = Cardinality(Counted(k))
      BY DEF StatsAccounted, Keys
    <3> HIDE DEF N
    <3> QED
      BY <3>2, <3>3, <3>4, <2>2
  <2> QED
    BY <2>4, <2>5
<1> QED
  BY <1>8, <1>9, <1>10, <1>11, <1>12, <1>13, <1>14

\* The row of an event that was added alone becomes visible.
LEMMA CommitInv == ASSUME IInv, NEW j \in Jobs, Commit(j) PROVE IInv'
<1> USE DEF IInv
<1>0. /\ at[j] = "commit" /\ at' = [at EXCEPT ![j] = "idle"]
      /\ raw' = raw \cup Tokens(j) /\ stray' = stray \ Tokens(j)
      /\ UNCHANGED <<run, events, todo, group, written, stats>>
  BY DEF Commit, Goto
<1>1. /\ at' \in [Jobs -> Locations] /\ at'[j] = "idle"
      /\ \A o \in Jobs : o # j => at'[o] = at[o]
  BY <1>0 DEF TypeOK, Locations
<1>2. raw' \cup stray' = raw \cup stray
  BY <1>0 DEF Fresh
<1>3. TypeOK'
  <2>1. /\ run' \in [Jobs -> 0..MaxRuns]
        /\ events' \in [Jobs -> {<<>>} \cup Batches \cup {<<s>> : s \in Singles}]
        /\ todo' \in [Jobs -> SUBSET Groups]
        /\ group' \in [Jobs -> Groups \cup {NoGroup}]
        /\ written' \in [Jobs -> [Rows \X Types -> 0..MaxInt]]
        /\ stats' \in [Rows \X Types -> 0..MaxInt]
    BY <1>0 DEF TypeOK
  <2>2. \A x \in raw' \cup stray' : x.job \in Jobs /\ x.run \in 1..run'[x.job] /\ x.ev \in Events
    BY <1>0, <1>2 DEF TypeOK
  <2>3. \A o \in Jobs : at'[o] \notin {"range", "upsert"} => written'[o] = Nothing
    BY <1>0, <1>1 DEF TypeOK
  <2> QED
    BY <1>1, <2>1, <2>2, <2>3 DEF TypeOK
<1>4. Shape'
  BY <1>0, <1>1 DEF Shape
<1>5. Sums'
  <2>1. \A o \in Jobs : InBatch(o)' => InBatch(o)
    BY <1>1 DEF InBatch
  <2>2. \A o \in Jobs : \A k \in Keys : Done(o, k)' = Done(o, k)
    BY <1>0 DEF Done
  <2> QED
    BY <1>0, <2>1, <2>2 DEF Sums, Keys
<1>6. Locks' /\ Room'
  BY <1>0 DEF Locks, Room
<1>7. Fresh'
  <2>1. \A x \in raw' \cup stray' : x.run = run'[x.job] => at'[x.job] \in {"idle", "commit"}
    BY <1>0, <1>1, <1>2 DEF Fresh, TypeOK
  <2>2. ASSUME NEW o \in Jobs, at'[o] = "commit"
        PROVE  Tokens(o)' \subseteq stray'
    <3>1. o # j /\ Tokens(o)' = Tokens(o) /\ Tokens(o) \subseteq stray
      BY <2>2, <1>0, <1>1 DEF Tokens, Token, Fresh
    <3>2. Tokens(o) \cap Tokens(j) = {}
      BY <3>1 DEF Tokens, Token
    <3> QED
      BY <3>1, <3>2, <1>0
  <2> QED
    BY <1>2, <2>1, <2>2 DEF Fresh
<1>8. StatsAccounted'
  BY <1>0, <1>2 DEF StatsAccounted, Counted
<1> QED
  BY <1>3, <1>4, <1>5, <1>6, <1>7, <1>8

\* A run of ProcessRawEventsBatch ends: its transaction is gone, and either nothing or
\* everything of it is in the tables.
LEMMA RollbackInv ==
    ASSUME IInv, NEW j \in Jobs, at[j] \in {"range", "upsert"}, Rollback(j) PROVE IInv'
<1> USE DEF IInv
<1>0. /\ at' = [at EXCEPT ![j] = "idle"] /\ written' = [written EXCEPT ![j] = Nothing]
      /\ todo' = [todo EXCEPT ![j] = {}] /\ group' = [group EXCEPT ![j] = NoGroup]
      /\ UNCHANGED <<run, events, stats, raw, stray>>
  BY DEF Rollback, Goto
<1>1. /\ at' \in [Jobs -> Locations] /\ at'[j] = "idle"
      /\ \A o \in Jobs : o # j => at'[o] = at[o] /\ written'[o] = written[o]
                                  /\ todo'[o] = todo[o] /\ group'[o] = group[o]
  BY <1>0 DEF TypeOK, Locations
<1>2. /\ Nothing \in [Keys -> 0..MaxInt] /\ \A k \in Keys : Nothing[k] = 0
      /\ stats \in [Keys -> 0..MaxInt] /\ MaxInt \in Nat
  BY BoundsAssumption DEF Nothing, Keys, TypeOK
<1>3. written' \in [Jobs -> [Keys -> 0..MaxInt]] /\ written'[j] = Nothing
  BY <1>0, <1>2 DEF TypeOK, Keys
<1>4. TypeOK'
  <2>1. /\ run' \in [Jobs -> 0..MaxRuns]
        /\ events' \in [Jobs -> {<<>>} \cup Batches \cup {<<s>> : s \in Singles}]
        /\ todo' \in [Jobs -> SUBSET Groups]
        /\ group' \in [Jobs -> Groups \cup {NoGroup}]
        /\ stats' \in [Rows \X Types -> 0..MaxInt]
    BY <1>0 DEF TypeOK
  <2>2. \A x \in raw' \cup stray' : x.job \in Jobs /\ x.run \in 1..run'[x.job] /\ x.ev \in Events
    BY <1>0 DEF TypeOK
  <2>3. \A o \in Jobs : at'[o] \notin {"range", "upsert"} => written'[o] = Nothing
    BY <1>1, <1>3 DEF TypeOK
  <2> QED
    BY <1>1, <1>3, <2>1, <2>2, <2>3 DEF TypeOK, Keys
<1>5. Shape'
  BY <1>0, <1>1 DEF Shape
<1>6. Sums'
  <2>1. \A o \in Jobs : InBatch(o)' => InBatch(o) /\ o # j
    BY <1>1 DEF InBatch
  <2>2. \A o \in Jobs \ {j} : \A k \in Keys : Done(o, k)' = Done(o, k)
    BY <1>0, <1>1 DEF Done
  <2> QED
    BY <1>1, <2>1, <2>2 DEF Sums, Keys
<1>7. Locks'
  <2>1. \A row \in Rows : \A t \in Types : Nothing[<<row, t>>] = 0
    BY <1>2 DEF Keys
  <2> SUFFICES ASSUME NEW o \in Jobs, NEW v \in Jobs, NEW row \in Rows, NEW t \in Types, NEW u \in Types,
                      o # v, written'[o][<<row, t>>] > 0
               PROVE  written'[v][<<row, u>>] = 0
    BY DEF Locks
  <2>2. CASE v = j
    BY <2>1, <2>2, <1>3
  <2>3. CASE o = j
    BY <2>1, <2>3, <1>3
  <2>4. CASE v # j /\ o # j
    BY <2>4, <1>1 DEF Locks
  <2> QED
    BY <2>2, <2>3, <2>4
<1>8. Room'
  BY <1>0, <1>1, <1>2, <1>3 DEF Room, Keys
<1>9. Fresh'
  <2>1. \A o \in Jobs : Tokens(o)' = Tokens(o)
    BY <1>0 DEF Tokens, Token
  <2>2. \A x \in raw \cup stray : x.run = run[x.job] => at'[x.job] \in {"idle", "commit"}
    BY <1>1 DEF Fresh, TypeOK
  <2>3. \A o \in Jobs : at'[o] = "commit" => at[o] = "commit"
    BY <1>1
  <2> QED
    BY <1>0, <2>1, <2>2, <2>3 DEF Fresh
<1>10. StatsAccounted'
  BY <1>0 DEF StatsAccounted, Counted
<1> QED
  BY <1>4, <1>5, <1>6, <1>7, <1>8, <1>9, <1>10

\* The members of the group that is visited are of one row.
LEMMA GroupFacts ==
    ASSUME IInv, NEW j \in Jobs, at[j] = "upsert"
    PROVE  /\ GroupRow(j) \in Rows
           /\ \A i \in Members(j) : events[j][i] \in Events /\ RowOf(events[j][i]) = GroupRow(j)
           /\ \A t : GroupTotal(j, t) \in Nat
<1>1. group[j] \in todo[j] /\ todo[j] \subseteq Groups
  BY DEF IInv, Shape, TypeOK
<1>2. PICK e \in Events : group[j] = GroupOf(e)
  BY <1>1 DEF Groups
<1>3. GroupRow(j) \in Rows
  BY <1>2, EventFacts DEF GroupRow
<1>4. \A i \in Members(j) : events[j][i] \in Events /\ GroupOf(events[j][i]) = group[j]
  BY SeqFacts DEF Members, IInv
<1>5. \A i \in Members(j) : RowOf(events[j][i]) = GroupRow(j)
  BY <1>4, EventFacts DEF GroupRow
<1>6. ASSUME NEW t PROVE GroupTotal(j, t) \in Nat
  <2>1. IsFiniteSet({i \in Members(j) : events[j][i].type = t})
    BY SeqFacts, FS_Subset DEF Members, IInv
  <2> QED
    BY <2>1, FS_CardinalityType DEF GroupTotal
<1> QED
  BY <1>3, <1>4, <1>5, <1>6

\* Visiting the group adds its members to what the transaction has done.
LEMMA DoneGrows ==
    ASSUME IInv, NEW j \in Jobs, at[j] = "upsert", NEW k \in Keys,
           events' = events, todo' = [todo EXCEPT ![j] = @ \ {group[j]}]
    PROVE  Cardinality(Done(j, k)') =
             Cardinality(Done(j, k)) + (IF k[1] = GroupRow(j) THEN GroupTotal(j, k[2]) ELSE 0)
<1> DEFINE S == Done(j, k)
           T == {i \in Members(j) : Hits(events[j][i], k)}
<1>1. group[j] \in todo[j] /\ todo'[j] = todo[j] \ {group[j]}
  BY DEF IInv, Shape, TypeOK
<1>2. Done(j, k)' = S \cup T /\ S \cap T = {}
  BY <1>1 DEF Done, Members
<1>3. IsFiniteSet(S) /\ IsFiniteSet(T)
  BY SeqFacts, FS_Subset DEF IInv, Done, Members
<1>4. Cardinality(T) = IF k[1] = GroupRow(j) THEN GroupTotal(j, k[2]) ELSE 0
  <2>1. CASE k[1] = GroupRow(j)
    <3>1. T = {i \in Members(j) : events[j][i].type = k[2]}
      BY <2>1, GroupFacts DEF Hits
    <3> QED
      BY <2>1, <3>1 DEF GroupTotal
  <2>2. CASE k[1] # GroupRow(j)
    <3>1. T = {}
      BY <2>2, GroupFacts DEF Hits
    <3> QED
      BY <2>2, <3>1, FS_EmptySet
  <2> QED
    BY <2>1, <2>2
<1> HIDE DEF S, T
<1>5. Cardinality(Done(j, k)') = Cardinality(S) + Cardinality(T)
  BY <1>2, <1>3, DisjointCount
<1> QED
  BY <1>4, <1>5 DEF S

\* The group is added, under the lock of its row.
LEMMA UpsertGroupInv == ASSUME IInv, NEW j \in Jobs, UpsertGroup(j) PROVE IInv'
<1> USE DEF IInv
<1> DEFINE more(k) == IF k[1] = GroupRow(j) THEN GroupTotal(j, k[2]) ELSE 0
<1>0. /\ at[j] = "upsert" /\ at' = [at EXCEPT ![j] = "range"]
      /\ ~LockedFor(j, GroupRow(j)) /\ Fits(j)
      /\ written' = [written EXCEPT ![j] = WithGroup(@, j)]
      /\ todo' = [todo EXCEPT ![j] = @ \ {group[j]}] /\ group' = [group EXCEPT ![j] = NoGroup]
      /\ UNCHANGED <<run, events, stats, raw, stray>>
  BY DEF UpsertGroup, Goto
<1>1. /\ at' \in [Jobs -> Locations] /\ at'[j] = "range"
      /\ todo' \in [Jobs -> SUBSET Groups] /\ group' \in [Jobs -> Groups \cup {NoGroup}]
      /\ \A o \in Jobs : o # j => at'[o] = at[o] /\ written'[o] = written[o]
                                  /\ todo'[o] = todo[o] /\ group'[o] = group[o]
  BY <1>0 DEF TypeOK, Locations
<1>2. /\ written \in [Jobs -> [Keys -> 0..MaxInt]] /\ stats \in [Keys -> 0..MaxInt]
      /\ MaxInt \in Nat
  BY BoundsAssumption DEF TypeOK, Keys
<1>3. \A k \in Keys : more(k) \in Nat
  BY <1>0, GroupFacts
<1>4. written'[j] = [k \in Keys |-> written[j][k] + more(k)]
  BY <1>0, <1>2 DEF WithGroup, Keys
<1>5. \A k \in Keys : /\ written'[j][k] = written[j][k] + more(k)
                      /\ stats[k] + written'[j][k] <= MaxInt
  <2> SUFFICES ASSUME NEW k \in Keys
               PROVE  /\ written'[j][k] = written[j][k] + more(k)
                      /\ stats[k] + written'[j][k] <= MaxInt
    OBVIOUS
  <2>1. written'[j][k] = written[j][k] + more(k)
    BY <1>4
  <2>2. CASE k[1] = GroupRow(j)
    <3>1. k = <<GroupRow(j), k[2]>> /\ k[2] \in Types
      BY <2>2, KeyFacts
    <3>2. stats[k] + written[j][k] + more(k) <= MaxInt
      BY <3>1, <2>2, <1>0 DEF Fits
    <3> HIDE DEF more
    <3> QED
      BY <2>1, <3>2, <1>2, <1>3
  <2>3. CASE k[1] # GroupRow(j)
    <3>1. more(k) = 0
      BY <2>3
    <3>2. stats[k] + written[j][k] <= MaxInt /\ written[j][k] \in Nat
      BY <1>2 DEF Room
    <3> HIDE DEF more
    <3> QED
      BY <2>1, <3>1, <3>2
  <2> QED
    BY <2>1, <2>2, <2>3
<1>6. written' \in [Jobs -> [Keys -> 0..MaxInt]]
  <2>1. \A k \in Keys : written[j][k] + more(k) \in 0..MaxInt
    <3> SUFFICES ASSUME NEW k \in Keys PROVE written[j][k] + more(k) \in 0..MaxInt
      OBVIOUS
    <3>1. written[j][k] \in Nat /\ stats[k] \in Nat /\ more(k) \in Nat
      BY <1>2, <1>3
    <3> HIDE DEF more
    <3> QED
      BY <3>1, <1>2, <1>5
  <2> HIDE DEF more
  <2>2. written'[j] \in [Keys -> 0..MaxInt]
    BY <2>1, <1>4
  <2> QED
    BY <2>2, <1>0, <1>2
<1>7. TypeOK'
  <2>1. /\ run' \in [Jobs -> 0..MaxRuns]
        /\ events' \in [Jobs -> {<<>>} \cup Batches \cup {<<s>> : s \in Singles}]
        /\ stats' \in [Rows \X Types -> 0..MaxInt]
    BY <1>0 DEF TypeOK
  <2>2. \A x \in raw' \cup stray' : x.job \in Jobs /\ x.run \in 1..run'[x.job] /\ x.ev \in Events
    BY <1>0 DEF TypeOK
  <2>3. \A o \in Jobs : at'[o] \notin {"range", "upsert"} => written'[o] = Nothing
    BY <1>1 DEF TypeOK
  <2> QED
    BY <1>1, <1>6, <2>1, <2>2, <2>3 DEF TypeOK, Keys
<1>8. Shape'
  BY <1>0, <1>1 DEF Shape
<1>9. Sums'
  <2> SUFFICES ASSUME NEW o \in Jobs, InBatch(o)', NEW k \in Keys
               PROVE written'[o][k] = Cardinality(Done(o, k)')
    BY DEF Sums, Keys
  <2>1. CASE o = j
    <3>1. written[j][k] = Cardinality(Done(j, k))
      BY <1>0 DEF Sums, InBatch
    <3>2. Cardinality(Done(j, k)') = Cardinality(Done(j, k)) + more(k)
      BY <1>0, DoneGrows
    <3> HIDE DEF more
    <3> QED
      BY <2>1, <3>1, <3>2, <1>5
  <2>2. CASE o # j
    <3>1. Done(o, k)' = Done(o, k) /\ InBatch(o)
      BY <2>2, <1>0, <1>1 DEF Done, InBatch
    <3> QED
      BY <2>2, <3>1, <1>1 DEF Sums
  <2> QED
    BY <2>1, <2>2
<1>10. Locks'
  <2>1. \A o \in Jobs \ {j} : \A t \in Types : written[o][<<GroupRow(j), t>>] = 0
    <3> SUFFICES ASSUME NEW o \in Jobs \ {j}, NEW t \in Types
                 PROVE written[o][<<GroupRow(j), t>>] = 0
      OBVIOUS
    <3>1. written[o][<<GroupRow(j), t>>] \in Nat
      BY <1>0, <1>2, GroupFacts DEF Keys
    <3> QED
      BY <3>1, <1>0 DEF LockedFor
  <2>2. \A row \in Rows : \A t \in Types :
           row # GroupRow(j) => written'[j][<<row, t>>] = written[j][<<row, t>>]
    <3> SUFFICES ASSUME NEW row \in Rows, NEW t \in Types, row # GroupRow(j)
                 PROVE written'[j][<<row, t>>] = written[j][<<row, t>>]
      OBVIOUS
    <3>1. <<row, t>> \in Keys /\ more(<<row, t>>) = 0 /\ written[j][<<row, t>>] \in Nat
      BY <1>2 DEF Keys
    <3> HIDE DEF more
    <3> QED
      BY <3>1, <1>5
  <2> SUFFICES ASSUME NEW o \in Jobs, NEW v \in Jobs, NEW row \in Rows, NEW t \in Types, NEW u \in Types,
                      o # v, written'[o][<<row, t>>] > 0
               PROVE  written'[v][<<row, u>>] = 0
    BY DEF Locks
  <2>3. CASE row # GroupRow(j)
    <3>1. \A w \in Jobs : \A s \in Types : written'[w][<<row, s>>] = written[w][<<row, s>>]
      BY <2>2, <2>3, <1>1
    <3> QED
      BY <3>1 DEF Locks
  <2>4. CASE row = GroupRow(j) /\ v # j
    BY <2>1, <2>4, <1>1
  <2>5. CASE row = GroupRow(j) /\ v = j
    <3>1. written'[o][<<row, t>>] = 0
      BY <2>1, <2>5, <1>1
    <3> QED
      BY <3>1
  <2> QED
    BY <2>3, <2>4, <2>5
<1>11. Room'
  <2> SUFFICES ASSUME NEW o \in Jobs, NEW k \in Keys PROVE stats'[k] + written'[o][k] <= MaxInt
    BY DEF Room, Keys
  <2>1. CASE o = j
    BY <2>1, <1>0, <1>5
  <2>2. CASE o # j
    BY <2>2, <1>0, <1>1 DEF Room
  <2> QED
    BY <2>1, <2>2
<1>12. Fresh'
  <2>1. \A o \in Jobs : Tokens(o)' = Tokens(o)
    BY <1>0 DEF Tokens, Token
  <2>2. \A x \in raw \cup stray : x.run = run[x.job] => at'[x.job] \in {"idle", "commit"}
    BY <1>0, <1>1 DEF Fresh, TypeOK
  <2>3. \A o \in Jobs : at'[o] = "commit" => at[o] = "commit"
    BY <1>1
  <2> QED
    BY <1>0, <2>1, <2>2, <2>3 DEF Fresh
<1>13. StatsAccounted'
  BY <1>0 DEF StatsAccounted, Counted
<1> QED
  BY <1>7, <1>8, <1>9, <1>10, <1>11, <1>12, <1>13

LEMMA CommitBatchInv == ASSUME IInv, NEW j \in Jobs, CommitBatch(j) PROVE IInv'
<1> USE DEF IInv
<1>0. /\ at[j] = "range" /\ todo[j] = {} /\ at' = [at EXCEPT ![j] = "idle"]
      /\ stats' = [k \in Keys |-> stats[k] + written[j][k]]
      /\ raw' = raw \cup Tokens(j) /\ written' = [written EXCEPT ![j] = Nothing]
      /\ UNCHANGED <<run, events, todo, group, stray>>
  BY DEF CommitBatch, Goto, Keys
<1>1. /\ at' \in [Jobs -> Locations] /\ at'[j] = "idle"
      /\ \A o \in Jobs : o # j => at'[o] = at[o] /\ written'[o] = written[o]
  BY <1>0 DEF TypeOK, Locations
<1>a. /\ stats \in [Keys -> 0..MaxInt] /\ MaxInt \in Nat
      /\ written \in [Jobs -> [Keys -> 0..MaxInt]]
  BY BoundsAssumption DEF Keys, TypeOK
<1>b. Nothing \in [Keys -> 0..MaxInt] /\ \A k \in Keys : Nothing[k] = 0
  BY <1>a DEF Nothing, Keys
<1>2. /\ Nothing \in [Keys -> 0..MaxInt] /\ \A k \in Keys : Nothing[k] = 0
      /\ stats \in [Keys -> 0..MaxInt] /\ MaxInt \in Nat
      /\ written \in [Jobs -> [Keys -> 0..MaxInt]]
  BY <1>a, <1>b
<1>3. written' \in [Jobs -> [Keys -> 0..MaxInt]] /\ written'[j] = Nothing
  BY <1>0, <1>2
<1>4. \A k \in Keys : stats[k] + written[j][k] \in 0..MaxInt
  BY <1>2 DEF Room
<1>5. stats' \in [Keys -> 0..MaxInt] /\ \A k \in Keys : stats'[k] = stats[k] + written[j][k]
  BY <1>0, <1>4
<1>6. /\ Tokens(j) \cap (raw \cup stray) = {}
      /\ \A x \in Tokens(j) : x.job = j /\ x.run = run[j] /\ x.ev \in Events
      /\ run[j] \in 1..run[j]
  <2>1. \A x \in Tokens(j) : x.job = j /\ x.run = run[j] /\ x.ev \in Events
    BY SeqFacts DEF Tokens, Token
  <2>2. Tokens(j) \cap (raw \cup stray) = {}
    BY <2>1, <1>0 DEF Fresh
  <2>3. run \in [Jobs -> 0..MaxRuns] /\ run[j] > 0
    BY <1>0 DEF TypeOK, Shape
  <2> QED
    BY <2>1, <2>2, <2>3, BoundsAssumption
<1>7. TypeOK'
  <2>1. /\ run' \in [Jobs -> 0..MaxRuns]
        /\ events' \in [Jobs -> {<<>>} \cup Batches \cup {<<s>> : s \in Singles}]
        /\ todo' \in [Jobs -> SUBSET Groups]
        /\ group' \in [Jobs -> Groups \cup {NoGroup}]
    BY <1>0 DEF TypeOK
  <2>2. \A x \in raw' \cup stray' : x.job \in Jobs /\ x.run \in 1..run'[x.job] /\ x.ev \in Events
    BY <1>0, <1>6 DEF TypeOK
  <2>3. \A o \in Jobs : at'[o] \notin {"range", "upsert"} => written'[o] = Nothing
    BY <1>1, <1>3 DEF TypeOK
  <2> QED
    BY <1>1, <1>3, <1>5, <2>1, <2>2, <2>3 DEF TypeOK, Keys
<1>8. Shape'
  BY <1>0, <1>1 DEF Shape
<1>9. Sums'
  <2>1. \A o \in Jobs : InBatch(o)' => InBatch(o) /\ o # j
    BY <1>1 DEF InBatch
  <2>2. \A o \in Jobs : \A k \in Keys : Done(o, k)' = Done(o, k)
    BY <1>0 DEF Done
  <2> QED
    BY <1>1, <2>1, <2>2 DEF Sums, Keys
<1>10. Locks'
  <2>1. \A row \in Rows : \A t \in Types : written'[j][<<row, t>>] = 0
    BY <1>2, <1>3 DEF Keys
  <2> SUFFICES ASSUME NEW o \in Jobs, NEW v \in Jobs, NEW row \in Rows, NEW t \in Types, NEW u \in Types,
                      o # v, written'[o][<<row, t>>] > 0
               PROVE  written'[v][<<row, u>>] = 0
    BY DEF Locks
  <2>2. CASE v = j
    BY <2>1, <2>2
  <2>3. CASE o = j
    BY <2>1, <2>3
  <2>4. CASE v # j /\ o # j
    BY <2>4, <1>1 DEF Locks
  <2> QED
    BY <2>2, <2>3, <2>4
<1>11. Room'
  <2> SUFFICES ASSUME NEW o \in Jobs, NEW k \in Keys PROVE stats'[k] + written'[o][k] <= MaxInt
    BY DEF Room, Keys
  <2>1. written[j][k] \in Nat /\ written[o][k] \in Nat /\ stats[k] \in Nat
    BY <1>2
  <2>2. CASE o = j
    BY <2>2, <1>2, <1>3, <1>5
  <2>3. CASE o # j /\ written[j][k] > 0
    <3>1. written[o][k] = 0
      BY <2>3, KeyFacts DEF Locks
    <3> QED
      BY <3>1, <2>3, <1>1, <1>2, <1>5
  <2>4. CASE o # j /\ written[j][k] = 0
    <3>1. stats'[k] = stats[k] /\ written'[o][k] = written[o][k]
      BY <2>1, <2>4, <1>1, <1>5
    <3> QED
      BY <3>1 DEF Room
  <2> QED
    BY <2>1, <2>2, <2>3, <2>4
<1>12. IsFiniteSet(Tokens(j)) /\ IsFiniteSet(raw \cup stray)
  <2> DEFINE f == [i \in DOMAIN events[j] |-> Token(j, i)]
  <2>1. f \in Surjection(DOMAIN events[j], Tokens(j))
    BY DEF Surjection, Tokens
  <2>2. IsFiniteSet(DOMAIN events[j])
    BY SeqFacts
  <2> HIDE DEF f
  <2> QED
    BY <2>1, <2>2, FS_Surjection DEF Fresh
<1>13. raw' \cup stray' = (raw \cup stray) \cup Tokens(j)
  BY <1>0
<1>14. Fresh'
  <2>1. \A o \in Jobs : Tokens(o)' = Tokens(o)
    BY <1>0 DEF Tokens, Token
  <2>2. \A x \in raw' \cup stray' : x.run = run'[x.job] => at'[x.job] \in {"idle", "commit"}
    BY <1>0, <1>1, <1>6 DEF Fresh, TypeOK
  <2>3. \A o \in Jobs : at'[o] = "commit" => at[o] = "commit"
    BY <1>1
  <2>4. IsFiniteSet(raw' \cup stray')
    BY <1>12, <1>13, FS_Union
  <2> QED
    BY <1>0, <2>1, <2>2, <2>3, <2>4 DEF Fresh
<1>15. StatsAccounted'
  <2> SUFFICES ASSUME NEW k \in Keys PROVE stats'[k] = Cardinality(Counted(k)')
    BY DEF StatsAccounted, Keys
  <2> DEFINE T == {x \in Tokens(j) : Hits(x.ev, k)}
             D == {i \in DOMAIN events[j] : Hits(events[j][i], k)}
  <2>1. Cardinality(Counted(k)') = Cardinality(Counted(k)) + Cardinality(T)
    BY <1>6, <1>12, <1>13, CountedGrows
  <2>2. Cardinality(T) = Cardinality(D)
    BY TokenCount
  <2>3. D = Done(j, k)
    BY <1>0 DEF Done
  <2>4. written[j][k] = Cardinality(Done(j, k))
    BY <1>0 DEF Sums, InBatch
  <2>5. stats[k] = Cardinality(Counted(k))
    BY DEF StatsAccounted, Keys
  <2> HIDE DEF T, D
  <2> QED
    BY <2>1, <2>2, <2>3, <2>4, <2>5, <1>5
<1> QED
  BY <1>7, <1>8, <1>9, <1>10, <1>11, <1>14, <1>15

LEMMA NextInv == IInv /\ [Next]_vars => IInv'
<1> SUFFICES ASSUME IInv, [Next]_vars PROVE IInv'
  OBVIOUS
<1>1. CASE UNCHANGED vars
  <2>1. UNCHANGED <<at, run, events, todo, group, written, stats, raw, stray>>
    BY <1>1 DEF vars
  <2>2. TypeOK' /\ Shape' /\ Locks' /\ Room'
    BY <2>1 DEF IInv, TypeOK, Shape, Locks, Room
  <2>3. Sums'
    BY <2>1 DEF IInv, Sums, InBatch, Done
  <2>4. Fresh'
    BY <2>1 DEF IInv, Fresh, Tokens, Token
  <2>5. StatsAccounted'
    BY <2>1 DEF IInv, StatsAccounted, Counted
  <2> QED
    BY <2>2, <2>3, <2>4, <2>5 DEF IInv
<1>2. CASE Next
  <2>1. PICK j \in Jobs : \/ \E e \in Singles : Insert(j, e)
                          \/ \E s \in Batches : Copy(j, s)
                          \/ Progress(j) \/ Fail(j) \/ FailBatch(j)
    BY <1>2 DEF Next
  <2>2. CASE \E e \in Singles : Insert(j, e)
    BY <2>2, InsertInv
  <2>3. CASE \E s \in Batches : Copy(j, s)
    BY <2>3, CopyInv
  <2>4. CASE Fail(j)
    BY <2>4, FailInv
  <2>5. ASSUME FailBatch(j) PROVE IInv'
    BY <2>5, RollbackInv DEF FailBatch
  <2>6. CASE Progress(j)
    <3>1. CASE Upsert(j)
      BY <3>1, UpsertInv
    <3>2. CASE Commit(j)
      BY <3>2, CommitInv
    <3>3. CASE \E g \in todo[j] : Visit(j, g)
      BY <3>3, VisitInv
    <3>4. CASE UpsertGroup(j)
      BY <3>4, UpsertGroupInv
    <3>5. CASE CommitBatch(j)
      BY <3>5, CommitBatchInv
    <3>6. CASE BreakDeadlock(j)
      BY <3>6, <2>5 DEF BreakDeadlock
    <3>7. CASE OutOfRange(j)
      BY <3>7, <2>5, FailInv DEF OutOfRange
    <3> QED
      BY <2>6, <3>1, <3>2, <3>3, <3>4, <3>5, <3>6, <3>7 DEF Progress
  <2> QED
    BY <2>1, <2>2, <2>3, <2>4, <2>5, <2>6
<1> QED
  BY <1>1, <1>2

\* IInv is inductive.
THEOREM Inductive == Spec => []IInv
BY InitInv, NextInv, PTL DEF Spec

\* No total passes its column and no run leaves a lock.
THEOREM TypeCorrect == Spec => []TypeOK
<1>1. IInv => TypeOK
  BY DEF IInv
<1> QED
  BY <1>1, Inductive, PTL

\* Every total is the number of events added to it.
THEOREM StatsAlwaysAccounted == Spec => []StatsAccounted
<1>1. IInv => StatsAccounted
  BY DEF IInv
<1> QED
  BY <1>1, Inductive, PTL

\* Committed totals never go down.
LEMMA StatsGrow == ASSUME IInv, [Next]_vars PROVE \A k \in Keys : stats[k] <= stats'[k]
<1>1. /\ stats \in [Keys -> 0..MaxInt] /\ MaxInt \in Nat
      /\ written \in [Jobs -> [Keys -> 0..MaxInt]]
  BY BoundsAssumption DEF IInv, TypeOK, Keys
<1>2. \A k \in Keys : stats[k] \in Nat
  BY <1>1
<1>3. ASSUME NEW j \in Jobs, Upsert(j) PROVE \A k \in Keys : stats[k] <= stats'[k]
  <2>1. stats' = [stats EXCEPT ![<<RowOf(events[j][1]), events[j][1].type>>] = @ + 1]
    BY <1>3 DEF Upsert, Added
  <2> DEFINE q == <<RowOf(events[j][1]), events[j][1].type>>
  <2>2. \A k \in Keys : stats'[k] = IF k = q THEN stats[k] + 1 ELSE stats[k]
    BY <2>1, <1>1
  <2> QED
    BY <2>2, <1>2
<1>4. ASSUME NEW j \in Jobs, CommitBatch(j) PROVE \A k \in Keys : stats[k] <= stats'[k]
  <2>1. stats' = [k \in Keys |-> stats[k] + written[j][k]]
    BY <1>4 DEF CommitBatch, Keys
  <2>2. \A k \in Keys : written[j][k] \in Nat
    BY <1>1
  <2> QED
    BY <2>1, <2>2, <1>2
<1>5. stats' = stats => \A k \in Keys : stats[k] <= stats'[k]
  BY <1>2
<1>6. CASE UNCHANGED vars
  BY <1>5, <1>6 DEF vars
<1>7. CASE Next
  <2>1. PICK j \in Jobs : \/ \E e \in Singles : Insert(j, e)
                          \/ \E s \in Batches : Copy(j, s)
                          \/ Progress(j) \/ Fail(j) \/ FailBatch(j)
    BY <1>7 DEF Next
  <2>2. Upsert(j) \/ CommitBatch(j) \/ stats' = stats
    BY <2>1 DEF Insert, Copy, Progress, Commit, Visit, UpsertGroup, BreakDeadlock, OutOfRange,
                Fail, FailBatch, Rollback
  <2> QED
    BY <2>2, <1>3, <1>4, <1>5
<1> QED
  BY <1>6, <1>7
-----------------------------------------------------------------------------
(* No call waits for ever                                                  *)

\* Nothing but the order of the runs keeps job j from its next step: the guards of
\* Progress(j), where a row that is locked may be waited for in vain.
Ready(j) ==
    \/ at[j] \in {"commit", "range"}
    \/ at[j] = "stats" /\ ~LockedFor(j, RowOf(events[j][1]))
    \/ at[j] = "upsert" /\ (~LockedFor(j, GroupRow(j)) \/ InCycle(j))

NobodyStuck == (\E j \in Jobs : at[j] # "idle") => \E j \in Jobs : Ready(j)

\* Among finitely many transactions that each wait for another of them there are some
\* that wait for each other in a cycle.
LEMMA WaitersMeet ==
    ASSUME IsFiniteSet(Jobs), NEW W \in SUBSET Jobs, W # {},
           \A o \in W : \E p \in W : WaitsFor(o, p)
    PROVE  \E j \in W : InCycle(j)
<1> DEFINE Closed(S) == S # {} /\ \A o \in S : \E p \in S : WaitsFor(o, p)
           F == FiniteSubsetsOf(Jobs)
           T == {S \in SUBSET W : Closed(S)}
<1>1. W \in T
  OBVIOUS
<1>2. T \subseteq F
  BY FS_Subset DEF FiniteSubsetsOf
<1>3. IsWellFoundedOn(StrictSubsetOrdering(Jobs), F)
  BY FS_StrictSubsetOrderingWellFounded
<1> HIDE DEF T, F
<1>4. PICK C \in T : \A S \in T : ~(<<S, C>> \in StrictSubsetOrdering(Jobs))
  BY <1>1, <1>2, <1>3, WFMin
<1> USE DEF T
<1>5. C \in SUBSET W /\ Closed(C)
  OBVIOUS
<1> DEFINE D == {p \in C : \E o \in C : WaitsFor(o, p)}
<1>6. D \in SUBSET W /\ Closed(D)
  BY <1>5
<1>7. D = C
  <2>1. D \in T
    BY <1>6
  <2>2. ~(<<D, C>> \in StrictSubsetOrdering(Jobs))
    BY <1>4, <2>1
  <2>3. D \in SUBSET Jobs /\ C \in SUBSET Jobs /\ D \subseteq C
    BY <1>5
  <2> QED
    BY <2>2, <2>3 DEF StrictSubsetOrdering
<1>8. PICK j \in C : TRUE
  BY <1>5
<1>9. \A o \in C : (\E p \in C : WaitsFor(o, p)) /\ (\E p \in C : WaitsFor(p, o))
  BY <1>5, <1>7
<1>10. InCycle(j)
  BY <1>5, <1>8, <1>9 DEF InCycle
<1> QED
  BY <1>5, <1>8, <1>10

\* The row that a job waits for was written by a batch that is still in hand.
LEMMA LockHolder ==
    ASSUME IInv, NEW j \in Jobs, NEW row \in Rows, LockedFor(j, row)
    PROVE  \E o \in Jobs : /\ o # j /\ InBatch(o)
                           /\ \E t \in Types : written[o][<<row, t>>] > 0
<1>1. PICK o \in Jobs \ {j} : \E t \in Types : written[o][<<row, t>>] > 0
  BY DEF LockedFor
<1>2. PICK t \in Types : written[o][<<row, t>>] > 0
  BY <1>1
<1>3. written[o] # Nothing
  BY <1>2 DEF Nothing
<1>4. InBatch(o)
  BY <1>3 DEF IInv, TypeOK, InBatch
<1> QED
  BY <1>1, <1>4

\* While a call of a writer is in hand, some call can go on: who waits for a row waits for
\* a batch, and when all of these wait for each other Postgres breaks the cycle, however
\* many jobs lock how many rows in whatever order (repo.go:185-211).
THEOREM NoLockDeadlock == IsFiniteSet(Jobs) => (Spec => []NobodyStuck)
<1> SUFFICES ASSUME IsFiniteSet(Jobs)
             PROVE  Spec => []NobodyStuck
  OBVIOUS
<1>1. ASSUME IInv, NEW j \in Jobs, at[j] # "idle"
      PROVE  \E o \in Jobs : Ready(o)
  <2> SUFFICES ASSUME \A o \in Jobs : ~Ready(o)
               PROVE  FALSE
    OBVIOUS
  <2> DEFINE W == {o \in Jobs : at[o] = "upsert"}
  <2>1. at \in [Jobs -> Locations]
    BY <1>1 DEF IInv, TypeOK
  <2>2. \A o \in Jobs : InBatch(o) => o \in W
    BY DEF Ready, InBatch
  <2>3. ASSUME NEW o \in W
        PROVE  \E p \in W : WaitsFor(o, p)
    <3>1. LockedFor(o, GroupRow(o)) /\ at[o] = "upsert"
      BY <2>3 DEF Ready
    <3>2. GroupRow(o) \in Rows
      BY <1>1, <3>1, GroupFacts
    <3> QED
      BY <1>1, <2>2, <3>1, <3>2, LockHolder DEF WaitsFor
  <2>4. W # {}
    <3>1. CASE at[j] = "stats"
      <4>1. LockedFor(j, RowOf(events[j][1]))
        BY <3>1 DEF Ready
      <4>2. RowOf(events[j][1]) \in Rows
        <5>1. events[j] \in Seq(Events) /\ Len(events[j]) = 1
          BY <1>1, <3>1, SeqFacts DEF IInv, Shape
        <5>2. events[j][1] \in Events
          BY <5>1
        <5> QED
          BY <5>2, EventFacts
      <4> QED
        BY <1>1, <2>2, <4>1, <4>2, LockHolder
    <3>2. CASE at[j] = "upsert"
      BY <3>2
    <3> QED
      BY <1>1, <2>1, <3>1, <3>2 DEF Ready, Locations
  <2>5. PICK o \in W : InCycle(o)
    BY <2>3, <2>4, WaitersMeet
  <2> QED
    BY <2>5 DEF Ready
<1>2. IInv => NobodyStuck
  BY <1>1 DEF NobodyStuck
<1> QED
  BY <1>2, Inductive, PTL

-----------------------------------------------------------------------------
(* One clock, one row                                                      *)

\* Events of one hour on a clock a whole number of hours from UTC have one bucket.
LEMMA SameBucket ==
    ASSUME NEW z \in Int, NEW a \in Int, NEW b \in Int, a \div 2 = b \div 2
    PROVE  (a + 2 * z) \div 2 = (b + 2 * z) \div 2
  OBVIOUS

\* If all events carried the same zone, a whole number of hours from UTC, the events of one
\* campaign and hour would be counted in one row, as 0001_init.up.sql:30 has it.
THEOREM OneClockOneRow ==
    ASSUME NEW z \in Int, \A e \in Events : e.zone = 2 * z
    PROVE  Spec => []OneRowPerHour
<1>1. ASSUME IInv, NEW x \in raw, NEW y \in raw,
             x.ev.camp = y.ev.camp, x.ev.at \div 2 = y.ev.at \div 2
      PROVE  RowOf(x.ev) = RowOf(y.ev)
  <2>1. x.ev \in Events /\ y.ev \in Events
    BY <1>1 DEF IInv, TypeOK
  <2>2. /\ x.ev.at \in Int /\ y.ev.at \in Int
        /\ x.ev.zone = 2 * z /\ y.ev.zone = 2 * z
    BY <2>1, EventsAssumption
  <2>3. (x.ev.at + 2 * z) \div 2 = (y.ev.at + 2 * z) \div 2
    BY <1>1, <2>2, SameBucket
  <2> QED
    BY <1>1, <2>2, <2>3 DEF RowOf, GetHourBucket, Wall
<1>2. IInv => OneRowPerHour
  BY <1>1 DEF OneRowPerHour
<1> QED
  BY <1>2, Inductive, PTL
=============================================================================
