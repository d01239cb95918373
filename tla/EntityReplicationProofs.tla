----------------------- MODULE EntityReplicationProofs -----------------------
(***************************************************************************)
(* Proofs about EntityReplication, for every number of players, slots,     *)
(* models and positions.  A client reads its stream one packet after the   *)
(* other; first comes what reading is, then one lemma per action that the  *)
(* table, the players and what each client will show stay in step.         *)
(***************************************************************************)
EXTENDS EntityReplication, SequenceFacts

USE ReplicationAssumption

Views == [ShownIds -> ShownRecords]

----------------------------------------------------------------------------
(* Reading a stream of packets.                                            *)

\* f[n] is what a client shows after n packets.
IsReading(f, shown, packets) ==
    /\ f \in [0 .. Len(packets) -> Views]
    /\ f[0] = shown
    /\ \A n \in 1 .. Len(packets) : f[n] = Shown(f[n - 1], packets[n])

\* What is shown after one packet: it changes at most what is under its number.
ShownOne(v, m, id, shown) ==
    /\ shown \in Views
    /\ \A o \in ShownIds : o # id => shown[o] = v[o]
    /\ shown[id] =
           IF m.kind = "spawn" THEN m.entity
           ELSE IF v[id] = Absent THEN Absent
           ELSE IF m.kind = "teleport" THEN [v[id] EXCEPT !.at = m.entity.at]
           ELSE IF m.kind = "model" THEN [v[id] EXCEPT !.model = m.entity.model]
           ELSE Absent

\* That is what Shown computes.
LEMMA ShownFacts ==
    ASSUME NEW v \in Views, NEW m \in Packets, NEW id, m.id = id
    PROVE  ShownOne(v, m, id, Shown(v, m))
<1> USE DEF ShownOne
<1>1. /\ m.id \in ShownIds /\ m.entity \in ShownRecords
      /\ v[m.id] \in ShownRecords /\ Absent \in ShownRecords
  BY DEF Views, Packets, ShownRecords, Absent
<1>2. /\ [v[m.id] EXCEPT !.at = m.entity.at] \in ShownRecords
      /\ [v[m.id] EXCEPT !.model = m.entity.model] \in ShownRecords
  BY <1>1 DEF ShownRecords
<1>3. \A r \in ShownRecords :
          /\ [v EXCEPT ![m.id] = r] \in Views
          /\ [v EXCEPT ![m.id] = r][m.id] = r
          /\ \A o \in ShownIds : o # m.id => [v EXCEPT ![m.id] = r][o] = v[o]
  BY <1>1 DEF Views
<1>4. CASE m.kind = "spawn"
  BY <1>1, <1>3, <1>4 DEF Shown
<1>5. CASE m.kind # "spawn" /\ v[m.id] = Absent
  BY <1>1, <1>3, <1>5 DEF Shown
<1>6. CASE m.kind # "spawn" /\ v[m.id] # Absent
  <2>1. CASE m.kind = "teleport"
    <3> DEFINE r == [v[m.id] EXCEPT !.at = m.entity.at]
    <3>1. Shown(v, m) = [v EXCEPT ![m.id] = r]
      BY <1>6, <2>1 DEF Shown
    <3>2. r \in ShownRecords
      BY <1>2
    <3> HIDE DEF r
    <3>3. /\ Shown(v, m) \in Views /\ Shown(v, m)[m.id] = r
          /\ \A o \in ShownIds : o # m.id => Shown(v, m)[o] = v[o]
      BY <1>1, <3>1, <3>2 DEF Views
    <3> QED
      BY <1>6, <2>1, <3>3 DEF r
  <2>2. CASE m.kind = "model"
    <3> DEFINE r == [v[m.id] EXCEPT !.model = m.entity.model]
    <3>1. Shown(v, m) = [v EXCEPT ![m.id] = r]
      BY <1>6, <2>2 DEF Shown
    <3>2. r \in ShownRecords
      BY <1>2
    <3> HIDE DEF r
    <3>3. /\ Shown(v, m) \in Views /\ Shown(v, m)[m.id] = r
          /\ \A o \in ShownIds : o # m.id => Shown(v, m)[o] = v[o]
      BY <1>1, <3>1, <3>2 DEF Views
    <3> QED
      BY <1>6, <2>2, <3>3 DEF r
  <2>3. CASE m.kind \notin {"teleport", "model"}
    BY <1>1, <1>3, <1>6, <2>3 DEF Shown
  <2> QED
    BY <2>1, <2>2, <2>3
<1> QED
  BY <1>4, <1>5, <1>6

\* Every stream can be read.
LEMMA ReadingExists ==
    ASSUME NEW v \in Views, NEW s \in Seq(Packets)
    PROVE  \E f : IsReading(f, v, s)
<1>1. Len(s) \in Nat /\ \A n \in 1 .. Len(s) : s[n] \in Packets
  BY LenProperties, ElementOfSeq
<1> DEFINE Upto(n) == \E f \in [0 .. n -> Views] :
               f[0] = v /\ \A k \in 1 .. n : f[k] = Shown(f[k - 1], s[k])
           Bad == {n \in 0 .. Len(s) : ~ Upto(n)}
<1>2. Upto(0)
  <2>1. [k \in 0 .. 0 |-> v] \in [0 .. 0 -> Views] /\ [k \in 0 .. 0 |-> v][0] = v
    OBVIOUS
  <2>2. \A k \in 1 .. 0 : FALSE
    OBVIOUS
  <2> QED
    BY <2>1, <2>2
<1>3. ASSUME NEW n \in 1 .. Len(s), Upto(n - 1) PROVE Upto(n)
  <2>1. PICK f \in [0 .. n - 1 -> Views] :
            f[0] = v /\ \A k \in 1 .. n - 1 : f[k] = Shown(f[k - 1], s[k])
    BY <1>3
  <2>2. n \in Nat /\ n - 1 \in 0 .. n - 1 /\ s[n] \in Packets
    BY <1>1
  <2>3. Shown(f[n - 1], s[n]) \in Views
    BY <2>1, <2>2, ShownFacts DEF ShownOne
  <2> DEFINE g == [k \in 0 .. n |-> IF k = n THEN Shown(f[n - 1], s[n]) ELSE f[k]]
  <2>4. g \in [0 .. n -> Views] /\ g[0] = v
    BY <2>1, <2>2, <2>3
  <2>5. \A k \in 1 .. n : g[k] = Shown(g[k - 1], s[k])
    BY <2>1, <2>2
  <2> QED
    BY <2>4, <2>5
<1>4. Bad = {}
  <2> SUFFICES ASSUME Bad # {} PROVE FALSE
    OBVIOUS
  <2>1. Bad \in SUBSET Nat
    BY <1>1
  <2> HIDE DEF Upto
  <2>2. PICK n \in Bad : \A k \in Bad : n <= k
    <3> HIDE DEF Bad
    <3> QED
      BY <2>1, LeastOne
  <2>3. n \in 1 .. Len(s) /\ n - 1 \in 0 .. Len(s) /\ n - 1 \notin Bad
    BY <1>1, <1>2, <2>2
  <2> QED
    BY <1>3, <2>2, <2>3
<1>5. Upto(Len(s))
  <2> HIDE DEF Upto
  <2> QED
    BY <1>1, <1>4
<1> QED
  BY <1>5 DEF IsReading

\* There is one way to read a stream.
LEMMA ReadingIsUnique ==
    ASSUME NEW v \in Views, NEW s \in Seq(Packets),
           NEW f, IsReading(f, v, s),
           NEW g, g = [n \in 0 .. Len(s) |-> IF n = 0 THEN v ELSE Shown(g[n - 1], s[n])]
    PROVE  f = g
<1>1. Len(s) \in Nat
  BY LenProperties
<1>5. g[0] = v /\ \A n \in 1 .. Len(s) : g[n] = Shown(g[n - 1], s[n])
  <2>1. \A n \in 0 .. Len(s) : g[n] = IF n = 0 THEN v ELSE Shown(g[n - 1], s[n])
    OBVIOUS
  <2> QED
    BY <1>1, <2>1
<1> DEFINE Bad == {n \in 0 .. Len(s) : f[n] # g[n]}
<1>2. Bad = {}
  <2> SUFFICES ASSUME Bad # {} PROVE FALSE
    OBVIOUS
  <2>1. Bad \in SUBSET Nat
    BY <1>1
  <2>2. PICK n \in Bad : \A k \in Bad : n <= k
    <3> HIDE DEF Bad
    <3> QED
      BY <2>1, LeastOne
  <2>3. n # 0
    BY <1>5, <2>2 DEF IsReading
  <2>4. n \in 1 .. Len(s) /\ n - 1 \in 0 .. Len(s) /\ n - 1 \notin Bad
    BY <1>1, <2>2, <2>3
  <2>5. f[n - 1] = g[n - 1]
    BY <2>4
  <2>6. f[n] = g[n]
    BY <1>5, <2>4, <2>5 DEF IsReading
  <2> QED
    BY <2>2, <2>6
<1>3. \A n \in 0 .. Len(s) : f[n] = g[n]
  BY <1>2
<1>4. f = [n \in 0 .. Len(s) |-> f[n]] /\ g = [n \in 0 .. Len(s) |-> g[n]]
  BY DEF IsReading
<1> QED
  BY <1>3, <1>4

\* What Read finds is the end of that reading.
LEMMA ReadIs ==
    ASSUME NEW v \in Views, NEW s \in Seq(Packets), NEW f, IsReading(f, v, s)
    PROVE  Read(v, s) = f[Len(s)] /\ Read(v, s) \in Views
<1> DEFINE Step(g) == [n \in 0 .. Len(s) |-> IF n = 0 THEN v ELSE Shown(g[n - 1], s[n])]
           after == CHOOSE g : g = Step(g)
<1>1. Len(s) \in Nat
  BY LenProperties
<1>2. f = Step(f)
  <2>1. \A n \in 0 .. Len(s) : f[n] = Step(f)[n]
    BY <1>1 DEF IsReading
  <2>2. f = [n \in 0 .. Len(s) |-> f[n]]
    BY DEF IsReading
  <2> QED
    BY <2>1, <2>2
<1>3. after = Step(after)
  BY <1>2
<1>4. after = f
  <2> HIDE DEF after
  <2> QED
    BY <1>3, ReadingIsUnique
<1>5. Read(v, s) = after[Len(s)]
  BY DEF Read
<1> HIDE DEF after
<1> QED
  BY <1>1, <1>4, <1>5 DEF IsReading

\* What is shown after a stream is a picture of every number.
LEMMA ReadType ==
    ASSUME NEW v \in Views, NEW s \in Seq(Packets)
    PROVE  Read(v, s) \in Views
  BY ReadingExists, ReadIs

\* Nothing on its way changes nothing.
LEMMA ReadNone ==
    ASSUME NEW v \in Views
    PROVE  Read(v, <<>>) = v
<1>1. <<>> \in Seq(Packets) /\ Len(<<>>) = 0
  BY EmptySeq
<1>2. PICK f : IsReading(f, v, <<>>)
  BY <1>1, ReadingExists
<1>3. Read(v, <<>>) = f[Len(<<>>)]
  BY <1>1, <1>2, ReadIs
<1> QED
  BY <1>1, <1>2, <1>3 DEF IsReading

\* One packet is read as Shown says.
LEMMA ReadOne ==
    ASSUME NEW v \in Views, NEW m \in Packets
    PROVE  Read(v, <<m>>) = Shown(v, m)
<1>1. <<m>> \in Seq(Packets) /\ Len(<<m>>) = 1 /\ <<m>>[1] = m
  OBVIOUS
<1>2. PICK f : IsReading(f, v, <<m>>)
  BY <1>1, ReadingExists
<1>3. Read(v, <<m>>) = f[Len(<<m>>)]
  BY <1>1, <1>2, ReadIs
<1>4. 1 \in 1 .. 1 /\ 1 - 1 = 0
  OBVIOUS
<1> QED
  BY <1>1, <1>2, <1>3, <1>4 DEF IsReading

\* One stream is read after the other.
LEMMA ReadConcat ==
    ASSUME NEW v \in Views, NEW s \in Seq(Packets), NEW t \in Seq(Packets)
    PROVE  /\ s \o t \in Seq(Packets)
           /\ Read(v, s) \in Views
           /\ Read(v, s \o t) = Read(Read(v, s), t)
<1> DEFINE u == s \o t
<1>1. /\ u \in Seq(Packets) /\ Len(u) = Len(s) + Len(t)
      /\ Len(s) \in Nat /\ Len(t) \in Nat
      /\ \A i \in 1 .. Len(s) + Len(t) : u[i] = IF i <= Len(s) THEN s[i] ELSE t[i - Len(s)]
  BY ConcatProperties, LenProperties
<1> HIDE DEF u
<1>2. PICK f : IsReading(f, v, s)
  BY ReadingExists
<1>3. Read(v, s) = f[Len(s)] /\ Read(v, s) \in Views
  BY <1>2, ReadIs
<1>4. PICK g : IsReading(g, Read(v, s), t)
  BY <1>3, ReadingExists
<1>5. Read(Read(v, s), t) = g[Len(t)]
  BY <1>3, <1>4, ReadIs
<1> DEFINE h == [n \in 0 .. Len(u) |-> IF n <= Len(s) THEN f[n] ELSE g[n - Len(s)]]
<1>6. h \in [0 .. Len(u) -> Views]
  <2> SUFFICES ASSUME NEW n \in 0 .. Len(u)
               PROVE  (IF n <= Len(s) THEN f[n] ELSE g[n - Len(s)]) \in Views
    OBVIOUS
  <2>1. CASE n <= Len(s)
    <3>1. n \in 0 .. Len(s)
      BY <1>1, <2>1
    <3> QED
      BY <1>2, <2>1, <3>1 DEF IsReading
  <2>2. CASE ~ (n <= Len(s))
    <3>1. n - Len(s) \in 0 .. Len(t)
      BY <1>1, <2>2
    <3> QED
      BY <1>4, <2>2, <3>1 DEF IsReading
  <2> QED
    BY <2>1, <2>2
<1>7. h[0] = v
  BY <1>1, <1>2 DEF IsReading
<1>8. \A n \in 1 .. Len(u) : h[n] = Shown(h[n - 1], u[n])
  <2> SUFFICES ASSUME NEW n \in 1 .. Len(u) PROVE h[n] = Shown(h[n - 1], u[n])
    OBVIOUS
  <2>1. CASE n <= Len(s)
    <3>1. n \in 1 .. Len(s) /\ n - 1 <= Len(s) /\ n - 1 \in 0 .. Len(u) /\ n \in 0 .. Len(u)
      BY <1>1, <2>1
    <3>2. h[n] = f[n] /\ h[n - 1] = f[n - 1] /\ u[n] = s[n]
      BY <1>1, <2>1, <3>1
    <3> QED
      BY <1>2, <3>1, <3>2 DEF IsReading
  <2>2. CASE n = Len(s) + 1
    <3>1. /\ ~ (n <= Len(s)) /\ n - 1 = Len(s) /\ Len(s) <= Len(s) /\ n - Len(s) = 1 /\ 1 - 1 = 0
          /\ n - 1 \in 0 .. Len(u) /\ n \in 0 .. Len(u) /\ 1 \in 1 .. Len(t)
      BY <1>1, <2>2
    <3>2. h[n] = g[1] /\ h[n - 1] = f[Len(s)] /\ u[n] = t[1]
      BY <1>1, <3>1
    <3>3. g[1] = Shown(g[0], t[1]) /\ g[0] = f[Len(s)]
      BY <1>3, <1>4, <3>1 DEF IsReading
    <3> QED
      BY <3>2, <3>3
  <2>3. CASE n > Len(s) + 1
    <3>1. /\ ~ (n <= Len(s)) /\ ~ (n - 1 <= Len(s)) /\ n - Len(s) \in 1 .. Len(t)
          /\ (n - 1) - Len(s) = (n - Len(s)) - 1
          /\ n - 1 \in 0 .. Len(u) /\ n \in 0 .. Len(u)
      BY <1>1, <2>3
    <3>2. h[n] = g[n - Len(s)] /\ h[n - 1] = g[(n - Len(s)) - 1] /\ u[n] = t[n - Len(s)]
      BY <1>1, <3>1
    <3> QED
      BY <1>4, <3>1, <3>2 DEF IsReading
  <2> QED
    BY <1>1, <2>1, <2>2, <2>3
<1>9. h[Len(u)] = g[Len(t)]
  <2>1. CASE Len(t) = 0
    <3>1. Len(u) = Len(s) /\ Len(u) \in 0 .. Len(u) /\ Len(u) <= Len(s)
      BY <1>1, <2>1
    <3> QED
      BY <1>3, <1>4, <2>1, <3>1 DEF IsReading
  <2>2. CASE Len(t) # 0
    BY <1>1, <2>2
  <2> QED
    BY <2>1, <2>2
<1>10. IsReading(h, v, u)
  BY <1>6, <1>7, <1>8 DEF IsReading
<1> HIDE DEF h
<1>11. Read(v, u) = h[Len(u)]
  BY <1>1, <1>10, ReadIs
<1> QED
  BY <1>1, <1>3, <1>5, <1>9, <1>11 DEF u

\* A stream is read from its head.
LEMMA ReadHead ==
    ASSUME NEW v \in Views, NEW s \in Seq(Packets), s # <<>>
    PROVE  /\ Head(s) \in Packets /\ Tail(s) \in Seq(Packets)
           /\ Shown(v, Head(s)) \in Views
           /\ Read(Shown(v, Head(s)), Tail(s)) = Read(v, s)
<1>1. /\ <<Head(s)>> \in Seq(Packets) /\ Tail(s) \in Seq(Packets)
      /\ s = <<Head(s)>> \o Tail(s) /\ Head(s) \in Packets
  BY HeadThenTail, HeadTailProperties, EmptySeq
<1>2. Read(v, <<Head(s)>>) = Shown(v, Head(s))
  BY <1>1, ReadOne
<1>3. /\ Read(v, <<Head(s)>>) \in Views
      /\ Read(v, <<Head(s)>> \o Tail(s)) = Read(Read(v, <<Head(s)>>), Tail(s))
  BY <1>1, ReadConcat
<1> QED
  BY <1>1, <1>2, <1>3

\* Two packets are read one after the other.
LEMMA ReadTwo ==
    ASSUME NEW v \in Views, NEW a \in Packets, NEW b \in Packets
    PROVE  Read(v, <<a>> \o <<b>>) = Shown(Shown(v, a), b)
<1>1. <<a>> \in Seq(Packets) /\ <<b>> \in Seq(Packets)
  OBVIOUS
<1>2. Read(v, <<a>> \o <<b>>) = Read(Read(v, <<a>>), <<b>>) /\ Read(v, <<a>>) \in Views
  BY <1>1, ReadConcat
<1> QED
  BY <1>2, ReadOne

----------------------------------------------------------------------------
(* The inductive invariant.                                                *)

\* What a client will show is right, of the others and of its own player.
SeesTable(p) ==
    seated[p] /\ ~left[p] =>
        /\ \A id \in EntityIds : ShowsEntity(p, entities[id], WillShow(p)[id])
        /\ ShowsOwn(entities[entityId[p]], WillShow(p)[Local])

EverybodySees == \A p \in Players : SeesTable(p)

\* The conjuncts that do not speak of what a client shows.
TableInvariant ==
    /\ TypeOK
    /\ PlayersHaveEntities
    /\ AwayShowNothing
    /\ CalleeIsThere
    /\ GenerationsGivenOut

ReplicationInvariant == TableInvariant /\ EverybodySees

\* It is what the runs check.
LEMMA InvariantIsChecked ==
    ReplicationInvariant <=> EntitiesInvariant /\ ClientShowsTable
  BY DEF ReplicationInvariant, TableInvariant, EverybodySees, SeesTable,
         EntitiesInvariant, OwnModelShown, ClientShowsTable

\* The numbers of slots are numbers, and Local is none of them.
LEMMA IdFacts ==
    /\ EntityIds \subseteq ShownIds /\ Local \in ShownIds /\ Local \notin EntityIds
    /\ EntityIds \subseteq Int /\ NoEntity \notin EntityIds
    /\ \A c \in 0 .. MaxEntities : c < MaxEntities => c \in EntityIds
  BY DEF ShownIds, EntityIds, NoEntity

\* Packets have the type of packets.
LEMMA PacketTypes ==
    ASSUME NEW id \in ShownIds
    PROVE  /\ \A e \in EntityRecords : Spawn(e, id) \in Packets /\ Teleport(e, id) \in Packets
           /\ \A m \in Models : SetModel(m, id) \in Packets
           /\ Despawn(id) \in Packets
           /\ Absent \in ShownRecords /\ \A e \in EntityRecords : Picture(e) \in ShownRecords
  BY DEF EntityRecords, Packets, ShownRecords, Spawn, Teleport, SetModel, Despawn, Absent, Picture

\* What is on its way to a client can be read.
LEMMA StreamsAreReadable ==
    ASSUME TypeOK, NEW p \in Players
    PROVE  view[p] \in Views /\ toClient[p] \in Seq(Packets) /\ WillShow(p) \in Views
<1>1. view[p] \in Views /\ toClient[p] \in Seq(Packets)
  BY DEF TypeOK, Views
<1> QED
  BY <1>1, ReadType DEF WillShow

\* Nothing is there in the beginning.
LEMMA InitHolds ==
    ASSUME Init
    PROVE  ReplicationInvariant
<1>1. TypeOK
  <2>1. Blank \in EntityRecords /\ Absent \in ShownRecords
    BY DEF Blank, EntityRecords, Absent, ShownRecords
  <2>2. <<>> \in Seq(Packets)
    OBVIOUS
  <2> QED
    BY <2>1, <2>2 DEF Init, TypeOK
<1>2. PlayersHaveEntities /\ AwayShowNothing
  BY DEF Init, PlayersHaveEntities, AwayShowNothing
<1>3. CalleeIsThere /\ GenerationsGivenOut
  BY DEF Init, CalleeIsThere, GenerationsGivenOut, Blank
<1>4. EverybodySees
  BY DEF Init, EverybodySees, SeesTable
<1> QED
  BY <1>1, <1>2, <1>3, <1>4 DEF ReplicationInvariant, TableInvariant

\* The loop goes on and touches no slot.
LEMMA LoopKeeps ==
    ASSUME ReplicationInvariant, UNCHANGED <<serverVars, playerVars, wireVars, acts>>,
           step' \in {"packets", "players", "stepping", "calling", "announcing", "removing"},
           cursor' \in 0 .. MaxEntities, cutoff' \in Nat, CalleeIsThere'
    PROVE  ReplicationInvariant'
<1>1. TableInvariant /\ EverybodySees
  BY DEF ReplicationInvariant
<1> USE DEF serverVars, playerVars, wireVars
<1>2. TypeOK'
  BY <1>1 DEF TableInvariant, TypeOK
<1>3. PlayersHaveEntities' /\ AwayShowNothing' /\ GenerationsGivenOut'
  BY <1>1 DEF TableInvariant, PlayersHaveEntities, AwayShowNothing, GenerationsGivenOut, Usable
<1>4. EverybodySees'
  BY <1>1 DEF EverybodySees, SeesTable, WillShow
<1> QED
  BY <1>2, <1>3, <1>4 DEF ReplicationInvariant, TableInvariant

\* The steps of the loop that touch no slot.
LEMMA LoopSteps ==
    ASSUME ReplicationInvariant,
           \/ StartUpdate \/ ClockStands \/ StartEntities \/ StepEntity \/ StepReturns
           \/ StartAnnouncing \/ StartDestroy \/ FinishUpdate
    PROVE  ReplicationInvariant'
<1>1. TypeOK /\ CalleeIsThere
  BY DEF ReplicationInvariant, TableInvariant
<1>2. cursor \in 0 .. MaxEntities /\ cutoff \in Nat /\ nextGeneration \in Nat
  BY <1>1 DEF TypeOK
<1>3. cursor \in Int /\ MaxEntities \in Int /\ 0 \in 0 .. MaxEntities
  BY <1>2
<1>4. CASE StartUpdate \/ ClockStands \/ FinishUpdate
  BY <1>2, <1>4, LoopKeeps DEF StartUpdate, ClockStands, FinishUpdate, CalleeIsThere
<1>5. CASE StartEntities \/ StartAnnouncing
  BY <1>2, <1>3, <1>5, LoopKeeps DEF StartEntities, StartAnnouncing, CalleeIsThere
<1>6. CASE StepEntity
  <2>1. cursor + 1 \in 0 .. MaxEntities
    BY <1>3, <1>2, <1>6 DEF StepEntity
  <2>2. CalleeIsThere'
    BY <1>6 DEF StepEntity, CalleeIsThere, Due, Usable, serverVars
  <2> QED
    BY <1>2, <1>6, <2>1, <2>2, LoopKeeps DEF StepEntity
<1>7. CASE StepReturns
  <2>1. cursor + 1 \in 0 .. MaxEntities
    BY <1>1, <1>3, <1>2, <1>7 DEF StepReturns, CalleeIsThere
  <2> QED
    BY <1>2, <1>7, <2>1, LoopKeeps DEF StepReturns, CalleeIsThere
<1>8. CASE StartDestroy
  <2>1. UNCHANGED <<serverVars, playerVars, wireVars, acts>>
    BY <1>8 DEF StartDestroy, GivenUpLater, serverVars
  <2>2. CalleeIsThere'
    BY <1>8, <2>1 DEF StartDestroy, CalleeIsThere, serverVars
  <2> QED
    BY <1>2, <1>8, <2>1, <2>2, LoopKeeps DEF StartDestroy
<1> QED
  BY <1>4, <1>5, <1>6, <1>7, <1>8

\* A client reads a packet: what it will have shown in the end stays.
LEMMA ClientReceiveKeeps ==
    ASSUME ReplicationInvariant, NEW p \in Players, ClientReceive(p)
    PROVE  ReplicationInvariant'
<1>1. TableInvariant /\ EverybodySees /\ TypeOK
  BY DEF ReplicationInvariant, TableInvariant
<1>2. /\ view[p] \in Views /\ toClient[p] \in Seq(Packets) /\ toClient[p] # <<>>
      /\ view' = [view EXCEPT ![p] = Shown(view[p], Head(toClient[p]))]
      /\ toClient' = [toClient EXCEPT ![p] = Tail(toClient[p])]
      /\ UNCHANGED <<serverVars, playerVars, loopVars, acts>>
  BY <1>1, StreamsAreReadable DEF ClientReceive
<1>3. /\ Tail(toClient[p]) \in Seq(Packets)
      /\ Shown(view[p], Head(toClient[p])) \in Views
      /\ Read(Shown(view[p], Head(toClient[p])), Tail(toClient[p])) = WillShow(p)
  BY <1>2, ReadHead DEF WillShow
<1> USE DEF serverVars, playerVars, loopVars
<1>4. TypeOK'
  BY <1>1, <1>2, <1>3 DEF TypeOK, Views
<1>5. \A q \in Players : WillShow(q)' = WillShow(q)
  BY <1>1, <1>2, <1>3 DEF WillShow, TypeOK
<1>6. seated[p] /\ ~left[p]
  BY <1>1, <1>2 DEF TableInvariant, AwayShowNothing, TypeOK
<1>7. AwayShowNothing'
  BY <1>1, <1>2, <1>6 DEF TableInvariant, AwayShowNothing, TypeOK
<1>8. PlayersHaveEntities' /\ CalleeIsThere' /\ GenerationsGivenOut'
  BY <1>1, <1>2 DEF TableInvariant, PlayersHaveEntities, CalleeIsThere, GenerationsGivenOut, Usable
<1>9. EverybodySees'
  <2> SUFFICES ASSUME NEW q \in Players PROVE SeesTable(q)'
    BY DEF EverybodySees
  <2>1. SeesTable(q) /\ WillShow(q)' = WillShow(q)
    BY <1>1, <1>5 DEF EverybodySees
  <2> QED
    BY <1>2, <2>1 DEF SeesTable
<1> QED
  BY <1>4, <1>7, <1>8, <1>9 DEF ReplicationInvariant, TableInvariant

\* A player hangs up: nothing is on its way to it any more.
LEMMA HangUpKeeps ==
    ASSUME ReplicationInvariant, NEW p \in Players, HangUp(p)
    PROVE  ReplicationInvariant'
<1>1. TableInvariant /\ EverybodySees /\ TypeOK
  BY DEF ReplicationInvariant, TableInvariant
<1>2. /\ seated[p]
      /\ left' = [left EXCEPT ![p] = TRUE]
      /\ toClient' = [toClient EXCEPT ![p] = <<>>]
      /\ view' = [view EXCEPT ![p] = [id \in ShownIds |-> Absent]]
      /\ acts' = acts + 1
      /\ UNCHANGED <<serverVars, seated, entityId, loopVars>>
  BY DEF HangUp
<1>3. <<>> \in Seq(Packets) /\ Absent \in ShownRecords
  BY PacketTypes, IdFacts
<1> USE DEF serverVars, loopVars
<1>4. TypeOK'
  BY <1>1, <1>2, <1>3 DEF TypeOK
<1>5. AwayShowNothing'
  BY <1>1, <1>2 DEF TableInvariant, AwayShowNothing, TypeOK
<1>6. PlayersHaveEntities' /\ CalleeIsThere' /\ GenerationsGivenOut'
  BY <1>1, <1>2 DEF TableInvariant, PlayersHaveEntities, CalleeIsThere, GenerationsGivenOut,
                    Usable, TypeOK
<1>7. EverybodySees'
  <2> SUFFICES ASSUME NEW q \in Players PROVE SeesTable(q)'
    BY DEF EverybodySees
  <2>1. CASE q = p
    BY <1>1, <1>2, <2>1 DEF SeesTable, TypeOK
  <2>2. CASE q # p
    <3>1. WillShow(q)' = WillShow(q) /\ left'[q] = left[q]
      BY <1>1, <1>2, <2>2 DEF WillShow, TypeOK
    <3>2. SeesTable(q)
      BY <1>1 DEF EverybodySees
    <3> QED
      BY <1>2, <3>1, <3>2 DEF SeesTable
  <2> QED
    BY <2>1, <2>2
<1> QED
  BY <1>4, <1>5, <1>6, <1>7 DEF ReplicationInvariant, TableInvariant

----------------------------------------------------------------------------
(* Changes of a slot that no packet tells of.                              *)

\* The table after one slot has changed.
LEMMA SlotChanges ==
    ASSUME TypeOK, NEW id \in EntityIds, NEW e \in EntityRecords,
           entities' = [entities EXCEPT ![id] = e]
    PROVE  /\ entities' \in [EntityIds -> EntityRecords]
           /\ entities'[id] = e
           /\ \A o \in EntityIds : o # id => entities'[o] = entities[o]
  BY DEF TypeOK

\* A slot that keeps its entity, and is moved or about to be removed.
StaysAs(old, new) ==
    /\ new.active = old.active
    /\ new.announced = old.announced
    /\ new.owner = old.owner
    /\ new.generation = old.generation
    /\ new.model = old.model
    /\ old.pendingRemoval => new.pendingRemoval
    /\ old.dirty => new.dirty
    /\ new.at = old.at \/ new.dirty

\* What may be shown of the slot before may be shown of it after.
LEMMA RowStays ==
    ASSUME NEW old \in EntityRecords, NEW new \in EntityRecords, StaysAs(old, new),
           NEW s \in ShownRecords, NEW p, ShowsEntity(p, old, s)
    PROVE  ShowsEntity(p, new, s)
<1>1. CASE ~old.active \/ ~old.announced \/ old.owner = p
  BY <1>1 DEF ShowsEntity, StaysAs
<1>2. CASE ~(~old.active \/ ~old.announced \/ old.owner = p)
  <2>1. ~(~new.active \/ ~new.announced \/ new.owner = p)
    BY <1>2 DEF StaysAs
  <2>2. CASE old.pendingRemoval /\ s = Absent
    BY <2>1, <2>2 DEF ShowsEntity, StaysAs
  <2>3. CASE s = Picture(old)
    <3>1. /\ s.generation = new.generation /\ s.model = new.model
          /\ s.at = new.at \/ new.dirty
      BY <2>3 DEF Picture, StaysAs
    <3>2. s = [generation |-> s.generation, model |-> s.model, at |-> s.at]
      BY DEF ShownRecords
    <3>3. [Picture(new) EXCEPT !.at = s.at]
              = [generation |-> new.generation, model |-> new.model, at |-> s.at]
      BY DEF Picture
    <3> QED
      BY <2>1, <3>1, <3>2, <3>3 DEF ShowsEntity, Picture
  <2>4. CASE old.dirty /\ s = [Picture(old) EXCEPT !.at = s.at]
    <3>1. [Picture(new) EXCEPT !.at = s.at] = [Picture(old) EXCEPT !.at = s.at]
      BY DEF Picture, StaysAs
    <3> QED
      BY <2>1, <2>4, <3>1 DEF ShowsEntity, StaysAs
  <2> QED
    BY <1>2, <2>2, <2>3, <2>4 DEF ShowsEntity
<1> QED
  BY <1>1, <1>2

\* A slot changes quietly, while players stay or leave.
LEMMA QuietChange ==
    ASSUME ReplicationInvariant, NEW id \in EntityIds, NEW e \in EntityRecords,
           entities' = [entities EXCEPT ![id] = e],
           StaysAs(entities[id], e),
           UNCHANGED <<nextGeneration, loopVars, wireVars>>, acts' \in Nat,
           seated' \in [Players -> BOOLEAN], left' \in [Players -> BOOLEAN],
           entityId' \in [Players -> EntityIds \cup {NoEntity}],
           \A p \in Players :
               IF seated'[p] THEN /\ seated[p]
                                  /\ left'[p] = left[p]
                                  /\ entityId'[p] = entityId[p]
                                  /\ entityId[p] = id => ~e.pendingRemoval
               ELSE /\ ~seated[p] \/ left[p]
                    /\ entityId'[p] = NoEntity
                    /\ ~left'[p]
    PROVE  ReplicationInvariant'
<1>1. TableInvariant /\ EverybodySees /\ TypeOK
  BY DEF ReplicationInvariant, TableInvariant
<1>2. /\ entities' \in [EntityIds -> EntityRecords]
      /\ entities'[id] = e
      /\ \A o \in EntityIds : o # id => entities'[o] = entities[o]
      /\ entities \in [EntityIds -> EntityRecords]
  BY <1>1, SlotChanges DEF TypeOK
<1>3. \A o \in EntityIds : StaysAs(entities[o], entities'[o])
  BY <1>2 DEF StaysAs
<1> USE DEF loopVars, wireVars
<1>4. TypeOK'
  BY <1>1, <1>2 DEF TypeOK
<1>5. PlayersHaveEntities'
  <2> SUFFICES ASSUME NEW p \in Players, seated'[p]
               PROVE  /\ entityId'[p] \in EntityIds
                      /\ entities'[entityId'[p]].active
                      /\ ~ entities'[entityId'[p]].pendingRemoval
                      /\ entities'[entityId'[p]].owner = p
    BY DEF PlayersHaveEntities, Usable
  <2>1. /\ entityId[p] \in EntityIds /\ entities[entityId[p]].active
        /\ ~ entities[entityId[p]].pendingRemoval
        /\ entities[entityId[p]].owner = p /\ entityId'[p] = entityId[p]
    BY <1>1 DEF TableInvariant, PlayersHaveEntities, Usable
  <2>2. CASE entityId[p] = id
    BY <1>2, <2>1, <2>2 DEF StaysAs
  <2>3. CASE entityId[p] # id
    BY <1>2, <2>1, <2>3
  <2> QED
    BY <2>2, <2>3
<1>6. AwayShowNothing'
  BY <1>1 DEF TableInvariant, AwayShowNothing
<1>7. CalleeIsThere'
  <2> SUFFICES ASSUME step \in {"calling", "removing"}
               PROVE  /\ cursor < MaxEntities
                      /\ entities'[cursor].active
                      /\ step = "removing" => entities'[cursor].pendingRemoval
    BY DEF CalleeIsThere
  <2>1. /\ cursor < MaxEntities /\ entities[cursor].active
        /\ step = "removing" => entities[cursor].pendingRemoval
        /\ cursor \in 0 .. MaxEntities
    BY <1>1 DEF TableInvariant, CalleeIsThere, TypeOK
  <2>2. cursor \in EntityIds
    BY <2>1, IdFacts
  <2>3. StaysAs(entities[cursor], entities'[cursor])
    BY <1>3, <2>2
  <2> QED
    BY <2>1, <2>3 DEF StaysAs
<1>8. GenerationsGivenOut'
  <2> SUFFICES ASSUME NEW o \in EntityIds, entities'[o].active
               PROVE  entities'[o].generation \in 1 .. nextGeneration
    BY DEF GenerationsGivenOut
  <2>1. StaysAs(entities[o], entities'[o])
    BY <1>3
  <2> QED
    BY <1>1, <2>1 DEF TableInvariant, GenerationsGivenOut, StaysAs
<1>9. EverybodySees'
  <2> SUFFICES ASSUME NEW p \in Players, seated'[p], ~left'[p]
               PROVE  /\ \A o \in EntityIds : ShowsEntity(p, entities'[o], WillShow(p)'[o])
                      /\ ShowsOwn(entities'[entityId'[p]], WillShow(p)'[Local])
    BY DEF EverybodySees, SeesTable
  <2>1. WillShow(p)' = WillShow(p) /\ WillShow(p) \in Views
    BY <1>1, StreamsAreReadable DEF WillShow
  <2>2. /\ \A o \in EntityIds : ShowsEntity(p, entities[o], WillShow(p)[o])
        /\ ShowsOwn(entities[entityId[p]], WillShow(p)[Local])
        /\ entityId'[p] = entityId[p]
    BY <1>1 DEF EverybodySees, SeesTable
  <2>3. \A o \in EntityIds : ShowsEntity(p, entities'[o], WillShow(p)[o])
    <3> SUFFICES ASSUME NEW o \in EntityIds PROVE ShowsEntity(p, entities'[o], WillShow(p)[o])
      OBVIOUS
    <3>1. WillShow(p)[o] \in ShownRecords
      BY <2>1, IdFacts DEF Views
    <3>2. entities[o] \in EntityRecords /\ entities'[o] \in EntityRecords
      BY <1>2
    <3> QED
      BY <1>3, <2>2, <3>1, <3>2, RowStays
  <2>4. entityId[p] \in EntityIds
    BY <1>1 DEF TableInvariant, PlayersHaveEntities
  <2>5. ShowsOwn(entities'[entityId[p]], WillShow(p)[Local])
    <3>1. StaysAs(entities[entityId[p]], entities'[entityId[p]])
      BY <1>3, <2>4
    <3> QED
      BY <2>2, <3>1 DEF StaysAs, ShowsOwn
  <2> QED
    BY <2>1, <2>2, <2>3, <2>5
<1> QED
  BY <1>4, <1>5, <1>6, <1>7, <1>8, <1>9 DEF ReplicationInvariant, TableInvariant

\* A slot is moved.
LEMMA MoveKeeps ==
    ASSUME ReplicationInvariant, NEW id \in EntityIds, NEW at \in Spots,
           entities' = Moved(id, at), acts' = acts + 1,
           UNCHANGED <<nextGeneration, playerVars, loopVars, wireVars>>
    PROVE  ReplicationInvariant'
<1>1. TableInvariant /\ TypeOK
  BY DEF ReplicationInvariant, TableInvariant
<1>2. entities[id] \in EntityRecords /\ acts \in Nat
  BY <1>1 DEF TypeOK
<1> DEFINE e == [entities[id] EXCEPT !.at = at, !.dirty = TRUE]
<1>3. e \in EntityRecords
  BY <1>2 DEF EntityRecords
<1>4. StaysAs(entities[id], e) /\ e.pendingRemoval = entities[id].pendingRemoval
  BY <1>2 DEF EntityRecords, StaysAs
<1>5. entities' = [entities EXCEPT ![id] = e]
  BY <1>1 DEF Moved, TypeOK
<1> HIDE DEF e
<1>6. \A p \in Players : IF seated[p] THEN entityId[p] = id => ~e.pendingRemoval
                         ELSE entityId[p] = NoEntity /\ ~left[p]
  BY <1>1, <1>4 DEF TableInvariant, PlayersHaveEntities, Usable
<1>7. /\ seated \in [Players -> BOOLEAN] /\ left \in [Players -> BOOLEAN]
      /\ entityId \in [Players -> EntityIds \cup {NoEntity}]
      /\ seated' = seated /\ left' = left /\ entityId' = entityId
      /\ acts' \in Nat
  BY <1>1, <1>2 DEF TypeOK, playerVars
<1> QED
  BY <1>3, <1>4, <1>5, <1>6, <1>7, QuietChange

\* A script moves an entity, a player its own.
LEMMA MovesKeep ==
    ASSUME ReplicationInvariant,
           \/ \E id \in EntityIds, at \in Spots : ScriptMoves(id, at)
           \/ \E p \in Players, at \in Spots : HandlePlayerPosition(p, at)
    PROVE  ReplicationInvariant'
<1>1. ASSUME NEW id \in EntityIds, NEW at \in Spots, ScriptMoves(id, at)
      PROVE  ReplicationInvariant'
  BY <1>1, MoveKeeps DEF ScriptMoves
<1>2. ASSUME NEW p \in Players, NEW at \in Spots, HandlePlayerPosition(p, at)
      PROVE  ReplicationInvariant'
  <2>1. entityId[p] \in EntityIds
    BY <1>2 DEF HandlePlayerPosition, ReplicationInvariant, TableInvariant, PlayersHaveEntities
  <2> QED
    BY <1>2, <2>1, MoveKeeps DEF HandlePlayerPosition
<1> QED
  BY <1>1, <1>2

\* An entity that is asked to go.
LEMMA RemovedFacts ==
    ASSUME TypeOK, NEW id \in EntityIds, entities[id].active, entities' = Removed(id),
           NEW e, e = [entities[id] EXCEPT !.pendingRemoval = TRUE]
    PROVE  /\ e \in EntityRecords /\ entities' = [entities EXCEPT ![id] = e]
           /\ StaysAs(entities[id], e)
<1>1. entities[id] \in EntityRecords
  BY DEF TypeOK
<1>2. e \in EntityRecords /\ StaysAs(entities[id], e)
  BY <1>1 DEF EntityRecords, StaysAs
<1> QED
  BY <1>2 DEF Removed, TypeOK

\* A script asks for a removal.
LEMMA ScriptRemovesKeeps ==
    ASSUME ReplicationInvariant, NEW id \in EntityIds, ScriptRemoves(id)
    PROVE  ReplicationInvariant'
<1>1. TableInvariant /\ TypeOK
  BY DEF ReplicationInvariant, TableInvariant
<1> DEFINE e == [entities[id] EXCEPT !.pendingRemoval = TRUE]
<1>2. /\ entities[id].active /\ entities[id].owner = Nobody /\ entities' = Removed(id)
      /\ UNCHANGED <<nextGeneration, playerVars, loopVars, wireVars, acts>>
  BY DEF ScriptRemoves, Usable
<1>3. /\ e \in EntityRecords /\ entities' = [entities EXCEPT ![id] = e]
      /\ StaysAs(entities[id], e)
  BY <1>1, <1>2, RemovedFacts
<1> HIDE DEF e
<1>4. \A p \in Players : IF seated[p] THEN entityId[p] # id
                         ELSE entityId[p] = NoEntity /\ ~left[p]
  BY <1>1, <1>2 DEF TableInvariant, PlayersHaveEntities
<1>5. /\ seated \in [Players -> BOOLEAN] /\ left \in [Players -> BOOLEAN]
      /\ entityId \in [Players -> EntityIds \cup {NoEntity}]
      /\ seated' = seated /\ left' = left /\ entityId' = entityId
      /\ acts' \in Nat
  BY <1>1, <1>2 DEF TypeOK, playerVars
<1>6. \A q \in Players :
          IF seated'[q] THEN /\ seated[q]
                             /\ left'[q] = left[q]
                             /\ entityId'[q] = entityId[q]
                             /\ entityId[q] = id => ~e.pendingRemoval
          ELSE /\ ~seated[q] \/ left[q]
               /\ entityId'[q] = NoEntity
               /\ ~left'[q]
  BY <1>4, <1>5
<1> QED
  BY <1>2, <1>3, <1>5, <1>6, QuietChange

\* A player's seat is cleared and its entity is asked to go.
LEMMA RemovePlayerKeeps ==
    ASSUME ReplicationInvariant, NEW p \in Players, RemovePlayer(p)
    PROVE  ReplicationInvariant'
<1>1. TableInvariant /\ TypeOK
  BY DEF ReplicationInvariant, TableInvariant
<1> DEFINE id == entityId[p]
           e == [entities[id] EXCEPT !.pendingRemoval = TRUE]
<1>2. /\ seated[p] /\ left[p] /\ entities' = Removed(id)
      /\ seated' = [seated EXCEPT ![p] = FALSE]
      /\ left' = [left EXCEPT ![p] = FALSE]
      /\ entityId' = [entityId EXCEPT ![p] = NoEntity]
      /\ UNCHANGED <<nextGeneration, loopVars, wireVars, acts>>
  BY DEF RemovePlayer
<1>3. /\ id \in EntityIds /\ entities[id].active /\ entities[id].owner = p
  BY <1>1, <1>2 DEF TableInvariant, PlayersHaveEntities, Usable
<1>4. /\ e \in EntityRecords /\ entities' = [entities EXCEPT ![id] = e]
      /\ StaysAs(entities[id], e)
  BY <1>1, <1>2, <1>3, RemovedFacts
<1>5. \A q \in Players : IF seated[q] THEN q # p => entityId[q] # id
                         ELSE entityId[q] = NoEntity /\ ~left[q]
  BY <1>1, <1>3 DEF TableInvariant, PlayersHaveEntities
<1> HIDE DEF e, id
<1>6. /\ seated' \in [Players -> BOOLEAN] /\ left' \in [Players -> BOOLEAN]
      /\ entityId' \in [Players -> EntityIds \cup {NoEntity}]
      /\ acts' \in Nat
  BY <1>1, <1>2 DEF TypeOK
<1>7. ASSUME NEW q \in Players
      PROVE  IF seated'[q] THEN /\ seated[q]
                                /\ left'[q] = left[q]
                                /\ entityId'[q] = entityId[q]
                                /\ entityId[q] = id => ~e.pendingRemoval
             ELSE /\ ~seated[q] \/ left[q]
                  /\ entityId'[q] = NoEntity
                  /\ ~left'[q]
  <2>1. CASE q = p
    BY <1>1, <1>2, <2>1 DEF TypeOK
  <2>2. CASE q # p
    BY <1>1, <1>2, <1>5, <2>2 DEF TypeOK
  <2> QED
    BY <2>1, <2>2
<1> QED
  BY <1>2, <1>3, <1>4, <1>6, <1>7, QuietChange

----------------------------------------------------------------------------
(* Changes of a slot that packets tell of.                                 *)

\* Packets are read by those they are sent to, and by nobody else.
LEMMA SentFacts ==
    ASSUME TypeOK, NEW ps \in SUBSET Players, NEW packets \in [Players -> Seq(Packets)],
           toClient' = SentTo(ps, packets), view' = view
    PROVE  /\ toClient' \in [Players -> Seq(Packets)]
           /\ \A p \in Players : ~(seated[p] /\ ~left[p]) => toClient'[p] = toClient[p]
           /\ \A p \in Players :
                  WillShow(p)' = IF p \in ps /\ seated[p] /\ ~left[p]
                                 THEN Read(WillShow(p), packets[p]) ELSE WillShow(p)
<1>1. ASSUME NEW p \in Players
      PROVE  /\ toClient[p] \in Seq(Packets) /\ packets[p] \in Seq(Packets) /\ view[p] \in Views
             /\ toClient[p] \o packets[p] \in Seq(Packets)
             /\ Read(view[p], toClient[p] \o packets[p]) = Read(WillShow(p), packets[p])
  <2>1. toClient[p] \in Seq(Packets) /\ packets[p] \in Seq(Packets) /\ view[p] \in Views
    BY StreamsAreReadable
  <2> QED
    BY <2>1, ReadConcat DEF WillShow
<1>2. \A p \in Players : toClient'[p] = IF p \in ps /\ seated[p] /\ ~left[p]
                                        THEN toClient[p] \o packets[p] ELSE toClient[p]
  BY DEF SentTo
<1>3. toClient' \in [Players -> Seq(Packets)]
  BY <1>1 DEF SentTo
<1>4. ASSUME NEW p \in Players
      PROVE  WillShow(p)' = IF p \in ps /\ seated[p] /\ ~left[p]
                            THEN Read(WillShow(p), packets[p]) ELSE WillShow(p)
  BY <1>1, <1>2 DEF WillShow
<1> QED
  BY <1>2, <1>3, <1>4

\* The table after a change of one slot that belongs to nobody else.
LEMMA TableKept ==
    ASSUME TableInvariant, NEW id \in EntityIds, NEW e \in EntityRecords,
           entities' = [entities EXCEPT ![id] = e],
           UNCHANGED playerVars, view' = view,
           toClient' \in [Players -> Seq(Packets)],
           \A p \in Players : ~(seated[p] /\ ~left[p]) => toClient'[p] = toClient[p],
           nextGeneration' \in Nat, nextGeneration' >= nextGeneration,
           e.active => e.generation \in 1 .. nextGeneration',
           \A p \in Players : seated[p] /\ entityId[p] = id =>
               e.active /\ ~e.pendingRemoval /\ e.owner = p,
           step' \in {"packets", "players", "stepping", "calling", "announcing", "removing"},
           cursor' \in 0 .. MaxEntities, cutoff' \in Nat, acts' \in Nat, CalleeIsThere'
    PROVE  TableInvariant'
<1>1. TypeOK /\ PlayersHaveEntities /\ AwayShowNothing /\ GenerationsGivenOut
  BY DEF TableInvariant
<1>2. /\ entities' \in [EntityIds -> EntityRecords]
      /\ entities'[id] = e
      /\ \A o \in EntityIds : o # id => entities'[o] = entities[o]
      /\ entities \in [EntityIds -> EntityRecords]
  BY <1>1, SlotChanges DEF TypeOK
<1>3. seated' = seated /\ left' = left /\ entityId' = entityId
  BY DEF playerVars
<1>4. TypeOK'
  BY <1>1, <1>2, <1>3 DEF TypeOK
<1>5. PlayersHaveEntities'
  <2> SUFFICES ASSUME NEW p \in Players
               PROVE  IF seated[p] THEN /\ entityId[p] \in EntityIds
                                        /\ entities'[entityId[p]].active
                                        /\ ~entities'[entityId[p]].pendingRemoval
                                        /\ entities'[entityId[p]].owner = p
                      ELSE entityId[p] = NoEntity /\ ~left[p]
    BY <1>3 DEF PlayersHaveEntities, Usable
  <2>1. IF seated[p] THEN /\ entityId[p] \in EntityIds
                          /\ entities[entityId[p]].active
                          /\ ~entities[entityId[p]].pendingRemoval
                          /\ entities[entityId[p]].owner = p
        ELSE entityId[p] = NoEntity /\ ~left[p]
    BY <1>1 DEF PlayersHaveEntities, Usable
  <2>2. CASE ~seated[p]
    BY <2>1, <2>2
  <2>3. CASE seated[p] /\ entityId[p] = id
    BY <1>2, <2>1, <2>3
  <2>4. CASE seated[p] /\ entityId[p] # id
    BY <1>2, <2>1, <2>4
  <2> QED
    BY <2>2, <2>3, <2>4
<1>6. AwayShowNothing'
  BY <1>1, <1>3 DEF AwayShowNothing
<1>7. GenerationsGivenOut'
  <2> SUFFICES ASSUME NEW o \in EntityIds, entities'[o].active
               PROVE  entities'[o].generation \in 1 .. nextGeneration'
    BY DEF GenerationsGivenOut
  <2>1. CASE o = id
    BY <1>2, <2>1
  <2>2. CASE o # id
    <3>1. entities[o].generation \in 1 .. nextGeneration /\ entities'[o] = entities[o]
      BY <1>1, <1>2, <2>2 DEF GenerationsGivenOut
    <3>2. nextGeneration \in Nat
      BY <1>1 DEF TypeOK
    <3> QED
      BY <3>1, <3>2
  <2> QED
    BY <2>1, <2>2
<1> QED
  BY <1>4, <1>5, <1>6, <1>7 DEF TableInvariant

\* The clients see the change of one slot if each sees that slot and its own.
LEMMA SlotSeen ==
    ASSUME ReplicationInvariant, NEW id \in EntityIds, NEW e \in EntityRecords,
           entities' = [entities EXCEPT ![id] = e],
           UNCHANGED playerVars,
           \A p \in Players : seated[p] /\ ~left[p] =>
               /\ \A o \in EntityIds : o # id => WillShow(p)'[o] = WillShow(p)[o]
               /\ ShowsEntity(p, e, WillShow(p)'[id])
               /\ IF entityId[p] = id THEN ShowsOwn(e, WillShow(p)'[Local])
                  ELSE WillShow(p)'[Local] = WillShow(p)[Local]
    PROVE  EverybodySees'
<1>1. TypeOK /\ EverybodySees /\ PlayersHaveEntities
  BY DEF ReplicationInvariant, TableInvariant
<1>2. entities'[id] = e /\ \A o \in EntityIds : o # id => entities'[o] = entities[o]
  BY <1>1, SlotChanges
<1>3. seated' = seated /\ left' = left /\ entityId' = entityId
  BY DEF playerVars
<1> SUFFICES ASSUME NEW p \in Players, seated[p], ~left[p]
             PROVE  /\ \A o \in EntityIds : ShowsEntity(p, entities'[o], WillShow(p)'[o])
                    /\ ShowsOwn(entities'[entityId[p]], WillShow(p)'[Local])
  BY <1>3 DEF EverybodySees, SeesTable
<1>4. /\ \A o \in EntityIds : ShowsEntity(p, entities[o], WillShow(p)[o])
      /\ ShowsOwn(entities[entityId[p]], WillShow(p)[Local])
      /\ entityId[p] \in EntityIds
  BY <1>1 DEF EverybodySees, SeesTable, PlayersHaveEntities
<1>5. \A o \in EntityIds : ShowsEntity(p, entities'[o], WillShow(p)'[o])
  <2> SUFFICES ASSUME NEW o \in EntityIds PROVE ShowsEntity(p, entities'[o], WillShow(p)'[o])
    OBVIOUS
  <2>1. CASE o = id
    BY <1>2, <2>1
  <2>2. CASE o # id
    <3>1. WillShow(p)'[o] = WillShow(p)[o] /\ entities'[o] = entities[o]
      BY <1>2, <2>2
    <3> QED
      BY <1>4, <3>1
  <2> QED
    BY <2>1, <2>2
<1>6. ShowsOwn(entities'[entityId[p]], WillShow(p)'[Local])
  <2>1. CASE entityId[p] = id
    BY <1>2, <2>1
  <2>2. CASE entityId[p] # id
    <3>1. WillShow(p)'[Local] = WillShow(p)[Local] /\ entities'[entityId[p]] = entities[entityId[p]]
      BY <1>2, <1>4, <2>2
    <3> QED
      BY <1>4, <3>1
  <2> QED
    BY <2>1, <2>2
<1> QED
  BY <1>5, <1>6

\* A new entity is unannounced and has the next generation.
LEMMA AddedFacts ==
    ASSUME nextGeneration \in Nat, NEW id, NEW model \in Models, NEW at \in Spots,
           NEW owner \in Players \cup {Nobody},
           NEW e, e = Added(id, model, at, owner)
    PROVE  /\ e \in EntityRecords /\ e.active /\ ~e.announced /\ ~e.pendingRemoval
           /\ e.generation = nextGeneration + 1 /\ e.owner = owner /\ e.model = model
<1>1. e = [active |-> TRUE, pendingRemoval |-> FALSE, generation |-> nextGeneration + 1,
           owner |-> owner, model |-> model, at |-> at, announced |-> FALSE, dirty |-> FALSE]
  BY DEF Added, Blank
<1> QED
  BY <1>1 DEF EntityRecords

\* An entity takes a free slot: nobody is told yet.
LEMMA ScriptSpawnsKeeps ==
    ASSUME ReplicationInvariant, NEW id \in EntityIds, NEW model \in Models,
           ScriptSpawns(id, model)
    PROVE  ReplicationInvariant'
<1> DEFINE e == Added(id, model, Start, Nobody)
<1>1. TableInvariant /\ TypeOK /\ EverybodySees
  BY DEF ReplicationInvariant, TableInvariant
<1>2. /\ ~entities[id].active
      /\ entities' = [entities EXCEPT ![id] = e]
      /\ nextGeneration' = nextGeneration + 1
      /\ UNCHANGED <<playerVars, loopVars, wireVars, acts>>
  BY DEF ScriptSpawns, IsFirstFree, FreeIds
<1>3. nextGeneration \in Nat /\ entities \in [EntityIds -> EntityRecords]
  BY <1>1 DEF TypeOK
<1>4. /\ e \in EntityRecords /\ e.active /\ ~e.announced /\ ~e.pendingRemoval
      /\ e.generation = nextGeneration + 1
  BY <1>3, AddedFacts
<1> HIDE DEF e
<1>5. CalleeIsThere'
  <2> SUFFICES ASSUME step \in {"calling", "removing"}
               PROVE  /\ cursor < MaxEntities
                      /\ entities'[cursor].active
                      /\ step = "removing" => entities'[cursor].pendingRemoval
    BY <1>2 DEF CalleeIsThere, loopVars
  <2>1. /\ cursor < MaxEntities /\ entities[cursor].active
        /\ step = "removing" => entities[cursor].pendingRemoval
        /\ cursor \in EntityIds
    BY <1>1, IdFacts DEF TableInvariant, CalleeIsThere, TypeOK
  <2>2. entities'[cursor] = entities[cursor]
    BY <1>2, <1>3, <2>1
  <2> QED
    BY <2>1, <2>2
<1>6. \A p \in Players : seated[p] => entityId[p] # id
  BY <1>1, <1>2 DEF TableInvariant, PlayersHaveEntities, Usable
<1>7. TableInvariant'
  <2>1. nextGeneration' \in Nat /\ nextGeneration' >= nextGeneration
    BY <1>2, <1>3
  <2>2. e.generation \in 1 .. nextGeneration'
    BY <1>2, <1>3, <1>4
  <2>3. /\ UNCHANGED playerVars /\ view' = view
        /\ toClient' \in [Players -> Seq(Packets)]
        /\ \A p \in Players : toClient'[p] = toClient[p]
        /\ step' \in {"packets", "players", "stepping", "calling", "announcing", "removing"}
        /\ cursor' \in 0 .. MaxEntities /\ cutoff' \in Nat /\ acts' \in Nat
    BY <1>1, <1>2 DEF TypeOK, loopVars, wireVars
  <2> QED
    BY <1>1, <1>2, <1>4, <1>5, <1>6, <2>1, <2>2, <2>3, TableKept
<1>8. EverybodySees'
  <2>1. ASSUME NEW p \in Players, seated[p], ~left[p]
        PROVE  /\ WillShow(p)' = WillShow(p)
               /\ ShowsEntity(p, e, WillShow(p)'[id])
    <3>1. WillShow(p)' = WillShow(p)
      BY <1>2 DEF WillShow, wireVars
    <3>2. ShowsEntity(p, entities[id], WillShow(p)[id])
      BY <1>1, <2>1 DEF EverybodySees, SeesTable
    <3> QED
      BY <1>2, <1>4, <3>1, <3>2 DEF ShowsEntity
  <2>2. \A p \in Players : seated[p] /\ ~left[p] =>
            /\ \A o \in EntityIds : o # id => WillShow(p)'[o] = WillShow(p)[o]
            /\ ShowsEntity(p, e, WillShow(p)'[id])
            /\ IF entityId[p] = id THEN ShowsOwn(e, WillShow(p)'[Local])
               ELSE WillShow(p)'[Local] = WillShow(p)[Local]
    BY <1>6, <2>1
  <2> QED
    BY <1>2, <1>4, <2>2, SlotSeen
<1> QED
  BY <1>7, <1>8 DEF ReplicationInvariant

\* A picture of an entity is not the absence of one.
LEMMA PicturesAreThere ==
    ASSUME NEW e \in EntityRecords, e.generation >= 1
    PROVE  \A s \in ShownRecords : s.generation = e.generation => s # Absent
<1>1. e.generation # 0
  BY DEF EntityRecords
<1> QED
  BY <1>1 DEF Absent

\* The news of a model reaches whoever shows the entity.
LEMMA RowGetsModel ==
    ASSUME NEW old \in EntityRecords, old.active => old.generation >= 1,
           NEW model \in Models,
           NEW new, new = [old EXCEPT !.model = model],
           NEW s \in ShownRecords, NEW p, ShowsEntity(p, old, s)
    PROVE  ShowsEntity(p, new, IF s = Absent THEN Absent ELSE [s EXCEPT !.model = model])
<1>1. /\ new.active = old.active /\ new.announced = old.announced /\ new.owner = old.owner
      /\ new.pendingRemoval = old.pendingRemoval /\ new.dirty = old.dirty
      /\ new.generation = old.generation /\ new.at = old.at /\ new.model = model
  BY DEF EntityRecords
<1>2. CASE s = Absent
  <2>1. CASE ~old.active \/ ~old.announced \/ old.owner = p
    BY <1>1, <1>2, <2>1 DEF ShowsEntity
  <2>2. CASE ~(~old.active \/ ~old.announced \/ old.owner = p)
    <3>1. s.generation # old.generation
      BY <1>2, <2>2, PicturesAreThere
    <3>2. old.pendingRemoval
      BY <2>2, <3>1 DEF ShowsEntity, Picture
    <3> QED
      BY <1>1, <1>2, <2>2, <3>2 DEF ShowsEntity
  <2> QED
    BY <2>1, <2>2
<1>3. CASE s # Absent
  <2>1. ~(~old.active \/ ~old.announced \/ old.owner = p)
    BY <1>3 DEF ShowsEntity
  <2>2. CASE s = Picture(old)
    <3>1. [s EXCEPT !.model = model] = Picture(new)
      BY <1>1, <2>2 DEF Picture
    <3> QED
      BY <1>1, <1>3, <2>1, <3>1 DEF ShowsEntity
  <2>3. CASE old.dirty /\ s = [Picture(old) EXCEPT !.at = s.at]
    <3> DEFINE t == [s EXCEPT !.model = model]
    <3>1. t = [Picture(new) EXCEPT !.at = t.at]
      BY <1>1, <2>3 DEF Picture, ShownRecords
    <3> HIDE DEF t
    <3>2. ShowsEntity(p, new, t)
      BY <1>1, <2>1, <2>3, <3>1 DEF ShowsEntity
    <3> QED
      BY <1>3, <3>2 DEF t
  <2> QED
    BY <1>3, <2>1, <2>2, <2>3 DEF ShowsEntity
<1> QED
  BY <1>2, <1>3

\* A callback's entity keeps its slot while another changes, or it stays itself.
LEMMA CalleeKept ==
    ASSUME TableInvariant, NEW id \in EntityIds, NEW e \in EntityRecords,
           entities' = [entities EXCEPT ![id] = e], UNCHANGED loopVars,
           entities[id].active => e.active,
           entities[id].pendingRemoval => e.pendingRemoval
    PROVE  CalleeIsThere'
<1>1. TypeOK /\ CalleeIsThere
  BY DEF TableInvariant
<1> SUFFICES ASSUME step \in {"calling", "removing"}
             PROVE  /\ cursor < MaxEntities
                    /\ entities'[cursor].active
                    /\ step = "removing" => entities'[cursor].pendingRemoval
  BY DEF CalleeIsThere, loopVars
<1>2. /\ cursor < MaxEntities /\ entities[cursor].active
      /\ step = "removing" => entities[cursor].pendingRemoval
      /\ cursor \in EntityIds
  BY <1>1, IdFacts DEF CalleeIsThere, TypeOK
<1>3. entities'[id] = e /\ \A o \in EntityIds : o # id => entities'[o] = entities[o]
  BY <1>1, SlotChanges
<1>4. CASE cursor = id
  BY <1>2, <1>3, <1>4
<1>5. CASE cursor # id
  BY <1>2, <1>3, <1>5
<1> QED
  BY <1>4, <1>5

\* The news of a model, to each under the number it knows.
LEMMA ScriptSetsModelKeeps ==
    ASSUME ReplicationInvariant, NEW id \in EntityIds, NEW model \in Models,
           ScriptSetsModel(id, model)
    PROVE  ReplicationInvariant'
<1> DEFINE e == [entities[id] EXCEPT !.model = model]
           packets == [p \in Players |->
               IF entityId[p] = id THEN <<SetModel(model, Local)>>
               ELSE IF entities[id].announced THEN <<SetModel(model, id)>> ELSE <<>>]
<1>1. TableInvariant /\ TypeOK /\ EverybodySees
  BY DEF ReplicationInvariant, TableInvariant
<1>2. entities[id] \in EntityRecords /\ nextGeneration \in Nat /\ acts \in Nat
  BY <1>1 DEF TypeOK
<1>3. /\ entities[id].active /\ ~entities[id].pendingRemoval
      /\ entities' = [entities EXCEPT ![id] = e]
      /\ toClient' = SentTo(Players, packets)
      /\ acts' = acts + 1
      /\ UNCHANGED <<nextGeneration, playerVars, loopVars, view>>
  BY <1>1 DEF ScriptSetsModel, ModelTold, Usable, TypeOK
<1>4. /\ e \in EntityRecords
      /\ e.active = entities[id].active /\ e.pendingRemoval = entities[id].pendingRemoval
      /\ e.owner = entities[id].owner /\ e.generation = entities[id].generation
      /\ e.announced = entities[id].announced /\ e.model = model
  BY <1>2 DEF EntityRecords
<1>5. entities[id].generation \in 1 .. nextGeneration
  BY <1>1, <1>3 DEF TableInvariant, GenerationsGivenOut
<1>6. entities[id].generation >= 1
  BY <1>2, <1>5
<1>7. packets \in [Players -> Seq(Packets)]
  <2>1. SetModel(model, Local) \in Packets /\ SetModel(model, id) \in Packets
    BY PacketTypes, IdFacts
  <2>2. /\ <<>> \in Seq(Packets) /\ <<SetModel(model, Local)>> \in Seq(Packets)
        /\ <<SetModel(model, id)>> \in Seq(Packets)
    BY <2>1
  <2> QED
    BY <2>2
<1>8. \A p \in Players :
          /\ packets[p] \in Seq(Packets)
          /\ packets[p] = IF entityId[p] = id THEN <<SetModel(model, Local)>>
                          ELSE IF entities[id].announced THEN <<SetModel(model, id)>> ELSE <<>>
  BY <1>7
<1> HIDE DEF packets
<1>9. /\ toClient' \in [Players -> Seq(Packets)]
      /\ \A p \in Players : ~(seated[p] /\ ~left[p]) => toClient'[p] = toClient[p]
      /\ \A p \in Players :
             WillShow(p)' = IF p \in Players /\ seated[p] /\ ~left[p]
                            THEN Read(WillShow(p), packets[p]) ELSE WillShow(p)
  BY <1>1, <1>3, <1>7, SentFacts
<1>10. \A p \in Players : seated[p] /\ entityId[p] = id =>
           e.active /\ ~e.pendingRemoval /\ e.owner = p
  BY <1>1, <1>4 DEF TableInvariant, PlayersHaveEntities, Usable
<1>11. ASSUME NEW p \in Players, seated[p], ~left[p]
       PROVE  /\ \A o \in EntityIds : o # id => WillShow(p)'[o] = WillShow(p)[o]
              /\ ShowsEntity(p, e, WillShow(p)'[id])
              /\ IF entityId[p] = id THEN ShowsOwn(e, WillShow(p)'[Local])
                 ELSE WillShow(p)'[Local] = WillShow(p)[Local]
  <2> DEFINE w == WillShow(p)
  <2>1. WillShow(p)' = Read(w, packets[p]) /\ w \in Views
    BY <1>1, <1>9, <1>11, StreamsAreReadable
  <2>2. /\ ShowsEntity(p, entities[id], w[id])
        /\ entityId[p] = id => ShowsOwn(entities[id], w[Local])
    BY <1>1, <1>11 DEF EverybodySees, SeesTable
  <2>3. w[id] \in ShownRecords /\ w[Local] \in ShownRecords
    BY <2>1, IdFacts DEF Views
  <2> HIDE DEF w
  <2>4. CASE entityId[p] = id
    <3> DEFINE m == SetModel(model, Local)
    <3>1. m \in Packets /\ m.id = Local /\ m.kind = "model" /\ m.entity.model = model
      BY PacketTypes, IdFacts DEF SetModel, Absent
    <3> HIDE DEF m
    <3>2. packets[p] = <<m>>
      BY <1>8, <2>4 DEF m
    <3>3. WillShow(p)' = Shown(w, m)
      BY <2>1, <3>1, <3>2, ReadOne
    <3>4. w[Local] # Absent
      BY <1>2, <1>6, <2>2, <2>3, <2>4, PicturesAreThere DEF ShowsOwn
    <3>0. ShownOne(w, m, Local, WillShow(p)')
      BY <2>1, <3>1, <3>3, ShownFacts
    <3>5. /\ \A o \in EntityIds : WillShow(p)'[o] = w[o]
          /\ WillShow(p)'[Local] = [w[Local] EXCEPT !.model = model]
      BY <3>1, <3>4, <3>0, IdFacts DEF ShownOne
    <3>6. ShowsOwn(e, WillShow(p)'[Local])
      BY <1>4, <2>2, <2>3, <2>4, <3>5 DEF ShowsOwn, ShownRecords
    <3>7. e.owner = p /\ entities[id].owner = p
      BY <1>4, <1>10, <1>11, <2>4
    <3>8. ShowsEntity(p, e, w[id])
      BY <2>2, <3>7 DEF ShowsEntity
    <3> QED
      BY <2>4, <3>5, <3>6, <3>8 DEF w
  <2>5. CASE entityId[p] # id /\ entities[id].announced
    <3> DEFINE m == SetModel(model, id)
    <3>1. m \in Packets /\ m.id = id /\ m.kind = "model" /\ m.entity.model = model
      BY PacketTypes, IdFacts DEF SetModel, Absent
    <3> HIDE DEF m
    <3>2. packets[p] = <<m>>
      BY <1>8, <2>5 DEF m
    <3>3. WillShow(p)' = Shown(w, m)
      BY <2>1, <3>1, <3>2, ReadOne
    <3>0. ShownOne(w, m, id, WillShow(p)')
      BY <2>1, <3>1, <3>3, ShownFacts
    <3>4. /\ \A o \in ShownIds : o # id => WillShow(p)'[o] = w[o]
          /\ WillShow(p)'[id] = IF w[id] = Absent THEN Absent ELSE [w[id] EXCEPT !.model = model]
      BY <3>1, <3>0 DEF ShownOne
    <3>5. ShowsEntity(p, e, WillShow(p)'[id])
      BY <1>2, <1>6, <2>2, <2>3, <3>4, RowGetsModel
    <3> QED
      BY <2>5, <3>4, <3>5, IdFacts DEF w
  <2>6. CASE entityId[p] # id /\ ~entities[id].announced
    <3>1. packets[p] = <<>>
      BY <1>8, <2>6
    <3>2. WillShow(p)' = w
      BY <2>1, <3>1, ReadNone
    <3>3. ShowsEntity(p, e, w[id])
      BY <1>4, <2>2, <2>6 DEF ShowsEntity
    <3> QED
      BY <2>6, <3>2, <3>3 DEF w
  <2> QED
    BY <2>4, <2>5, <2>6
<1> HIDE DEF e
<1>12. CalleeIsThere'
  BY <1>1, <1>3, <1>4, CalleeKept
<1>13. /\ UNCHANGED playerVars /\ view' = view
       /\ nextGeneration' = nextGeneration /\ nextGeneration' \in Nat
       /\ nextGeneration' >= nextGeneration /\ acts' \in Nat
       /\ step' \in {"packets", "players", "stepping", "calling", "announcing", "removing"}
       /\ cursor' \in 0 .. MaxEntities /\ cutoff' \in Nat
  BY <1>1, <1>2, <1>3 DEF TypeOK, loopVars
<1>14. TableInvariant'
  BY <1>1, <1>3, <1>4, <1>5, <1>9, <1>10, <1>12, <1>13, TableKept
<1>15. EverybodySees'
  <2>1. \A p \in Players : seated[p] /\ ~left[p] =>
            /\ \A o \in EntityIds : o # id => WillShow(p)'[o] = WillShow(p)[o]
            /\ ShowsEntity(p, e, WillShow(p)'[id])
            /\ IF entityId[p] = id THEN ShowsOwn(e, WillShow(p)'[Local])
               ELSE WillShow(p)'[Local] = WillShow(p)[Local]
    BY <1>11
  <2> QED
    BY <1>3, <1>4, <1>13, <2>1, SlotSeen
<1> QED
  BY <1>14, <1>15 DEF ReplicationInvariant

\* Once everybody else was told that it is gone, a slot is given back.
LEMMA FinishDestroyKeeps ==
    ASSUME ReplicationInvariant, FinishDestroy
    PROVE  ReplicationInvariant'
<1> DEFINE id == cursor
           old == entities[id]
           e == [old EXCEPT !.active = FALSE]
           told == [p \in Players |-> <<Despawn(id)>>]
<1>1. TableInvariant /\ TypeOK /\ EverybodySees
  BY DEF ReplicationInvariant, TableInvariant
<1>2. /\ step = "removing"
      /\ toClient' = DespawnTold(old)
      /\ entities' = SlotFreed(id)
      /\ step' = "announcing" /\ cursor' = cursor + 1
      /\ UNCHANGED <<nextGeneration, playerVars, cutoff, view, acts>>
  BY DEF FinishDestroy
<1>3. /\ cursor < MaxEntities /\ cursor \in 0 .. MaxEntities /\ id \in EntityIds
      /\ old.active /\ old.pendingRemoval
  BY <1>1, <1>2, IdFacts DEF TableInvariant, CalleeIsThere, TypeOK
<1>4. old \in EntityRecords /\ nextGeneration \in Nat
  BY <1>1, <1>3 DEF TypeOK
<1>5. e \in EntityRecords /\ ~e.active
  BY <1>4 DEF EntityRecords
<1>6. entities' = [entities EXCEPT ![id] = e]
  BY <1>1, <1>2, <1>3 DEF SlotFreed, TypeOK
<1>7. \A p \in Players : seated[p] => entityId[p] # id
  BY <1>1, <1>3 DEF TableInvariant, PlayersHaveEntities, Usable
<1>8. told \in [Players -> Seq(Packets)] /\ \A p \in Players : told[p] = <<Despawn(id)>>
  <2>1. Despawn(id) \in Packets
    BY <1>3, PacketTypes, IdFacts
  <2>2. <<Despawn(id)>> \in Seq(Packets)
    BY <2>1
  <2> QED
    BY <2>2
<1>9. /\ toClient' \in [Players -> Seq(Packets)]
      /\ \A p \in Players : ~(seated[p] /\ ~left[p]) => toClient'[p] = toClient[p]
      /\ \A p \in Players :
             WillShow(p)' = IF old.announced /\ p # old.owner /\ seated[p] /\ ~left[p]
                            THEN Read(WillShow(p), <<Despawn(id)>>) ELSE WillShow(p)
  <2>1. CASE old.announced
    <3>1. toClient' = SentTo(Players \ {old.owner}, told)
      BY <1>2, <2>1 DEF DespawnTold, BroadcastExcluding
    <3>2. Players \ {old.owner} \in SUBSET Players
      OBVIOUS
    <3> HIDE DEF told, old
    <3> QED
      BY <1>1, <1>2, <1>8, <2>1, <3>1, <3>2, SentFacts
  <2>2. CASE ~old.announced
    <3>1. toClient' = toClient /\ view' = view
      BY <1>2, <2>2 DEF DespawnTold
    <3> QED
      BY <1>1, <2>2, <3>1 DEF WillShow, TypeOK
  <2> QED
    BY <2>1, <2>2
<1>10. ASSUME NEW p \in Players, seated[p], ~left[p]
       PROVE  /\ \A o \in ShownIds : o # id => WillShow(p)'[o] = WillShow(p)[o]
              /\ WillShow(p)'[id] = Absent
  <2> DEFINE w == WillShow(p)
  <2>1. w \in Views
    BY <1>1, StreamsAreReadable
  <2>2. ShowsEntity(p, old, w[id])
    BY <1>1, <1>3, <1>10 DEF EverybodySees, SeesTable
  <2> HIDE DEF w
  <2>3. CASE old.announced /\ p # old.owner
    <3> DEFINE m == Despawn(id)
    <3>1. m \in Packets /\ m.id = id /\ m.kind = "despawn"
      BY <1>3, PacketTypes, IdFacts DEF Despawn
    <3> HIDE DEF m
    <3>2. WillShow(p)' = Shown(w, m)
      BY <1>9, <1>10, <2>1, <2>3, <3>1, ReadOne DEF w, m
    <3>3. ShownOne(w, m, id, WillShow(p)')
      BY <2>1, <3>1, <3>2, ShownFacts
    <3>4. /\ \A o \in ShownIds : o # id => WillShow(p)'[o] = w[o]
          /\ WillShow(p)'[id] = Absent
      BY <3>1, <3>3 DEF ShownOne
    <3> QED
      BY <3>4 DEF w
  <2>4. CASE ~(old.announced /\ p # old.owner)
    <3>1. WillShow(p)' = w
      BY <1>9, <2>4 DEF w
    <3>2. w[id] = Absent
      BY <2>2, <2>4 DEF ShowsEntity
    <3> QED
      BY <3>1, <3>2 DEF w
  <2> QED
    BY <2>3, <2>4
<1> HIDE DEF e, old, id, told
<1>11. /\ UNCHANGED playerVars /\ view' = view
       /\ nextGeneration' = nextGeneration /\ nextGeneration' \in Nat
       /\ nextGeneration' >= nextGeneration /\ acts' \in Nat
       /\ step' \in {"packets", "players", "stepping", "calling", "announcing", "removing"}
       /\ cursor' \in 0 .. MaxEntities /\ cutoff' \in Nat
       /\ CalleeIsThere'
  BY <1>1, <1>2, <1>3, <1>4 DEF TypeOK, CalleeIsThere
<1>12. TableInvariant'
  BY <1>1, <1>3, <1>5, <1>6, <1>7, <1>9, <1>11, TableKept
<1>13. \A p \in Players : seated[p] /\ ~left[p] =>
           /\ \A o \in EntityIds : o # id => WillShow(p)'[o] = WillShow(p)[o]
           /\ ShowsEntity(p, e, WillShow(p)'[id])
           /\ IF entityId[p] = id THEN ShowsOwn(e, WillShow(p)'[Local])
              ELSE WillShow(p)'[Local] = WillShow(p)[Local]
  <2> SUFFICES ASSUME NEW p \in Players, seated[p], ~left[p]
               PROVE  /\ \A o \in EntityIds : o # id => WillShow(p)'[o] = WillShow(p)[o]
                      /\ ShowsEntity(p, e, WillShow(p)'[id])
                      /\ entityId[p] # id
                      /\ WillShow(p)'[Local] = WillShow(p)[Local]
    OBVIOUS
  <2> QED
    BY <1>3, <1>5, <1>7, <1>10, IdFacts DEF ShowsEntity
<1>14. EverybodySees'
  BY <1>3, <1>5, <1>6, <1>11, <1>13, SlotSeen
<1> QED
  BY <1>12, <1>14 DEF ReplicationInvariant

\* Whoever reads the news of an entity shows it as it is.
LEMMA NewsRead ==
    ASSUME NEW e \in EntityRecords, e.active, ~e.pendingRemoval, e.generation >= 1,
           cursor \in EntityIds,
           NEW w \in Views, NEW p, p # e.owner, ShowsEntity(p, e, w[cursor])
    PROVE  /\ News(e) \in Seq(Packets)
           /\ Read(w, News(e))[cursor] = Picture(e)
           /\ \A o \in ShownIds : o # cursor => Read(w, News(e))[o] = w[o]
<1> DEFINE S == Spawn(e, cursor)
           T == Teleport(e, cursor)
<1>1. /\ S \in Packets /\ S.id = cursor /\ S.kind = "spawn" /\ S.entity = Picture(e)
      /\ T \in Packets /\ T.id = cursor /\ T.kind = "teleport" /\ T.entity.at = e.at
  <2>1. S \in Packets /\ T \in Packets
    BY PacketTypes, IdFacts
  <2> QED
    BY <2>1 DEF Spawn, Teleport, Picture, Absent
<1>2. News(e) = (IF e.announced THEN <<>> ELSE <<S>>)
                \o (IF e.announced /\ ~e.dirty THEN <<>> ELSE <<T>>)
  BY DEF News
<1> HIDE DEF S, T
<1>3. <<S>> \in Seq(Packets) /\ <<T>> \in Seq(Packets) /\ <<>> \in Seq(Packets)
  BY <1>1
<1>4. w[cursor] \in ShownRecords /\ Picture(e) \in ShownRecords /\ Picture(e) # Absent
  <2>1. w[cursor] \in ShownRecords /\ Picture(e) \in ShownRecords
    BY IdFacts, PacketTypes DEF Views
  <2> QED
    BY <2>1, PicturesAreThere DEF Picture
<1>5. [Picture(e) EXCEPT !.at = e.at] = Picture(e)
  BY DEF Picture
<1>6. CASE ~e.announced
  <2>1. News(e) = <<S>> \o <<T>>
    BY <1>2, <1>6
  <2> DEFINE v == Shown(w, S)
             u == Shown(v, T)
  <2>2. Read(w, News(e)) = u
    BY <1>1, <2>1, ReadTwo
  <2>3. ShownOne(w, S, cursor, v)
    BY <1>1, ShownFacts
  <2>4. v \in Views
    BY <2>3 DEF ShownOne
  <2>5. ShownOne(v, T, cursor, u)
    BY <1>1, <2>4, ShownFacts
  <2>6. News(e) \in Seq(Packets)
    BY <1>3, <2>1, ConcatProperties
  <2> HIDE DEF u, v
  <2>7. v[cursor] = Picture(e) /\ \A o \in ShownIds : o # cursor => v[o] = w[o]
    BY <1>1, <2>3 DEF ShownOne
  <2>8. u[cursor] = Picture(e) /\ \A o \in ShownIds : o # cursor => u[o] = v[o]
    BY <1>1, <1>4, <1>5, <2>5, <2>7 DEF ShownOne
  <2> QED
    BY <2>2, <2>6, <2>7, <2>8
<1>7. CASE e.announced /\ e.dirty
  <2>1. News(e) = <<>> \o <<T>>
    BY <1>2, <1>7
  <2> DEFINE u == Shown(w, T)
  <2>2. Read(w, News(e)) = u /\ News(e) \in Seq(Packets)
    BY <1>1, <1>3, <2>1, ReadConcat, ReadNone, ReadOne
  <2>3. ShownOne(w, T, cursor, u)
    BY <1>1, ShownFacts
  <2> HIDE DEF u
  <2>4. w[cursor] = Picture(e) \/ w[cursor] = [Picture(e) EXCEPT !.at = w[cursor].at]
    BY <1>7 DEF ShowsEntity
  <2>5. w[cursor].generation = e.generation
    BY <2>4 DEF Picture
  <2>6. w[cursor] # Absent /\ [w[cursor] EXCEPT !.at = e.at] = Picture(e)
    <3>1. w[cursor] # Absent
      BY <1>4, <2>5, PicturesAreThere
    <3>2. CASE w[cursor] = Picture(e)
      BY <1>5, <3>1, <3>2
    <3>3. CASE w[cursor] = [Picture(e) EXCEPT !.at = w[cursor].at]
      BY <3>1, <3>3 DEF Picture
    <3> QED
      BY <2>4, <3>2, <3>3
  <2>7. u[cursor] = Picture(e) /\ \A o \in ShownIds : o # cursor => u[o] = w[o]
    BY <1>1, <2>3, <2>6 DEF ShownOne
  <2> QED
    BY <2>2, <2>7
<1>8. CASE e.announced /\ ~e.dirty
  <2>1. News(e) = <<>> \o <<>>
    BY <1>2, <1>8
  <2>2. Read(w, News(e)) = w /\ News(e) \in Seq(Packets)
    BY <1>3, <2>1, ReadConcat, ReadNone
  <2>3. w[cursor] = Picture(e)
    BY <1>8 DEF ShowsEntity
  <2> QED
    BY <2>2, <2>3
<1> QED
  BY <1>6, <1>7, <1>8

\* The second loop tells everybody but the owner of an entity that stays.
LEMMA AnnounceEntityKeeps ==
    ASSUME ReplicationInvariant, AnnounceEntity, entities[cursor].active
    PROVE  ReplicationInvariant'
<1> DEFINE id == cursor
           old == entities[id]
           e == [old EXCEPT !.announced = TRUE, !.dirty = FALSE]
           told == [p \in Players |-> News(old)]
<1>1. TableInvariant /\ TypeOK /\ EverybodySees
  BY DEF ReplicationInvariant, TableInvariant
<1>2. /\ step = "announcing" /\ cursor < MaxEntities /\ ~old.pendingRemoval /\ old.active
      /\ toClient' = BroadcastExcluding(News(old), old.owner)
      /\ entities' = [entities EXCEPT ![cursor].announced = TRUE, ![cursor].dirty = FALSE]
      /\ cursor' = cursor + 1
      /\ UNCHANGED <<nextGeneration, playerVars, step, cutoff, view, acts>>
  BY DEF AnnounceEntity
<1>3. cursor \in 0 .. MaxEntities /\ id \in EntityIds
  BY <1>1, <1>2, IdFacts DEF TypeOK
<1>4. old \in EntityRecords /\ nextGeneration \in Nat
  BY <1>1, <1>3 DEF TypeOK
<1>5. /\ e \in EntityRecords /\ e.active /\ ~e.pendingRemoval /\ e.announced
      /\ e.owner = old.owner /\ e.generation = old.generation /\ e.model = old.model
      /\ Picture(e) = Picture(old)
  BY <1>2, <1>4 DEF EntityRecords, Picture
<1>6. entities' = [entities EXCEPT ![id] = e]
  BY <1>1, <1>2, <1>3 DEF TypeOK
<1>7. old.generation \in 1 .. nextGeneration /\ old.generation >= 1
  BY <1>1, <1>2, <1>3, <1>4 DEF TableInvariant, GenerationsGivenOut
<1>8. News(old) \in Seq(Packets)
  <2>1. Spawn(old, id) \in Packets /\ Teleport(old, id) \in Packets
    BY <1>3, <1>4, PacketTypes, IdFacts
  <2>2. /\ <<Spawn(old, id)>> \in Seq(Packets) /\ <<Teleport(old, id)>> \in Seq(Packets)
        /\ <<>> \in Seq(Packets)
    BY <2>1
  <2>3. /\ (IF old.announced THEN <<>> ELSE <<Spawn(old, id)>>) \in Seq(Packets)
        /\ (IF old.announced /\ ~old.dirty THEN <<>> ELSE <<Teleport(old, id)>>) \in Seq(Packets)
    BY <2>2
  <2> QED
    BY <2>3, ConcatProperties DEF News
<1> HIDE DEF e, old
<1>9. told \in [Players -> Seq(Packets)] /\ \A p \in Players : told[p] = News(old)
  BY <1>8
<1>10. /\ toClient' \in [Players -> Seq(Packets)]
       /\ \A p \in Players : ~(seated[p] /\ ~left[p]) => toClient'[p] = toClient[p]
       /\ \A p \in Players :
              WillShow(p)' = IF p # old.owner /\ seated[p] /\ ~left[p]
                             THEN Read(WillShow(p), News(old)) ELSE WillShow(p)
  <2>1. toClient' = SentTo(Players \ {old.owner}, told)
    BY <1>2 DEF BroadcastExcluding
  <2>2. Players \ {old.owner} \in SUBSET Players
    OBVIOUS
  <2> HIDE DEF told
  <2> QED
    BY <1>1, <1>2, <1>9, <2>1, <2>2, SentFacts
<1>11. ASSUME NEW p \in Players, seated[p], ~left[p]
       PROVE  /\ \A o \in EntityIds : o # id => WillShow(p)'[o] = WillShow(p)[o]
              /\ ShowsEntity(p, e, WillShow(p)'[id])
              /\ WillShow(p)'[Local] = WillShow(p)[Local]
  <2> DEFINE w == WillShow(p)
  <2>1. w \in Views
    BY <1>1, StreamsAreReadable
  <2>2. ShowsEntity(p, old, w[id])
    BY <1>1, <1>3, <1>11 DEF EverybodySees, SeesTable, old
  <2>3. id # Local
    BY <1>3, IdFacts
  <2>4. CASE p # old.owner
    <3>1. WillShow(p)' = Read(w, News(old))
      BY <1>10, <1>11, <2>4
    <3> HIDE DEF w
    <3>2. /\ Read(w, News(old))[id] = Picture(old)
          /\ \A o \in ShownIds : o # id => Read(w, News(old))[o] = w[o]
      BY <1>2, <1>3, <1>4, <1>7, <2>1, <2>2, <2>4, NewsRead
    <3>3. /\ \A o \in EntityIds : o # id => WillShow(p)'[o] = w[o]
          /\ WillShow(p)'[Local] = w[Local]
          /\ WillShow(p)'[id] = Picture(e)
      BY <1>5, <2>3, <3>1, <3>2, IdFacts
    <3>4. ShowsEntity(p, e, Picture(e))
      BY <1>5, <2>4 DEF ShowsEntity
    <3> QED
      BY <3>3, <3>4 DEF w
  <2>5. CASE p = old.owner
    <3>1. WillShow(p)' = w
      BY <1>10, <2>5
    <3>2. ShowsEntity(p, e, w[id])
      BY <1>5, <2>2, <2>5 DEF ShowsEntity
    <3> QED
      BY <3>1, <3>2
  <2> QED
    BY <2>4, <2>5
<1>12. ASSUME NEW p \in Players, seated[p], ~left[p], entityId[p] = id
       PROVE  ShowsOwn(e, WillShow(p)'[Local])
  <2>1. ShowsOwn(old, WillShow(p)[Local])
    BY <1>1, <1>12 DEF EverybodySees, SeesTable, old
  <2> QED
    BY <1>5, <1>11, <1>12, <2>1 DEF ShowsOwn
<1>13. \A p \in Players : seated[p] /\ entityId[p] = id =>
           e.active /\ ~e.pendingRemoval /\ e.owner = p
  BY <1>1, <1>5 DEF TableInvariant, PlayersHaveEntities, Usable, old
<1> HIDE DEF id, told
<1>14. /\ UNCHANGED playerVars /\ view' = view
       /\ nextGeneration' = nextGeneration /\ nextGeneration' \in Nat
       /\ nextGeneration' >= nextGeneration /\ acts' \in Nat
       /\ step' \in {"packets", "players", "stepping", "calling", "announcing", "removing"}
       /\ cursor' \in 0 .. MaxEntities /\ cutoff' \in Nat
       /\ CalleeIsThere'
  BY <1>1, <1>2, <1>3, <1>4 DEF TypeOK, CalleeIsThere
<1>15. TableInvariant'
  BY <1>1, <1>3, <1>5, <1>6, <1>7, <1>10, <1>13, <1>14, TableKept
<1>16. EverybodySees'
  <2>1. \A p \in Players : seated[p] /\ ~left[p] =>
            /\ \A o \in EntityIds : o # id => WillShow(p)'[o] = WillShow(p)[o]
            /\ ShowsEntity(p, e, WillShow(p)'[id])
            /\ IF entityId[p] = id THEN ShowsOwn(e, WillShow(p)'[Local])
               ELSE WillShow(p)'[Local] = WillShow(p)[Local]
    BY <1>11, <1>12
  <2> QED
    BY <1>3, <1>5, <1>6, <1>14, <2>1, SlotSeen
<1> QED
  BY <1>15, <1>16 DEF ReplicationInvariant

----------------------------------------------------------------------------
(* A player joins.                                                         *)

\* What ServerEntities_Send says of one slot.
LEMMA IntroductionType ==
    ASSUME TypeOK, NEW p, NEW id \in EntityIds
    PROVE  Introduction(p, id) \in Seq(Packets)
<1>1. entities[id] \in EntityRecords
  BY DEF TypeOK
<1>2. Spawn(entities[id], id) \in Packets /\ Teleport(entities[id], id) \in Packets
  BY <1>1, PacketTypes, IdFacts
<1>3. <<Spawn(entities[id], id), Teleport(entities[id], id)>> \in Seq(Packets)
  BY <1>2
<1>4. <<>> \in Seq(Packets)
  OBVIOUS
<1> QED
  BY <1>3, <1>4 DEF Introduction

\* The packets of the first n slots, for every n.
IsIntroduction(f, p) ==
    /\ DOMAIN f = 0 .. MaxEntities
    /\ f[0] = <<>>
    /\ \A n \in 1 .. MaxEntities : f[n] = f[n - 1] \o Introduction(p, n - 1)

\* ServerEntities_Send goes through the slots and ends.
LEMMA IntroductionsAre ==
    ASSUME NEW p
    PROVE  \E f : IsIntroduction(f, p) /\ Introductions(p) = f[MaxEntities]
<1> DEFINE Upto(n) == \E f : /\ DOMAIN f = 0 .. n /\ f[0] = <<>>
                             /\ \A k \in 1 .. n : f[k] = f[k - 1] \o Introduction(p, k - 1)
           Bad == {n \in 0 .. MaxEntities : ~ Upto(n)}
<1>1. MaxEntities \in Nat
  OBVIOUS
<1>2. Upto(0)
  <2> DEFINE f == [k \in 0 .. 0 |-> <<>>]
  <2>1. DOMAIN f = 0 .. 0 /\ f[0] = <<>> /\ \A k \in 1 .. 0 : FALSE
    OBVIOUS
  <2> HIDE DEF f
  <2> QED
    BY <2>1
<1>3. ASSUME NEW n \in 1 .. MaxEntities, Upto(n - 1) PROVE Upto(n)
  <2>1. PICK f : /\ DOMAIN f = 0 .. n - 1 /\ f[0] = <<>>
                 /\ \A k \in 1 .. n - 1 : f[k] = f[k - 1] \o Introduction(p, k - 1)
    BY <1>3
  <2> DEFINE g == [k \in 0 .. n |-> IF k = n THEN f[n - 1] \o Introduction(p, n - 1) ELSE f[k]]
  <2>2. DOMAIN g = 0 .. n /\ g[0] = <<>>
    BY <2>1
  <2>3. g[n] = f[n - 1] \o Introduction(p, n - 1)
    OBVIOUS
  <2>4. \A k \in 0 .. n - 1 : g[k] = f[k]
    <3>1. \A k \in 0 .. n - 1 : k \in 0 .. n /\ k # n
      OBVIOUS
    <3> QED
      BY <3>1
  <2> HIDE DEF g
  <2>5. ASSUME NEW k \in 1 .. n PROVE g[k] = g[k - 1] \o Introduction(p, k - 1)
    <3>1. k - 1 \in 0 .. n - 1
      OBVIOUS
    <3>2. CASE k = n
      BY <2>3, <2>4, <3>1, <3>2
    <3>3. CASE k # n
      <4>1. k \in 1 .. n - 1 /\ k \in 0 .. n - 1
        BY <3>3
      <4> QED
        BY <2>1, <2>4, <3>1, <4>1
    <3> QED
      BY <3>2, <3>3
  <2> QED
    BY <2>2, <2>5
<1>4. Bad = {}
  <2> SUFFICES ASSUME Bad # {} PROVE FALSE
    OBVIOUS
  <2> HIDE DEF Upto
  <2>1. Bad \in SUBSET Nat
    OBVIOUS
  <2>2. PICK n \in Bad : \A k \in Bad : n <= k
    <3> HIDE DEF Bad
    <3> QED
      BY <2>1, LeastOne
  <2>3. n \in 1 .. MaxEntities /\ n - 1 \in 0 .. MaxEntities /\ n - 1 \notin Bad
    BY <1>2, <2>2
  <2> QED
    BY <1>3, <2>2, <2>3
<1>5. Upto(MaxEntities)
  <2> HIDE DEF Upto
  <2> QED
    BY <1>4
<1> DEFINE Step(f) == [n \in 0 .. MaxEntities |->
               IF n = 0 THEN <<>> ELSE f[n - 1] \o Introduction(p, n - 1)]
           upTo == CHOOSE f : f = Step(f)
<1>6. \E f : f = Step(f)
  <2>1. PICK f : /\ DOMAIN f = 0 .. MaxEntities /\ f[0] = <<>>
                 /\ \A k \in 1 .. MaxEntities : f[k] = f[k - 1] \o Introduction(p, k - 1)
    BY <1>5
  <2> DEFINE g == [n \in 0 .. MaxEntities |-> f[n]]
  <2>2. \A n \in 0 .. MaxEntities : n # 0 => n \in 1 .. MaxEntities /\ n - 1 \in 0 .. MaxEntities
    OBVIOUS
  <2>3. \A n \in 0 .. MaxEntities : n # 0 => g[n] = g[n - 1] \o Introduction(p, n - 1)
    BY <2>1, <2>2
  <2>4. 0 \in 0 .. MaxEntities => g[0] = <<>>
    BY <2>1
  <2>5. g = [n \in 0 .. MaxEntities |-> g[n]]
    OBVIOUS
  <2> HIDE DEF g
  <2>6. \A n \in 0 .. MaxEntities : g[n] = IF n = 0 THEN <<>> ELSE g[n - 1] \o Introduction(p, n - 1)
    BY <2>3, <2>4
  <2>7. g = Step(g)
    BY <2>5, <2>6
  <2> HIDE DEF Step
  <2> QED
    BY <2>7
<1>7. upTo = Step(upTo)
  BY <1>6
<1>8. Introductions(p) = upTo[MaxEntities]
  BY DEF Introductions
<1> HIDE DEF upTo
<1>9. IsIntroduction(upTo, p)
  <2>1. \A n \in 0 .. MaxEntities :
            upTo[n] = IF n = 0 THEN <<>> ELSE upTo[n - 1] \o Introduction(p, n - 1)
    BY <1>7
  <2>2. DOMAIN upTo = 0 .. MaxEntities
    BY <1>7
  <2> QED
    BY <2>1, <2>2 DEF IsIntroduction
<1> QED
  BY <1>8, <1>9

\* What a newcomer shows once it was told of the first n slots.
ToldUpTo(p, w, v, n) ==
    /\ v \in Views
    /\ v[Local] = w[Local]
    /\ \A o \in EntityIds :
           v[o] = IF o < n /\ KnownToNewcomer(p, o) THEN Picture(entities[o]) ELSE Absent

\* One more slot.
LEMMA OneMoreTold ==
    ASSUME TypeOK, GenerationsGivenOut, NEW p, NEW w, NEW v, NEW id \in EntityIds,
           ToldUpTo(p, w, v, id)
    PROVE  ToldUpTo(p, w, Read(v, Introduction(p, id)), id + 1)
<1>1. entities[id] \in EntityRecords /\ v \in Views
  BY DEF TypeOK, ToldUpTo
<1>2. id \in Int /\ EntityIds \subseteq Int /\ id # Local /\ id \in ShownIds
  BY IdFacts
<1>3. CASE ~KnownToNewcomer(p, id)
  <2>1. Read(v, Introduction(p, id)) = v
    BY <1>1, <1>3, ReadNone DEF Introduction
  <2>2. \A o \in EntityIds : (o < id /\ KnownToNewcomer(p, o))
                               <=> (o < id + 1 /\ KnownToNewcomer(p, o))
    <3> SUFFICES ASSUME NEW o \in EntityIds, KnownToNewcomer(p, o) PROVE o < id <=> o < id + 1
      OBVIOUS
    <3>1. o # id /\ o \in Int
      BY <1>2, <1>3
    <3> QED
      BY <1>2, <3>1
  <2> QED
    BY <2>1, <2>2 DEF ToldUpTo
<1>4. CASE KnownToNewcomer(p, id)
  <2> DEFINE e == entities[id]
             S == Spawn(e, id)
             T == Teleport(e, id)
             a == Shown(v, S)
             b == Shown(a, T)
  <2>1. /\ S \in Packets /\ S.id = id /\ S.kind = "spawn" /\ S.entity = Picture(e)
        /\ T \in Packets /\ T.id = id /\ T.kind = "teleport" /\ T.entity.at = e.at
    <3>1. S \in Packets /\ T \in Packets
      BY <1>1, <1>2, PacketTypes
    <3> QED
      BY <3>1 DEF Spawn, Teleport, Picture, Absent
  <2>2. Introduction(p, id) = <<S>> \o <<T>>
    BY <1>4 DEF Introduction
  <2>3. Read(v, Introduction(p, id)) = b
    BY <1>1, <2>1, <2>2, ReadTwo
  <2>4. ShownOne(v, S, id, a)
    BY <1>1, <2>1, ShownFacts
  <2>5. a \in Views
    BY <2>4 DEF ShownOne
  <2>6. ShownOne(a, T, id, b)
    BY <2>1, <2>5, ShownFacts
  <2>7. e.generation \in 1 .. nextGeneration /\ nextGeneration \in Nat
    BY <1>4 DEF KnownToNewcomer, Usable, GenerationsGivenOut, TypeOK
  <2>8. Picture(e) # Absent /\ [Picture(e) EXCEPT !.at = e.at] = Picture(e)
    BY <2>7 DEF Picture, Absent
  <2> HIDE DEF S, T, a, b, e
  <2>9. a[id] = Picture(e) /\ \A o \in ShownIds : o # id => a[o] = v[o]
    BY <2>1, <2>4 DEF ShownOne
  <2>10. /\ b[id] = Picture(e) /\ \A o \in ShownIds : o # id => b[o] = a[o]
         /\ b \in Views
    BY <2>1, <2>6, <2>8, <2>9 DEF ShownOne
  <2>11. b[Local] = w[Local]
    BY <1>2, <2>9, <2>10, IdFacts DEF ToldUpTo
  <2>12. ASSUME NEW o \in EntityIds
         PROVE  b[o] = IF o < id + 1 /\ KnownToNewcomer(p, o) THEN Picture(entities[o]) ELSE Absent
    <3>1. CASE o = id
      BY <1>2, <1>4, <2>10, <3>1 DEF e
    <3>2. CASE o # id
      <4>1. b[o] = v[o]
        BY <2>9, <2>10, <3>2, IdFacts
      <4>2. o < id + 1 <=> o < id
        BY <1>2, <3>2
      <4> QED
        BY <4>1, <4>2 DEF ToldUpTo
    <3> QED
      BY <3>1, <3>2
  <2> QED
    BY <2>3, <2>10, <2>11, <2>12 DEF ToldUpTo
<1> QED
  BY <1>3, <1>4

\* A newcomer that shows nothing is told of every slot.
LEMMA IntroductionsTold ==
    ASSUME TypeOK, GenerationsGivenOut, NEW p, NEW w \in Views,
           \A o \in EntityIds : w[o] = Absent
    PROVE  /\ Introductions(p) \in Seq(Packets)
           /\ ToldUpTo(p, w, Read(w, Introductions(p)), MaxEntities)
<1>1. PICK f : IsIntroduction(f, p) /\ Introductions(p) = f[MaxEntities]
  BY IntroductionsAre
<1> DEFINE Good(n) == f[n] \in Seq(Packets) /\ ToldUpTo(p, w, Read(w, f[n]), n)
           Bad == {n \in 0 .. MaxEntities : ~ Good(n)}
<1>2. Good(0)
  <2>1. f[0] = <<>> /\ <<>> \in Seq(Packets)
    BY <1>1 DEF IsIntroduction
  <2>2. Read(w, f[0]) = w
    BY <2>1, ReadNone
  <2>3. \A o \in EntityIds : ~ (o < 0)
    BY DEF EntityIds
  <2> QED
    BY <2>1, <2>2, <2>3 DEF ToldUpTo
<1>3. ASSUME NEW n \in 1 .. MaxEntities, Good(n - 1) PROVE Good(n)
  <2>1. n - 1 \in EntityIds /\ (n - 1) + 1 = n
    BY DEF EntityIds
  <2>2. f[n] = f[n - 1] \o Introduction(p, n - 1)
    BY <1>1 DEF IsIntroduction
  <2>3. Introduction(p, n - 1) \in Seq(Packets) /\ f[n - 1] \in Seq(Packets)
    BY <1>3, <2>1, IntroductionType
  <2>4. /\ f[n] \in Seq(Packets)
        /\ Read(w, f[n]) = Read(Read(w, f[n - 1]), Introduction(p, n - 1))
    BY <2>2, <2>3, ReadConcat
  <2>5. ToldUpTo(p, w, Read(w, f[n - 1]), n - 1)
    BY <1>3
  <2>6. ToldUpTo(p, w, Read(Read(w, f[n - 1]), Introduction(p, n - 1)), (n - 1) + 1)
    BY <2>1, <2>5, OneMoreTold
  <2> QED
    BY <2>1, <2>4, <2>6
<1>4. Bad = {}
  <2> SUFFICES ASSUME Bad # {} PROVE FALSE
    OBVIOUS
  <2>1. Bad \in SUBSET Nat
    OBVIOUS
  <2> HIDE DEF Good
  <2>2. PICK n \in Bad : \A k \in Bad : n <= k
    <3> HIDE DEF Bad
    <3> QED
      BY <2>1, LeastOne
  <2>3. n \in 1 .. MaxEntities /\ n - 1 \in 0 .. MaxEntities /\ n - 1 \notin Bad
    BY <1>2, <2>2
  <2> QED
    BY <1>3, <2>2, <2>3
<1>5. Good(MaxEntities)
  <2> HIDE DEF Good
  <2> QED
    BY <1>4
<1> QED
  BY <1>1, <1>5

\* A newcomer has a slot of its own and is told of all the others.
LEMMA JoinKeeps ==
    ASSUME ReplicationInvariant, NEW p \in Players, NEW id \in EntityIds, Join(p, id)
    PROVE  ReplicationInvariant'
<1> DEFINE e == Added(id, 0, Start, p)
           S == Spawn(e, Local)
           w == Shown(view[p], S)
           r == Read(w, Introductions(p))
<1>1. TableInvariant /\ TypeOK /\ EverybodySees /\ GenerationsGivenOut
  BY DEF ReplicationInvariant, TableInvariant
<1>2. /\ step = "packets" /\ ~seated[p] /\ ~entities[id].active
      /\ entities' = [entities EXCEPT ![id] = e]
      /\ toClient' = [toClient EXCEPT ![p] = <<S>> \o Introductions(p)]
      /\ nextGeneration' = nextGeneration + 1
      /\ seated' = [seated EXCEPT ![p] = TRUE]
      /\ entityId' = [entityId EXCEPT ![p] = id]
      /\ UNCHANGED <<left, loopVars, view, acts>>
  BY DEF Join, IsFirstFree, FreeIds
<1>3. /\ nextGeneration \in Nat /\ entities \in [EntityIds -> EntityRecords]
      /\ view[p] \in Views
  BY <1>1, StreamsAreReadable DEF TypeOK
<1>4. /\ e \in EntityRecords /\ e.active /\ ~e.announced /\ ~e.pendingRemoval
      /\ e.generation = nextGeneration + 1 /\ e.owner = p
  BY <1>3, AddedFacts
<1> HIDE DEF e
<1>5. /\ entities' \in [EntityIds -> EntityRecords]
      /\ entities'[id] = e
      /\ \A o \in EntityIds : o # id => entities'[o] = entities[o]
  BY <1>1, <1>2, <1>4, SlotChanges
<1>6. S \in Packets /\ S.id = Local /\ S.kind = "spawn" /\ S.entity = Picture(e)
  <2>1. S \in Packets
    BY <1>4, PacketTypes, IdFacts
  <2> QED
    BY <2>1 DEF Spawn, Picture
<1> HIDE DEF S
<1>7. ~left[p] /\ \A o \in ShownIds : view[p][o] = Absent
  BY <1>1, <1>2 DEF TableInvariant, PlayersHaveEntities, AwayShowNothing
<1>8. ShownOne(view[p], S, Local, w)
  BY <1>3, <1>6, ShownFacts
<1> HIDE DEF w
<1>9. w \in Views /\ w[Local] = Picture(e) /\ \A o \in EntityIds : w[o] = Absent
  BY <1>6, <1>7, <1>8, IdFacts DEF ShownOne
<1>10. /\ Introductions(p) \in Seq(Packets)
       /\ ToldUpTo(p, w, r, MaxEntities)
  BY <1>1, <1>9, IntroductionsTold
<1>11. /\ <<S>> \o Introductions(p) \in Seq(Packets)
       /\ Read(view[p], <<S>> \o Introductions(p)) = r
  <2>1. <<S>> \in Seq(Packets) /\ Read(view[p], <<S>>) = w
    BY <1>3, <1>6, ReadOne DEF w
  <2> QED
    BY <1>3, <1>10, <2>1, ReadConcat
<1> HIDE DEF r
<1>12. WillShow(p)' = r /\ \A q \in Players : q # p => WillShow(q)' = WillShow(q)
  BY <1>1, <1>2, <1>11 DEF WillShow, TypeOK
<1>13. TypeOK'
  BY <1>1, <1>2, <1>5, <1>11 DEF TypeOK, loopVars
<1>14. /\ seated'[p] /\ entityId'[p] = id /\ left' = left
       /\ \A q \in Players : q # p => /\ seated'[q] = seated[q] /\ entityId'[q] = entityId[q]
                                      /\ toClient'[q] = toClient[q]
  BY <1>1, <1>2 DEF TypeOK
<1>15. \A q \in Players : seated[q] => /\ entityId[q] \in EntityIds /\ entityId[q] # id
                                       /\ entities'[entityId[q]] = entities[entityId[q]]
  BY <1>1, <1>2, <1>5 DEF TableInvariant, PlayersHaveEntities, Usable
<1>16. PlayersHaveEntities'
  <2> SUFFICES ASSUME NEW q \in Players
               PROVE  IF seated'[q] THEN /\ entityId'[q] \in EntityIds
                                         /\ entities'[entityId'[q]].active
                                         /\ ~entities'[entityId'[q]].pendingRemoval
                                         /\ entities'[entityId'[q]].owner = q
                      ELSE entityId'[q] = NoEntity /\ ~left'[q]
    BY DEF PlayersHaveEntities, Usable
  <2>1. CASE q = p
    BY <1>4, <1>5, <1>14, <2>1
  <2>2. CASE q # p
    BY <1>1, <1>14, <1>15, <2>2 DEF TableInvariant, PlayersHaveEntities, Usable
  <2> QED
    BY <2>1, <2>2
<1>17. AwayShowNothing'
  <2> SUFFICES ASSUME NEW q \in Players, ~seated'[q] \/ left'[q]
               PROVE  toClient'[q] = <<>> /\ \A o \in ShownIds : view'[q][o] = Absent
    BY DEF AwayShowNothing
  <2>1. q # p
    BY <1>7, <1>14
  <2> QED
    BY <1>1, <1>2, <1>14, <2>1 DEF TableInvariant, AwayShowNothing
<1>18. CalleeIsThere'
  BY <1>2 DEF CalleeIsThere, loopVars
<1>19. GenerationsGivenOut'
  <2> SUFFICES ASSUME NEW o \in EntityIds, entities'[o].active
               PROVE  entities'[o].generation \in 1 .. nextGeneration'
    BY DEF GenerationsGivenOut
  <2>1. CASE o = id
    BY <1>2, <1>3, <1>4, <1>5, <2>1
  <2>2. CASE o # id
    <3>1. entities[o].generation \in 1 .. nextGeneration /\ entities'[o] = entities[o]
      BY <1>1, <1>5, <2>2 DEF GenerationsGivenOut
    <3> QED
      BY <1>2, <1>3, <3>1
  <2> QED
    BY <2>1, <2>2
<1>20. EverybodySees'
  <2> SUFFICES ASSUME NEW q \in Players, seated'[q], ~left'[q]
               PROVE  /\ \A o \in EntityIds : ShowsEntity(q, entities'[o], WillShow(q)'[o])
                      /\ ShowsOwn(entities'[entityId'[q]], WillShow(q)'[Local])
    BY DEF EverybodySees, SeesTable
  <2>1. CASE q = p
    <3>1. ShowsOwn(e, r[Local])
      BY <1>9, <1>10 DEF ToldUpTo, ShowsOwn, Picture
    <3>2. ASSUME NEW o \in EntityIds
          PROVE  ShowsEntity(p, entities'[o], r[o])
      <4>1. o < MaxEntities
        BY DEF EntityIds
      <4>2. r[o] = IF KnownToNewcomer(p, o) THEN Picture(entities[o]) ELSE Absent
        BY <1>10, <4>1 DEF ToldUpTo
      <4>3. CASE o = id
        <5>1. ~KnownToNewcomer(p, o)
          BY <1>2, <4>3 DEF KnownToNewcomer, Usable
        <5> QED
          BY <1>4, <1>5, <4>2, <4>3, <5>1 DEF ShowsEntity
      <4>4. CASE o # id
        <5>1. entities'[o] = entities[o]
          BY <1>5, <4>4
        <5> QED
          BY <4>2, <5>1 DEF KnownToNewcomer, Usable, ShowsEntity
      <4> QED
        BY <4>3, <4>4
    <3> QED
      BY <1>5, <1>12, <1>14, <2>1, <3>1, <3>2
  <2>2. CASE q # p
    <3>1. /\ WillShow(q)' = WillShow(q) /\ seated[q] /\ ~left[q]
          /\ entityId'[q] = entityId[q]
      BY <1>12, <1>14, <2>2
    <3>2. /\ \A o \in EntityIds : ShowsEntity(q, entities[o], WillShow(q)[o])
          /\ ShowsOwn(entities[entityId[q]], WillShow(q)[Local])
      BY <1>1, <3>1 DEF EverybodySees, SeesTable
    <3>3. ASSUME NEW o \in EntityIds PROVE ShowsEntity(q, entities'[o], WillShow(q)[o])
      <4>1. CASE o = id
        <5>1. WillShow(q)[o] = Absent
          BY <1>2, <3>2, <4>1 DEF ShowsEntity
        <5> QED
          BY <1>4, <1>5, <4>1, <5>1 DEF ShowsEntity
      <4>2. CASE o # id
        BY <1>5, <3>2, <4>2
      <4> QED
        BY <4>1, <4>2
    <3> QED
      BY <1>15, <3>1, <3>2, <3>3
  <2> QED
    BY <2>1, <2>2
<1> QED
  BY <1>13, <1>16, <1>17, <1>18, <1>19, <1>20 DEF ReplicationInvariant, TableInvariant

----------------------------------------------------------------------------
(* The theorems.                                                           *)

\* Every step keeps the invariant.
LEMMA NextKeeps ==
    ASSUME ReplicationInvariant, Next
    PROVE  ReplicationInvariant'
<1>1. CASE StartUpdate \/ ClockStands
  BY <1>1, LoopSteps
<1>2. CASE EntitiesStep
  <2>1. CASE FinishDestroy
    BY <2>1, FinishDestroyKeeps
  <2>2. CASE AnnounceEntity
    <3>1. CASE entities[cursor].active
      BY <2>2, <3>1, AnnounceEntityKeeps
    <3>2. CASE ~entities[cursor].active
      <4>1. /\ UNCHANGED <<serverVars, playerVars, wireVars, acts>>
            /\ step' = "announcing" /\ cutoff' = cutoff
            /\ cursor < MaxEntities /\ cursor' = cursor + 1
        BY <2>2, <3>2 DEF AnnounceEntity, serverVars, wireVars
      <4>2. cursor \in 0 .. MaxEntities /\ cutoff \in Nat
        BY DEF ReplicationInvariant, TableInvariant, TypeOK
      <4>3. cursor' \in 0 .. MaxEntities /\ CalleeIsThere'
        BY <4>1, <4>2 DEF CalleeIsThere
      <4> QED
        BY <4>1, <4>2, <4>3, LoopKeeps
    <3> QED
      BY <3>1, <3>2
  <2>3. CASE StepEntity \/ StepReturns \/ StartAnnouncing \/ StartDestroy \/ FinishUpdate
               \/ StartEntities
    BY <2>3, LoopSteps
  <2> QED
    BY <1>2, <2>1, <2>2, <2>3 DEF EntitiesStep
<1>3. CASE ScriptStep
  <2>1. ASSUME NEW id \in EntityIds, NEW model \in Models, ScriptSpawns(id, model)
        PROVE  ReplicationInvariant'
    BY <2>1, ScriptSpawnsKeeps
  <2>2. ASSUME NEW id \in EntityIds, NEW model \in Models, ScriptSetsModel(id, model)
        PROVE  ReplicationInvariant'
    BY <2>2, ScriptSetsModelKeeps
  <2>3. ASSUME NEW id \in EntityIds, NEW at \in Spots, ScriptMoves(id, at)
        PROVE  ReplicationInvariant'
    BY <2>3, MovesKeep
  <2>4. ASSUME NEW id \in EntityIds, ScriptRemoves(id)
        PROVE  ReplicationInvariant'
    BY <2>4, ScriptRemovesKeeps
  <2> QED
    BY <1>3, <2>1, <2>2, <2>3, <2>4 DEF ScriptStep
<1>4. CASE PlayerStep
  <2> PICK p \in Players :
          \/ \E id \in EntityIds : Join(p, id)
          \/ \E at \in Spots : HandlePlayerPosition(p, at)
          \/ HangUp(p) \/ ClientReceive(p) \/ RemovePlayer(p)
    BY <1>4 DEF PlayerStep
  <2>1. CASE \E id \in EntityIds : Join(p, id)
    BY <2>1, JoinKeeps
  <2>2. CASE \E at \in Spots : HandlePlayerPosition(p, at)
    BY <2>2, MovesKeep
  <2>3. CASE HangUp(p)
    BY <2>3, HangUpKeeps
  <2>4. CASE ClientReceive(p)
    BY <2>4, ClientReceiveKeeps
  <2>5. CASE RemovePlayer(p)
    BY <2>5, RemovePlayerKeeps
  <2> QED
    BY <2>1, <2>2, <2>3, <2>4, <2>5
<1> QED
  BY <1>1, <1>2, <1>3, <1>4 DEF Next

\* A step of nothing keeps it too.
LEMMA StutterKeeps ==
    ASSUME ReplicationInvariant, UNCHANGED vars
    PROVE  ReplicationInvariant'
<1>1. /\ UNCHANGED <<serverVars, playerVars, wireVars, acts>>
      /\ step' = step /\ cursor' = cursor /\ cutoff' = cutoff /\ entities' = entities
  BY DEF vars, loopVars, serverVars
<1>2. /\ step \in {"packets", "players", "stepping", "calling", "announcing", "removing"}
      /\ cursor \in 0 .. MaxEntities /\ cutoff \in Nat /\ CalleeIsThere
  BY DEF ReplicationInvariant, TableInvariant, TypeOK
<1>3. CalleeIsThere'
  BY <1>1, <1>2 DEF CalleeIsThere
<1> QED
  BY <1>1, <1>2, <1>3, LoopKeeps

\* The conjunction is an invariant.
THEOREM ReplicationInvariantHolds == Spec => []ReplicationInvariant
<1>1. Init => ReplicationInvariant
  BY InitHolds
<1>2. ReplicationInvariant /\ [Next]_vars => ReplicationInvariant'
  BY NextKeeps, StutterKeeps
<1> QED
  BY <1>1, <1>2, PTL DEF Spec

\* EntitiesInvariant: every seated player has one slot of its own, is told of
\* its own model under the number Local, and nobody who left is sent anything
\* (ServerWorld_AddPlayer, ServerWorld_RemovePlayer, ServerWorld_SetEntityModel).
THEOREM EntitiesInvariantHolds == Spec => []EntitiesInvariant
<1>1. ReplicationInvariant => EntitiesInvariant
  BY InvariantIsChecked
<1> QED
  BY <1>1, ReplicationInvariantHolds, PTL

\* ClientShowsTable: a client that has read its stream shows under each number
\* the entity that has the slot, whatever slots were given back and taken again
\* on the way (ServerEntities_Update, ServerEntities_Send).
THEOREM ClientShowsTableHolds == Spec => []ClientShowsTable
<1>1. ReplicationInvariant => ClientShowsTable
  BY InvariantIsChecked
<1> QED
  BY <1>1, ReplicationInvariantHolds, PTL

\* No step gives the slot of a callback's entity to another one.
LEMMA SlotStaysWithCallee ==
    ASSUME ReplicationInvariant, Next, step \in {"calling", "removing"}
    PROVE  entities'[cursor].generation = entities[cursor].generation
<1>1. TypeOK /\ CalleeIsThere
  BY DEF ReplicationInvariant, TableInvariant
<1>2. /\ cursor \in EntityIds /\ entities[cursor].active
      /\ entities \in [EntityIds -> EntityRecords]
  BY <1>1, IdFacts DEF CalleeIsThere, TypeOK
<1>3. CASE StartUpdate \/ ClockStands
  BY <1>3 DEF StartUpdate, ClockStands
<1>4. CASE EntitiesStep
  <2>1. CASE FinishDestroy
    BY <1>2, <2>1 DEF FinishDestroy, SlotFreed, EntityRecords
  <2>2. CASE StepReturns
    BY <2>2 DEF StepReturns, serverVars
  <2> QED
    BY <1>4, <2>1, <2>2
    DEF EntitiesStep, StartEntities, StepEntity, StartAnnouncing, StartDestroy, AnnounceEntity,
        FinishUpdate
<1>5. CASE ScriptStep
  <2>1. ASSUME NEW id \in EntityIds, NEW model \in Models, ScriptSpawns(id, model)
        PROVE  entities'[cursor].generation = entities[cursor].generation
    <3>1. id # cursor
      BY <1>2, <2>1 DEF ScriptSpawns, IsFirstFree, FreeIds
    <3> QED
      BY <1>2, <2>1, <3>1 DEF ScriptSpawns
  <2>2. ASSUME NEW id \in EntityIds, NEW model \in Models, ScriptSetsModel(id, model)
        PROVE  entities'[cursor].generation = entities[cursor].generation
    BY <1>2, <2>2 DEF ScriptSetsModel, EntityRecords
  <2>3. ASSUME NEW id \in EntityIds, NEW at \in Spots, ScriptMoves(id, at)
        PROVE  entities'[cursor].generation = entities[cursor].generation
    BY <1>2, <2>3 DEF ScriptMoves, Moved, EntityRecords
  <2>4. ASSUME NEW id \in EntityIds, ScriptRemoves(id)
        PROVE  entities'[cursor].generation = entities[cursor].generation
    BY <1>2, <2>4 DEF ScriptRemoves, Removed, EntityRecords
  <2> QED
    BY <1>5, <2>1, <2>2, <2>3, <2>4 DEF ScriptStep
<1>6. CASE PlayerStep
  BY <1>6 DEF PlayerStep, Join, HandlePlayerPosition, HangUp, ClientReceive, RemovePlayer,
              serverVars
<1> QED
  BY <1>3, <1>4, <1>5, <1>6 DEF Next

\* CalleeKeepsItsSlot: the Entity pointer that ServerEntities_Update and Destroy
\* hold over an on_step or on_remove callback still means the same entity when
\* the callback returns.
THEOREM CalleeKeepsItsSlotHolds == Spec => CalleeKeepsItsSlot
<1>1. ReplicationInvariant /\ [Next]_vars =>
          [(step \in {"calling", "removing"}) =>
               entities'[cursor].generation = entities[cursor].generation]_vars
  BY SlotStaysWithCallee
<1> QED
  BY <1>1, ReplicationInvariantHolds, PTL DEF Spec, CalleeKeepsItsSlot
=============================================================================
