------------------------ MODULE ChunkStreamingProofs ------------------------
(***************************************************************************)
(* Proofs about ChunkStreaming, for every number of chunks, players,       *)
(* places, edits and restarts.  First the server's part: a chunk has one   *)
(* owner among the loader, the two result lists and the table, and what    *)
(* the owner holds can be stored.  Then what the clients show: the stream  *)
(* to a client is read one packet after the other, so what it will show    *)
(* depends on the packets only through the last load or unload of a chunk  *)
(* and the last set after it.  One lemma per action shows that the action  *)
(* keeps each part; the theorems are at the end.                           *)
(***************************************************************************)
EXTENDS ChunkStreaming, SequenceFacts

USE StreamingAssumption

\* The conjuncts that do not speak of what a client shows.
ServerInvariant ==
    /\ TypeOK
    /\ OutstandingOnce
    /\ RequestIsOutstanding
    /\ SubscribersAreSeated
    /\ PlayersInPlace
    /\ ThreadsInStep
    /\ LoadsAreFresh

----------------------------------------------------------------------------
(* One owner per chunk.                                                    *)

\* The chunks of a list of results.
LEMMA ChunksOfFacts ==
    ASSUME NEW rs \in Seq(LoadResults)
    PROVE  /\ ChunksOf(rs) \in Seq(Chunks)
           /\ ToSet(ChunksOf(rs)) = {r.chunk : r \in ToSet(rs)}
<1>1. /\ Len(rs) \in Nat /\ DOMAIN rs = 1 .. Len(rs)
      /\ \A i \in 1 .. Len(rs) : rs[i] \in LoadResults
  BY LenProperties, ElementOfSeq
<1>2. ChunksOf(rs) \in [1 .. Len(rs) -> Chunks]
  BY <1>1 DEF ChunksOf, LoadResults
<1>3. ChunksOf(rs) \in Seq(Chunks)
  BY <1>1, <1>2, SeqDef
<1>4. DOMAIN ChunksOf(rs) = DOMAIN rs /\ \A i \in DOMAIN rs : ChunksOf(rs)[i] = rs[i].chunk
  BY DEF ChunksOf
<1>5. ToSet(ChunksOf(rs)) = {r.chunk : r \in ToSet(rs)}
  BY <1>4 DEF ToSet
<1> QED
  BY <1>3, <1>5

\* A published result.
LEMMA ChunksOfAppend ==
    ASSUME NEW rs \in Seq(LoadResults), NEW r \in LoadResults
    PROVE  ChunksOf(Append(rs, r)) = Append(ChunksOf(rs), r.chunk)
<1> DEFINE a == ChunksOf(Append(rs, r))
           b == Append(ChunksOf(rs), r.chunk)
<1>1. /\ Append(rs, r) \in Seq(LoadResults) /\ Len(rs) \in Nat
      /\ DOMAIN rs = 1 .. Len(rs) /\ DOMAIN Append(rs, r) = 1 .. Len(rs) + 1
      /\ \A i \in 1 .. Len(rs) : Append(rs, r)[i] = rs[i]
      /\ Append(rs, r)[Len(rs) + 1] = r
  BY AppendProperties, LenProperties
<1>2. /\ a \in Seq(Chunks) /\ ChunksOf(rs) \in Seq(Chunks) /\ r.chunk \in Chunks
  BY <1>1, ChunksOfFacts DEF LoadResults
<1>3. Len(ChunksOf(rs)) = Len(rs) /\ Len(a) = Len(rs) + 1
  BY <1>1, <1>2, LenProperties DEF ChunksOf
<1>4. /\ b \in Seq(Chunks) /\ Len(b) = Len(rs) + 1
      /\ \A i \in 1 .. Len(rs) : b[i] = rs[i].chunk
      /\ b[Len(rs) + 1] = r.chunk
  <2>1. \A i \in 1 .. Len(rs) : ChunksOf(rs)[i] = rs[i].chunk
    BY <1>1 DEF ChunksOf
  <2> QED
    BY <1>2, <1>3, <2>1, AppendProperties
<1>5. /\ \A i \in 1 .. Len(rs) : a[i] = rs[i].chunk
      /\ a[Len(rs) + 1] = r.chunk
  BY <1>1 DEF ChunksOf
<1> HIDE DEF a, b
<1>6. \A i \in 1 .. Len(a) : i \in 1 .. Len(rs) \/ i = Len(rs) + 1
  BY <1>1, <1>3
<1>7. a = b
  BY <1>2, <1>3, <1>4, <1>5, <1>6, SeqEqual
<1> QED
  BY <1>7 DEF a, b

\* A served result.
LEMMA ChunksOfTail ==
    ASSUME NEW rs \in Seq(LoadResults), rs # <<>>
    PROVE  /\ ChunksOf(rs) # <<>>
           /\ Head(ChunksOf(rs)) = Head(rs).chunk
           /\ ChunksOf(Tail(rs)) = Tail(ChunksOf(rs))
<1> DEFINE a == ChunksOf(Tail(rs))
           b == Tail(ChunksOf(rs))
<1>1. /\ Tail(rs) \in Seq(LoadResults) /\ Len(rs) \in Nat \ {0}
      /\ DOMAIN rs = 1 .. Len(rs) /\ DOMAIN Tail(rs) = 1 .. Len(Tail(rs))
      /\ Len(Tail(rs)) = Len(rs) - 1
      /\ \A i \in 1 .. Len(Tail(rs)) : Tail(rs)[i] = rs[i + 1]
      /\ Head(rs) = rs[1]
  BY HeadTailProperties, LenProperties, EmptySeq
<1>2. a \in Seq(Chunks) /\ ChunksOf(rs) \in Seq(Chunks)
  BY <1>1, ChunksOfFacts
<1>3. Len(ChunksOf(rs)) = Len(rs) /\ Len(a) = Len(rs) - 1
  <2>1. DOMAIN ChunksOf(rs) = 1 .. Len(rs)
    BY <1>1 DEF ChunksOf
  <2>2. DOMAIN a = 1 .. Len(Tail(rs))
    BY <1>1 DEF ChunksOf
  <2>3. Len(Tail(rs)) \in Nat
    BY <1>1, LenProperties
  <2> HIDE DEF a
  <2>4. Len(ChunksOf(rs)) = Len(rs)
    BY <1>1, <1>2, <2>1, LenOfDomain
  <2>5. Len(a) = Len(Tail(rs))
    BY <1>2, <2>2, <2>3, LenOfDomain
  <2> QED
    BY <1>1, <2>4, <2>5
<1>4. ChunksOf(rs) # <<>>
  BY <1>1, <1>3, EmptySeq
<1>5. \A i \in 1 .. Len(rs) : ChunksOf(rs)[i] = rs[i].chunk
  BY <1>1 DEF ChunksOf
<1>6. Head(ChunksOf(rs)) = Head(rs).chunk
  BY <1>1, <1>2, <1>5
<1>7. \A i \in 1 .. Len(rs) - 1 : i + 1 \in 1 .. Len(rs)
  BY <1>1
<1>8. /\ b \in Seq(Chunks) /\ Len(b) = Len(rs) - 1
      /\ \A i \in 1 .. Len(rs) - 1 : b[i] = rs[i + 1].chunk
  BY <1>2, <1>3, <1>4, <1>5, <1>7, HeadTailProperties
<1>9. \A i \in 1 .. Len(rs) - 1 : a[i] = rs[i + 1].chunk
  BY <1>1 DEF ChunksOf
<1> HIDE DEF a, b
<1>10. a = b
  BY <1>2, <1>3, <1>8, <1>9, SeqEqual
<1> QED
  BY <1>4, <1>6, <1>10 DEF a, b

\* The four lists and the table share no chunk.
OneOwner(rq, bz, rs, tk, tb) ==
    /\ IsInjective(rq) /\ IsInjective(rs) /\ IsInjective(tk) /\ IsInjective(tb)
    /\ bz \notin ToSet(rq) \cup ToSet(rs) \cup ToSet(tk) \cup ToSet(tb)
    /\ ToSet(rq) \cap (ToSet(rs) \cup ToSet(tk) \cup ToSet(tb)) = {}
    /\ ToSet(rs) \cap (ToSet(tk) \cup ToSet(tb)) = {}
    /\ ToSet(tk) \cap ToSet(tb) = {}

\* OutstandingOnce, list by list.
LEMMA OwnerForm ==
    ASSUME NEW rq \in Seq(Chunks), NEW bz \in Chunks \cup {NoChunk}, NEW rs \in Seq(Chunks),
           NEW tk \in Seq(Chunks), NEW tb \in Seq(Chunks)
    PROVE  /\ ToSet(rq \o InHand(bz) \o rs \o tk) =
                  ToSet(rq) \cup ({bz} \ {NoChunk}) \cup ToSet(rs) \cup ToSet(tk)
           /\ IsInjective((rq \o InHand(bz) \o rs \o tk) \o tb) <=> OneOwner(rq, bz, rs, tk, tb)
<1> DEFINE h == InHand(bz)
<1>1. /\ h \in Seq(Chunks) /\ IsInjective(h) /\ ToSet(h) = {bz} \ {NoChunk}
  <2>1. CASE bz = NoChunk
    BY <2>1, EmptyFacts, EmptySeq DEF InHand
  <2>2. CASE bz # NoChunk
    <3>1. h = <<bz>> /\ bz \in Chunks
      BY <2>2 DEF InHand
    <3>2. <<bz>> \in Seq(Chunks) /\ IsInjective(<<bz>>) /\ ToSet(<<bz>>) = {bz}
      BY <3>1, SingletonFacts
    <3> QED
      BY <2>2, <3>1, <3>2
  <2> QED
    BY <2>1, <2>2
<1> HIDE DEF h
<1> DEFINE u == rq \o h
           v == u \o rs
           w == v \o tk
<1>2. /\ u \in Seq(Chunks) /\ ToSet(u) = ToSet(rq) \cup ToSet(h)
      /\ IsInjective(u) <=> IsInjective(rq) /\ IsInjective(h) /\ ToSet(rq) \cap ToSet(h) = {}
  BY <1>1, ConcatFacts, ConcatProperties
<1> HIDE DEF u
<1>3. /\ v \in Seq(Chunks) /\ ToSet(v) = ToSet(u) \cup ToSet(rs)
      /\ IsInjective(v) <=> IsInjective(u) /\ IsInjective(rs) /\ ToSet(u) \cap ToSet(rs) = {}
  BY <1>2, ConcatFacts, ConcatProperties
<1> HIDE DEF v
<1>4. /\ w \in Seq(Chunks) /\ ToSet(w) = ToSet(v) \cup ToSet(tk)
      /\ IsInjective(w) <=> IsInjective(v) /\ IsInjective(tk) /\ ToSet(v) \cap ToSet(tk) = {}
  BY <1>3, ConcatFacts, ConcatProperties
<1> HIDE DEF w
<1>5. IsInjective(w \o tb) <=>
          IsInjective(w) /\ IsInjective(tb) /\ ToSet(w) \cap ToSet(tb) = {}
  BY <1>4, ConcatFacts
<1>6. NoChunk \notin ToSet(rq) \cup ToSet(rs) \cup ToSet(tk) \cup ToSet(tb)
  BY ToSetMembers
<1>7. ToSet(w) = ToSet(rq) \cup ({bz} \ {NoChunk}) \cup ToSet(rs) \cup ToSet(tk)
  BY <1>1, <1>2, <1>3, <1>4
<1>8. IsInjective(w \o tb) <=> OneOwner(rq, bz, rs, tk, tb)
  <2>1. bz # NoChunk => ToSet(h) = {bz}
    BY <1>1
  <2>2. bz = NoChunk => ToSet(h) = {}
    BY <1>1
  <2>3. CASE bz # NoChunk
    BY <1>1, <1>2, <1>3, <1>4, <1>5, <2>1, <2>3 DEF OneOwner
  <2>4. CASE bz = NoChunk
    BY <1>1, <1>2, <1>3, <1>4, <1>5, <1>6, <2>2, <2>4 DEF OneOwner
  <2> QED
    BY <2>3, <2>4
<1> QED
  BY <1>7, <1>8 DEF h, u, v, w

\* In a state of the right types, OutstandingOnce list by list, and the chunks
\* of the pipeline.
LEMMA Owners ==
    ASSUME TypeOK
    PROVE  /\ OutstandingOnce <=>
                  OneOwner(requests, busy, ChunksOf(results), ChunksOf(taken), table)
           /\ ToSet(Pipeline) = ToSet(requests) \cup ({busy} \ {NoChunk})
                  \cup ToSet(ChunksOf(results)) \cup ToSet(ChunksOf(taken))
<1>1. ChunksOf(results) \in Seq(Chunks) /\ ChunksOf(taken) \in Seq(Chunks)
  BY ChunksOfFacts DEF TypeOK
<1>2. requests \in Seq(Chunks) /\ busy \in Chunks \cup {NoChunk} /\ table \in Seq(Chunks)
  BY DEF TypeOK
<1> QED
  BY <1>1, <1>2, OwnerForm DEF OutstandingOnce, Pipeline

\* The same of the next state.
LEMMA OwnersNext ==
    ASSUME TypeOK'
    PROVE  /\ OutstandingOnce' <=>
                  OneOwner(requests', busy', ChunksOf(results)', ChunksOf(taken)', table')
           /\ ToSet(Pipeline)' = ToSet(requests') \cup ({busy'} \ {NoChunk})
                  \cup ToSet(ChunksOf(results)') \cup ToSet(ChunksOf(taken)')
<1>1. ChunksOf(results') \in Seq(Chunks) /\ ChunksOf(taken') \in Seq(Chunks)
  BY ChunksOfFacts DEF TypeOK
<1>2. ChunksOf(results)' = ChunksOf(results') /\ ChunksOf(taken)' = ChunksOf(taken')
  BY DEF ChunksOf
<1>3. InHand(busy)' = InHand(busy')
  BY DEF InHand
<1>4. requests' \in Seq(Chunks) /\ busy' \in Chunks \cup {NoChunk} /\ table' \in Seq(Chunks)
  BY DEF TypeOK
<1> QED
  BY <1>1, <1>2, <1>3, <1>4, OwnerForm DEF OutstandingOnce, Pipeline

\* No list, no chunks.
LEMMA ChunksOfNone == ChunksOf(<<>>) = <<>>
  BY DEF ChunksOf

----------------------------------------------------------------------------
(* Packets.                                                                *)

\* What the server sends are packets.
LEMMA PacketTypes ==
    ASSUME NEW c \in Chunks, NEW b \in Blocks
    PROVE  /\ Load(c, b) \in Packets
           /\ Unload(c) \in Packets
           /\ SetTo(c, b) \in Packets
           /\ SetTo(c, b) \in Sets
  BY DEF Load, Unload, SetTo, Packets, Sets

\* Packets for players with a seat do not reach anybody who is away.
LEMMA SentFacts ==
    ASSUME toClient \in [Players -> Seq(Packets)], NEW ps, NEW ms \in Seq(Packets)
    PROVE  /\ SentAll(ps, ms) \in [Players -> Seq(Packets)]
           /\ \A q \in Players : left[q] \/ q \notin ps => SentAll(ps, ms)[q] = toClient[q]
           /\ \A q \in ps \cap Players : ~left[q] => SentAll(ps, ms)[q] = toClient[q] \o ms
<1>1. \A q \in Players : toClient[q] \o ms \in Seq(Packets)
  BY ConcatProperties
<1> QED
  BY <1>1 DEF SentAll

\* The same of one packet.
LEMMA SentOneFacts ==
    ASSUME toClient \in [Players -> Seq(Packets)], NEW ps, NEW m \in Packets
    PROVE  /\ SentTo(ps, m) \in [Players -> Seq(Packets)]
           /\ \A q \in Players : left[q] \/ q \notin ps => SentTo(ps, m)[q] = toClient[q]
           /\ \A q \in ps \cap Players : ~left[q] => SentTo(ps, m)[q] = toClient[q] \o <<m>>
<1>1. <<m>> \in Seq(Packets)
  OBVIOUS
<1> QED
  BY <1>1, SentFacts DEF SentTo

\* What a load brings is a block.
LEMMA OnDiskType ==
    ASSUME TypeOK, NEW c \in Chunks
    PROVE  OnDisk(c) \in Blocks
<1>1. generator \in Generators /\ file[c] \in Blocks \cup {NoBlock}
  BY DEF TypeOK
<1>2. Generated[generator][c] \in Blocks
  BY <1>1
<1> QED
  BY <1>1, <1>2 DEF OnDisk

----------------------------------------------------------------------------
(* The server's part of the invariant: the loader thread.                  *)

\* The server begins with an empty table.
LEMMA InitServer == Init => ServerInvariant
<1> SUFFICES ASSUME Init PROVE ServerInvariant
  OBVIOUS
<1> USE DEF Init
<1>1. TypeOK
  BY DEF TypeOK
<1>2. OutstandingOnce
  BY <1>1, Owners, ChunksOfNone, EmptyFacts DEF OneOwner
<1>3. RequestIsOutstanding /\ SubscribersAreSeated /\ PlayersInPlace /\ ThreadsInStep
  BY DEF RequestIsOutstanding, SubscribersAreSeated, PlayersInPlace, ThreadsInStep, Ending, Seated
<1>4. LoadsAreFresh
  BY EmptyFacts DEF LoadsAreFresh, InTable
<1> QED
  BY <1>1, <1>2, <1>3, <1>4 DEF ServerInvariant

\* The conjuncts that a step of the loader thread leaves alone.
LEMMA LoaderFrame ==
    ASSUME ServerInvariant,
           UNCHANGED <<serverVars, file, generator, mainVars, playerVars, wireVars, counters>>
    PROVE  SubscribersAreSeated' /\ PlayersInPlace'
<1> USE DEF ServerInvariant, serverVars, mainVars, playerVars, wireVars, counters
<1>1. Seated' = Seated /\ InTable' = InTable
  BY DEF Seated, InTable
<1>2. SubscribersAreSeated'
  BY <1>1 DEF SubscribersAreSeated
<1>3. PlayersInPlace'
  BY <1>1 DEF PlayersInPlace
<1> QED
  BY <1>2, <1>3

\* ChunkLoaderRun takes a request.
LEMMA LoaderTakesKeeps == ServerInvariant /\ LoaderTakes => ServerInvariant'
<1> SUFFICES ASSUME ServerInvariant, LoaderTakes PROVE ServerInvariant'
  OBVIOUS
<1> USE DEF ServerInvariant
<1>0. SubscribersAreSeated' /\ PlayersInPlace'
  BY LoaderFrame DEF LoaderTakes
<1> USE DEF LoaderTakes, serverVars, mainVars, playerVars, wireVars, counters
<1>1. requests \in Seq(Chunks) /\ requests # <<>>
  BY DEF TypeOK
<1>2. /\ Head(requests) \in Chunks /\ Tail(requests) \in Seq(Chunks)
      /\ ToSet(requests) = {Head(requests)} \cup ToSet(Tail(requests))
      /\ IsInjective(requests) => /\ IsInjective(Tail(requests))
                                  /\ Head(requests) \notin ToSet(Tail(requests))
  BY <1>1, HeadTailProperties, TailFacts
<1>3. TypeOK'
  BY <1>2 DEF TypeOK
<1>4. ChunksOf(results)' = ChunksOf(results) /\ ChunksOf(taken)' = ChunksOf(taken)
  BY DEF ChunksOf
<1>5. OutstandingOnce'
  <2>1. OneOwner(requests, busy, ChunksOf(results), ChunksOf(taken), table)
    BY Owners
  <2>2. OneOwner(requests', busy', ChunksOf(results)', ChunksOf(taken)', table')
    BY <1>2, <1>4, <2>1 DEF OneOwner
  <2> QED
    BY <1>3, <2>2, OwnersNext
<1>6. RequestIsOutstanding'
  <2>1. ToSet(Pipeline)' = ToSet(Pipeline)
    BY <1>2, <1>3, <1>4, Owners, OwnersNext
  <2> QED
    BY <2>1 DEF RequestIsOutstanding
<1>7. ThreadsInStep'
  BY DEF ThreadsInStep, TypeOK
<1>8. LoadsAreFresh'
  BY DEF LoadsAreFresh, ThreadsInStep, InTable, OnDisk
<1> QED
  BY <1>0, <1>3, <1>5, <1>6, <1>7, <1>8

\* ChunkLoaderRun reads or generates the chunk.
LEMMA LoaderCreatesKeeps == ServerInvariant /\ LoaderCreates => ServerInvariant'
<1> SUFFICES ASSUME ServerInvariant, LoaderCreates PROVE ServerInvariant'
  OBVIOUS
<1> USE DEF ServerInvariant
<1>0. SubscribersAreSeated' /\ PlayersInPlace'
  BY LoaderFrame DEF LoaderCreates
<1> USE DEF LoaderCreates, serverVars, mainVars, playerVars, wireVars, counters
<1>1. busy \in Chunks /\ OnDisk(busy) \in Blocks
  BY OnDiskType DEF TypeOK
<1>2. TypeOK'
  BY <1>1 DEF TypeOK
<1>3. OutstandingOnce' /\ RequestIsOutstanding'
  BY DEF OutstandingOnce, RequestIsOutstanding, Pipeline
<1>4. ThreadsInStep'
  BY DEF ThreadsInStep
<1>5. LoadsAreFresh'
  BY DEF LoadsAreFresh, InTable, OnDisk
<1> QED
  BY <1>0, <1>2, <1>3, <1>4, <1>5

\* ChunkLoaderRun hands the chunk over.
LEMMA LoaderPublishesKeeps == ServerInvariant /\ LoaderPublishes => ServerInvariant'
<1> SUFFICES ASSUME ServerInvariant, LoaderPublishes PROVE ServerInvariant'
  OBVIOUS
<1> USE DEF ServerInvariant
<1>0. SubscribersAreSeated' /\ PlayersInPlace'
  BY LoaderFrame DEF LoaderPublishes
<1> USE DEF LoaderPublishes, serverVars, mainVars, playerVars, wireVars, counters
<1> DEFINE r == [chunk |-> busy, block |-> loading]
<1>1. results \in Seq(LoadResults) /\ r \in LoadResults /\ r.chunk = busy /\ r.block = loading
  BY DEF TypeOK, LoadResults
<1>2. results' = Append(results, r)
  OBVIOUS
<1> HIDE DEF r
<1>3. /\ results' \in Seq(LoadResults)
      /\ ToSet(results') = ToSet(results) \cup {r}
      /\ ChunksOf(results') = Append(ChunksOf(results), busy)
      /\ ChunksOf(results) \in Seq(Chunks)
  BY <1>1, <1>2, AppendProperties, AppendFacts, ChunksOfAppend, ChunksOfFacts
<1>4. TypeOK'
  BY <1>3 DEF TypeOK
<1>5. busy \in Chunks
  BY DEF TypeOK
<1>6. /\ ToSet(ChunksOf(results')) = ToSet(ChunksOf(results)) \cup {busy}
      /\ IsInjective(ChunksOf(results)) /\ busy \notin ToSet(ChunksOf(results))
             => IsInjective(ChunksOf(results'))
  <2> DEFINE s == ChunksOf(results)
  <2>1. s \in Seq(Chunks)
    BY <1>3
  <2> HIDE DEF s
  <2>2. /\ ToSet(Append(s, busy)) = ToSet(s) \cup {busy}
        /\ IsInjective(s) /\ busy \notin ToSet(s) => IsInjective(Append(s, busy))
    BY <1>5, <2>1, AppendFacts
  <2> QED
    BY <1>3, <2>2 DEF s
<1>7. ChunksOf(results)' = ChunksOf(results') /\ ChunksOf(taken)' = ChunksOf(taken)
  BY DEF ChunksOf
<1>8. OutstandingOnce'
  <2>1. OneOwner(requests, busy, ChunksOf(results), ChunksOf(taken), table)
    BY Owners
  <2>2. NoChunk \notin ToSet(requests) \cup ToSet(ChunksOf(results')) \cup ToSet(ChunksOf(taken))
                        \cup ToSet(table)
    <3>1. /\ requests \in Seq(Chunks) /\ ChunksOf(results') \in Seq(Chunks)
          /\ ChunksOf(taken) \in Seq(Chunks) /\ table \in Seq(Chunks)
      BY <1>3, ChunksOfFacts DEF TypeOK
    <3> QED
      BY <3>1, ToSetMembers
  <2>3. OneOwner(requests', busy', ChunksOf(results)', ChunksOf(taken)', table')
    BY <1>6, <1>7, <2>1, <2>2 DEF OneOwner
  <2> QED
    BY <1>4, <2>3, OwnersNext
<1>9. RequestIsOutstanding'
  <2>1. ToSet(Pipeline)' = ToSet(Pipeline)
    BY <1>4, <1>5, <1>6, <1>7, Owners, OwnersNext
  <2> QED
    BY <2>1 DEF RequestIsOutstanding
<1>10. ThreadsInStep'
  BY DEF ThreadsInStep
<1>11. LoadsAreFresh'
  BY <1>1, <1>3 DEF LoadsAreFresh, InTable, OnDisk
<1> QED
  BY <1>0, <1>4, <1>8, <1>9, <1>10, <1>11

\* ChunkLoaderRun ends.
LEMMA LoaderExitsKeeps == ServerInvariant /\ LoaderExits => ServerInvariant'
<1> SUFFICES ASSUME ServerInvariant, LoaderExits PROVE ServerInvariant'
  OBVIOUS
<1> USE DEF ServerInvariant
<1>0. SubscribersAreSeated' /\ PlayersInPlace'
  BY LoaderFrame DEF LoaderExits
<1> USE DEF LoaderExits, serverVars, mainVars, playerVars, wireVars, counters
<1>1. TypeOK'
  BY DEF TypeOK
<1>2. OutstandingOnce' /\ RequestIsOutstanding'
  BY DEF OutstandingOnce, RequestIsOutstanding, Pipeline
<1>3. ThreadsInStep'
  BY DEF ThreadsInStep
<1>4. LoadsAreFresh'
  BY DEF LoadsAreFresh, InTable, OnDisk
<1> QED
  BY <1>0, <1>1, <1>2, <1>3, <1>4

----------------------------------------------------------------------------
(* The server's part: players and packets.                                 *)

\* A step that touches neither the lists nor the table.
LEMMA PipelineFrame ==
    ASSUME OutstandingOnce, UNCHANGED <<table, requests, busy, results, taken>>
    PROVE  OutstandingOnce' /\ ToSet(Pipeline)' = ToSet(Pipeline)
  BY DEF OutstandingOnce, Pipeline

\* A step that touches neither content nor the disk.
LEMMA FreshFrame ==
    ASSUME LoadsAreFresh,
           UNCHANGED <<table, block, modified, file, generator, loading, busy, results, taken>>
    PROVE  LoadsAreFresh'
  BY DEF LoadsAreFresh, InTable, OnDisk

\* A bounded counter stays a number.
LEMMA CounterCounts ==
    ASSUME NEW n \in Nat, NEW m, m = n + 1
    PROVE  m \in Nat
  OBVIOUS

\* ServerWorld_AddPlayer.
LEMMA JoinKeeps ==
    ASSUME ServerInvariant, NEW p \in Players, Join(p)
    PROVE  ServerInvariant'
<1>m. moves' \in Nat
  BY CounterCounts DEF ServerInvariant, TypeOK, Join
<1> USE DEF ServerInvariant, Join, serverVars, loaderVars, mainVars, wireVars
<1>0. seated' \in [Players -> BOOLEAN] /\ place' \in [Players -> Places]
  BY DEF TypeOK
<1>1. TypeOK'
  BY <1>m, <1>0 DEF TypeOK
<1>2. OutstandingOnce' /\ RequestIsOutstanding'
  BY PipelineFrame DEF RequestIsOutstanding
<1>3. LoadsAreFresh'
  BY FreshFrame
<1>4. Seated' = Seated \cup {p} /\ InTable' = InTable
  <2>1. \A q \in Players : seated'[q] = (seated[q] \/ q = p)
    BY DEF TypeOK
  <2> QED
    BY ZenonT(60), <2>1 DEF Seated, InTable
<1>5. SubscribersAreSeated'
  BY <1>4 DEF SubscribersAreSeated
<1>6. ThreadsInStep'
  BY DEF ThreadsInStep
<1>7. PlayersInPlace'
  BY <1>4 DEF PlayersInPlace, TypeOK, Ending
<1> QED
  BY <1>1, <1>2, <1>3, <1>5, <1>6, <1>7

\* ServerNetwork_Disconnect.
LEMMA HangUpKeeps ==
    ASSUME ServerInvariant, NEW p \in Players, HangUp(p)
    PROVE  ServerInvariant'
<1>m. moves' \in Nat
  BY CounterCounts DEF ServerInvariant, TypeOK, HangUp
<1> USE DEF ServerInvariant, HangUp, serverVars, loaderVars, mainVars
<1>0. /\ left' \in [Players -> BOOLEAN]
      /\ toServer' \in [Players -> Seq(ClientEdits)] /\ toClient' \in [Players -> Seq(Packets)]
      /\ view' \in [Players -> [Chunks -> Blocks \cup {Undefined, NoBlock}]]
  <2>1. <<>> \in Seq(ClientEdits) /\ <<>> \in Seq(Packets)
    BY EmptySeq
  <2>2. [c \in Chunks |-> NoBlock] \in [Chunks -> Blocks \cup {Undefined, NoBlock}]
    OBVIOUS
  <2> QED
    BY <2>1, <2>2 DEF TypeOK
<1>1. TypeOK'
  BY <1>m, <1>0 DEF TypeOK
<1>2. OutstandingOnce' /\ RequestIsOutstanding'
  BY PipelineFrame DEF RequestIsOutstanding
<1>3. LoadsAreFresh'
  BY FreshFrame
<1>4. Seated' = Seated /\ InTable' = InTable
  BY DEF Seated, InTable
<1>5. SubscribersAreSeated'
  BY <1>4 DEF SubscribersAreSeated
<1>6. ThreadsInStep'
  BY DEF ThreadsInStep
<1>7. PlayersInPlace'
  <2>1. \A q \in Players : left'[q] \/ requested'[q] # NoChunk => seated'[q]
    BY DEF PlayersInPlace, TypeOK
  <2>2. \A q \in Players : ~seated'[q] \/ left'[q] =>
            /\ toServer'[q] = <<>> /\ toClient'[q] = <<>>
            /\ view'[q] = [c \in Chunks |-> NoBlock]
    BY DEF PlayersInPlace, TypeOK
  <2> QED
    BY <1>4, <2>1, <2>2 DEF PlayersInPlace
<1> QED
  BY <1>1, <1>2, <1>3, <1>5, <1>6, <1>7

\* A player moves or changes its draw distance.
LEMMA MoveKeeps ==
    ASSUME ServerInvariant, NEW p \in Players, NEW at \in Places, Move(p, at)
    PROVE  ServerInvariant'
<1>m. moves' \in Nat
  BY CounterCounts DEF ServerInvariant, TypeOK, Move
<1> USE DEF ServerInvariant, Move, serverVars, loaderVars, mainVars, wireVars
<1>0. place' \in [Players -> Places]
  BY DEF TypeOK
<1>1. TypeOK'
  BY <1>m, <1>0 DEF TypeOK
<1>2. OutstandingOnce' /\ RequestIsOutstanding'
  BY PipelineFrame DEF RequestIsOutstanding
<1>3. LoadsAreFresh'
  BY FreshFrame
<1>4. Seated' = Seated /\ InTable' = InTable
  BY DEF Seated, InTable
<1>5. SubscribersAreSeated' /\ PlayersInPlace'
  BY <1>4 DEF SubscribersAreSeated, PlayersInPlace
<1>6. ThreadsInStep'
  BY DEF ThreadsInStep
<1> QED
  BY <1>1, <1>2, <1>3, <1>5, <1>6

\* What an edit may do: it changes blocks of chunks in memory, which it marks,
\* and sends packets to players with a seat.
Edited ==
    /\ block' \in [Chunks -> Blocks \cup {NoBlock}]
    /\ modified' \in [Chunks -> BOOLEAN]
    /\ undone' \subseteq Chunks
    /\ toClient' \in [Players -> Seq(Packets)]
    /\ \A q \in Players : ~seated[q] \/ left[q] => toClient'[q] = toClient[q]
    /\ \A c \in Chunks : \/ block'[c] = block[c] /\ modified'[c] = modified[c]
                         \/ c \in InTable /\ block'[c] \in Blocks /\ modified'[c]

\* An edit keeps the server's part.
LEMMA EditKeeps ==
    ASSUME ServerInvariant, Edited, edits' \in Nat,
           toServer' \in [Players -> Seq(ClientEdits)],
           \A q \in Players : ~seated[q] \/ left[q] => toServer'[q] = toServer[q],
           UNCHANGED <<table, subscribers, file, generator, loaderVars, mainVars,
                       playerVars, view, moves, restarts>>
    PROVE  ServerInvariant'
<1> USE DEF ServerInvariant, loaderVars, mainVars, playerVars
<1>1. TypeOK'
  BY DEF TypeOK, Edited
<1>2. OutstandingOnce' /\ RequestIsOutstanding'
  BY PipelineFrame DEF RequestIsOutstanding
<1>3. Seated' = Seated /\ InTable' = InTable
  BY DEF Seated, InTable
<1>4. SubscribersAreSeated'
  BY <1>3 DEF SubscribersAreSeated
<1>5. ThreadsInStep'
  BY DEF ThreadsInStep
<1>6. PlayersInPlace'
  BY <1>3 DEF PlayersInPlace, Edited
<1>7. LoadsAreFresh'
  <2>1. \A c \in Chunks : OnDisk(c)' = OnDisk(c)
    BY DEF OnDisk
  <2>2. InTable \subseteq Chunks
    BY ToSetMembers DEF TypeOK, InTable
  <2>3. \A c \in InTable : block'[c] \in Blocks /\ (modified'[c] \/ block'[c] = OnDisk(c)')
    BY <2>1, <2>2 DEF LoadsAreFresh, Edited
  <2>4. /\ loading # NoBlock => loading = OnDisk(busy)'
        /\ \A r \in ToSet(results) \cup ToSet(taken) : r.block = OnDisk(r.chunk)'
    BY DEF LoadsAreFresh, OnDisk
  <2> QED
    BY <1>3, <2>3, <2>4 DEF LoadsAreFresh
<1> QED
  BY <1>1, <1>2, <1>4, <1>5, <1>6, <1>7

\* ServerWorld_SetBlock is such an edit.
LEMMA WriteEdits ==
    ASSUME ServerInvariant, NEW c \in Chunks, NEW b \in Blocks, Write(c, b)
    PROVE  Edited
<1> USE DEF ServerInvariant
<1>1. CASE c \notin InTable \/ block[c] = b
  BY <1>1 DEF Write, Edited, TypeOK
<1>2. CASE ~ (c \notin InTable \/ block[c] = b)
  <2>1. /\ block' = [block EXCEPT ![c] = b]
        /\ modified' = [modified EXCEPT ![c] = TRUE]
        /\ undone' = undone \ {c}
        /\ toClient' = SentTo(Seated, SetTo(c, b))
    BY <1>2 DEF Write
  <2>2. SetTo(c, b) \in Packets /\ toClient \in [Players -> Seq(Packets)]
    BY PacketTypes DEF TypeOK
  <2>3. /\ toClient' \in [Players -> Seq(Packets)]
        /\ \A q \in Players : ~seated[q] \/ left[q] => toClient'[q] = toClient[q]
    <3>1. /\ SentTo(Seated, SetTo(c, b)) \in [Players -> Seq(Packets)]
          /\ \A q \in Players : left[q] \/ q \notin Seated =>
                 SentTo(Seated, SetTo(c, b))[q] = toClient[q]
      BY <2>2, SentOneFacts
    <3> QED
      BY <2>1, <3>1 DEF Seated
  <2> QED
    BY <1>2, <2>1, <2>3 DEF Edited, TypeOK
<1> QED
  BY <1>1, <1>2

\* ServerPacket_HandleSetBlock.
LEMMA HandleSetBlockKeeps ==
    ASSUME ServerInvariant, NEW p \in Players, HandleSetBlock(p)
    PROVE  ServerInvariant'
<1> USE DEF ServerInvariant
<1> DEFINE c == Head(toServer[p]).chunk
           b == Head(toServer[p]).block
<1>1. toServer[p] \in Seq(ClientEdits) /\ toServer[p] # <<>>
  BY DEF HandleSetBlock, TypeOK
<1>2. Head(toServer[p]) \in ClientEdits /\ Tail(toServer[p]) \in Seq(ClientEdits)
  BY <1>1, HeadTailProperties
<1>3. c \in Chunks /\ b \in Blocks \cup {Undefined}
  BY <1>2 DEF ClientEdits
<1>4. seated[p] /\ ~left[p]
  BY <1>1 DEF PlayersInPlace
<1>5. toServer' = [toServer EXCEPT ![p] = Tail(toServer[p])]
  BY DEF HandleSetBlock
<1>6. Edited
  <2>1. CASE IsBlockDefined(b)
    <3>1. Write(c, b) /\ b \in Blocks
      BY <1>3, <2>1 DEF HandleSetBlock, IsBlockDefined
    <3> QED
      BY <1>3, <3>1, WriteEdits
  <2>2. CASE ~IsBlockDefined(b)
    <3> DEFINE a == IF c \in InTable THEN block[c] ELSE Air
    <3>1. toClient' = SentTo({p}, SetTo(c, a)) /\ UNCHANGED <<block, modified, undone>>
      BY <2>2 DEF HandleSetBlock
    <3>2. a \in Blocks
      BY DEF LoadsAreFresh
    <3>3. SetTo(c, a) \in Packets
      BY <1>3, <3>2, PacketTypes
    <3> HIDE DEF a, c
    <3>4. /\ toClient' \in [Players -> Seq(Packets)]
          /\ \A q \in Players : ~seated[q] \/ left[q] => toClient'[q] = toClient[q]
      <4>1. toClient \in [Players -> Seq(Packets)]
        BY DEF TypeOK
      <4>2. /\ SentTo({p}, SetTo(c, a)) \in [Players -> Seq(Packets)]
            /\ \A q \in Players : left[q] \/ q \notin {p} =>
                   SentTo({p}, SetTo(c, a))[q] = toClient[q]
        BY <3>3, <4>1, SentOneFacts
      <4> QED
        BY <1>4, <3>1, <4>2
    <3> QED
      BY <3>1, <3>4 DEF Edited, TypeOK
  <2> QED
    BY <2>1, <2>2
<1>7. /\ toServer' \in [Players -> Seq(ClientEdits)]
      /\ \A q \in Players : ~seated[q] \/ left[q] => toServer'[q] = toServer[q]
  BY <1>2, <1>4, <1>5 DEF TypeOK
<1>8. edits' \in Nat /\ UNCHANGED <<table, subscribers, file, generator, loaderVars, mainVars,
                                    playerVars, view, moves, restarts>>
  BY DEF HandleSetBlock, counters, TypeOK
<1> QED
  BY <1>6, <1>7, <1>8, EditKeeps

\* set_block.
LEMMA ScriptSetBlockKeeps ==
    ASSUME ServerInvariant, NEW c \in Chunks, NEW b \in Blocks, ScriptSetBlock(c, b)
    PROVE  ServerInvariant'
<1>1. Edited
  BY WriteEdits DEF ScriptSetBlock
<1>2. edits \in Nat /\ toServer \in [Players -> Seq(ClientEdits)]
  BY DEF ServerInvariant, TypeOK
<1>3. edits' = edits + 1 /\ toServer' = toServer
  BY DEF ScriptSetBlock
<1> QED
  BY <1>1, <1>2, <1>3, EditKeeps DEF ScriptSetBlock

\* While set_blocks runs: what it has set is in memory and marked, and whatever
\* differs from before has been told or is in the batch.
Writes ==
    [block : [Chunks -> Blocks \cup {NoBlock}], modified : [Chunks -> BOOLEAN],
     told : Seq(Sets), batch : Seq(Sets)]

ToldOf(w) == {m.chunk : m \in ToSet(w.told) \cup ToSet(w.batch)}

Progress(w) ==
    /\ w \in Writes
    /\ \A c \in Chunks : \/ w.block[c] = block[c] /\ w.modified[c] = modified[c]
                         \/ c \in InTable /\ w.block[c] \in Blocks /\ w.modified[c]
    /\ \A c \in Chunks : w.block[c] # block[c] => c \in ToldOf(w)

\* ServerWorld_SetBlock within set_blocks: one block, if the chunk is there.
LEMMA SetOneFacts ==
    ASSUME TypeOK, NEW w \in Writes, NEW c \in Chunks, NEW b \in Blocks
    PROVE  LET v == SetOne(w, c, b)
           IN  /\ v \in Writes
               /\ v.told = w.told /\ v.batch = w.batch
               /\ \A d \in Chunks \ {c} : v.block[d] = w.block[d] /\ v.modified[d] = w.modified[d]
               /\ v # w => c \in InTable /\ v.block[c] = b /\ v.modified[c]
<1>1. CASE c \notin InTable \/ w.block[c] = b
  BY <1>1 DEF SetOne
<1>2. CASE ~ (c \notin InTable \/ w.block[c] = b)
  <2> DEFINE v == [block |-> [w.block EXCEPT ![c] = b], modified |-> [w.modified EXCEPT ![c] = TRUE],
                   told |-> w.told, batch |-> w.batch]
  <2>1. SetOne(w, c, b) = v
    BY <1>2 DEF SetOne, Writes
  <2>2. v \in Writes
    BY DEF Writes
  <2>3. /\ \A d \in Chunks \ {c} : v.block[d] = w.block[d] /\ v.modified[d] = w.modified[d]
        /\ v.block[c] = b /\ v.modified[c]
    BY DEF Writes
  <2> HIDE DEF v
  <2>4. v.told = w.told /\ v.batch = w.batch
    BY DEF v
  <2> QED
    BY <1>2, <2>1, <2>2, <2>3, <2>4
<1> QED
  BY <1>1, <1>2

\* A packet more is told, or goes into the batch.
LEMMA ToldMore ==
    ASSUME NEW w \in Writes, NEW m \in Sets
    PROVE  /\ [w EXCEPT !.told = Append(@, m)] \in Writes
           /\ [w EXCEPT !.batch = Append(@, m)] \in Writes
           /\ ToldOf([w EXCEPT !.told = Append(@, m)]) = ToldOf(w) \cup {m.chunk}
           /\ ToldOf([w EXCEPT !.batch = Append(@, m)]) = ToldOf(w) \cup {m.chunk}
<1> DEFINE v == [block |-> w.block, modified |-> w.modified, told |-> Append(w.told, m),
                 batch |-> w.batch]
           u == [block |-> w.block, modified |-> w.modified, told |-> w.told,
                 batch |-> Append(w.batch, m)]
<1>1. [w EXCEPT !.told = Append(@, m)] = v /\ [w EXCEPT !.batch = Append(@, m)] = u
  <2>1. \A x : [w EXCEPT !.told = x] =
            [block |-> w.block, modified |-> w.modified, told |-> x, batch |-> w.batch]
    BY DEF Writes
  <2>2. \A x : [w EXCEPT !.batch = x] =
            [block |-> w.block, modified |-> w.modified, told |-> w.told, batch |-> x]
    BY DEF Writes
  <2>3. [w EXCEPT !.told = Append(@, m)] = v /\ [w EXCEPT !.batch = Append(@, m)] = u
    BY <2>1, <2>2, Zenon
  <2> QED
    BY <2>3
<1>2. w.told \in Seq(Sets) /\ w.batch \in Seq(Sets)
  BY DEF Writes
<1>3. /\ Append(w.told, m) \in Seq(Sets) /\ Append(w.batch, m) \in Seq(Sets)
      /\ ToSet(Append(w.told, m)) = ToSet(w.told) \cup {m}
      /\ ToSet(Append(w.batch, m)) = ToSet(w.batch) \cup {m}
  BY <1>2, AppendProperties, AppendFacts
<1>4. v \in Writes /\ u \in Writes
  BY <1>3 DEF Writes
<1>5. /\ v.told = Append(w.told, m) /\ v.batch = w.batch
      /\ u.told = w.told /\ u.batch = Append(w.batch, m)
  OBVIOUS
<1> HIDE DEF v, u
<1>6. ToldOf(v) = ToldOf(w) \cup {m.chunk} /\ ToldOf(u) = ToldOf(w) \cup {m.chunk}
  BY <1>3, <1>5 DEF ToldOf
<1> QED
  BY <1>1, <1>4, <1>6

\* What a callback sets is told at once.
LEMMA AnswerFacts ==
    ASSUME TypeOK, NEW w \in Writes, NEW c \in Chunks, NEW b \in Blocks
    PROVE  LET v == Answer(w, c, b)
           IN  /\ v \in Writes
               /\ ToldOf(w) \subseteq ToldOf(v)
               /\ \A d \in Chunks : \/ v.block[d] = w.block[d] /\ v.modified[d] = w.modified[d]
                                    \/ d \in InTable /\ v.block[d] \in Blocks /\ v.modified[d]
                                       /\ d \in ToldOf(v)
<1> DEFINE s == SetOne(w, c, b)
<1>1. /\ s \in Writes /\ s.told = w.told /\ s.batch = w.batch
      /\ \A d \in Chunks \ {c} : s.block[d] = w.block[d] /\ s.modified[d] = w.modified[d]
      /\ s # w => c \in InTable /\ s.block[c] = b /\ s.modified[c]
  BY SetOneFacts
<1>2. ToldOf(s) = ToldOf(w)
  BY <1>1 DEF ToldOf
<1>3. Answer(w, c, b) = IF s = w THEN w ELSE [s EXCEPT !.told = Append(@, SetTo(c, b))]
  BY DEF Answer
<1> DEFINE m == SetTo(c, b)
<1>4. m \in Sets /\ m.chunk = c
  BY DEF SetTo, Sets
<1> HIDE DEF s, m
<1>5. CASE s = w
  BY <1>3, <1>5
<1>6. CASE s # w
  <2> DEFINE v == [s EXCEPT !.told = Append(@, m)]
  <2>1. v \in Writes /\ ToldOf(v) = ToldOf(s) \cup {c}
    BY ZenonT(60), <1>1, <1>4, ToldMore
  <2>2. v.block = s.block /\ v.modified = s.modified
    BY <1>1 DEF Writes
  <2>3. Answer(w, c, b) = v
    BY <1>3, <1>6 DEF m
  <2> HIDE DEF v
  <2> QED
    BY <1>1, <1>2, <1>6, <2>1, <2>2, <2>3
<1> QED
  BY <1>5, <1>6

\* One update of set_blocks, with its callback.
LEMMA UpdateProgress ==
    ASSUME TypeOK, NEW w, Progress(w), NEW u \in Edits, NEW answers \in BOOLEAN, NEW a \in Edits
    PROVE  Progress(Update(w, u, answers, a))
<1> DEFINE set == SetOne(w, u.chunk, u.block)
           after == IF answers THEN Answer(set, a.chunk, a.block) ELSE set
           entry == SetTo(u.chunk, u.block)
<1>1. /\ u.chunk \in Chunks /\ u.block \in Blocks /\ a.chunk \in Chunks /\ a.block \in Blocks
      /\ w \in Writes
  BY DEF Edits, Progress
<1>2. /\ set \in Writes /\ ToldOf(set) = ToldOf(w)
      /\ \A d \in Chunks \ {u.chunk} : set.block[d] = w.block[d] /\ set.modified[d] = w.modified[d]
      /\ set # w => u.chunk \in InTable /\ set.block[u.chunk] = u.block /\ set.modified[u.chunk]
  <2> DEFINE c == u.chunk
             b == u.block
  <2>1. c \in Chunks /\ b \in Blocks
    BY <1>1
  <2> HIDE DEF c, b
  <2>2. LET v == SetOne(w, c, b)
        IN  /\ v \in Writes
            /\ v.told = w.told /\ v.batch = w.batch
            /\ \A d \in Chunks \ {c} : v.block[d] = w.block[d] /\ v.modified[d] = w.modified[d]
            /\ v # w => c \in InTable /\ v.block[c] = b /\ v.modified[c]
    BY <1>1, <2>1, SetOneFacts
  <2> QED
    BY <2>2 DEF c, b, ToldOf
<1>3. Update(w, u, answers, a) =
          IF set = w THEN w
          ELSE IF InBatch(after, u) THEN [after EXCEPT !.batch = Append(@, entry)] ELSE after
  BY DEF Update
<1> HIDE DEF set
<1>4. /\ after \in Writes /\ ToldOf(set) \subseteq ToldOf(after)
      /\ \A d \in Chunks : \/ after.block[d] = set.block[d] /\ after.modified[d] = set.modified[d]
                           \/ d \in InTable /\ after.block[d] \in Blocks /\ after.modified[d]
                              /\ d \in ToldOf(after)
  <2>1. CASE ~answers
    BY <1>2, <2>1
  <2>2. CASE answers
    <3> DEFINE c == a.chunk
               b == a.block
    <3>1. c \in Chunks /\ b \in Blocks
      BY <1>1
    <3> HIDE DEF c, b
    <3>2. LET v == Answer(set, c, b)
          IN  /\ v \in Writes
              /\ ToldOf(set) \subseteq ToldOf(v)
              /\ \A d \in Chunks : \/ v.block[d] = set.block[d] /\ v.modified[d] = set.modified[d]
                                   \/ d \in InTable /\ v.block[d] \in Blocks /\ v.modified[d]
                                      /\ d \in ToldOf(v)
      BY <1>2, <3>1, AnswerFacts
    <3>3. after = Answer(set, c, b)
      BY <2>2 DEF c, b
    <3> QED
      BY <3>2, <3>3
  <2> QED
    BY <2>1, <2>2
<1> HIDE DEF after
<1>5. CASE set = w
  BY <1>3, <1>5
<1>6. CASE set # w /\ InBatch(after, u)
  <2> DEFINE v == [after EXCEPT !.batch = Append(@, entry)]
  <2>1. entry \in Sets /\ entry.chunk = u.chunk
    BY <1>1 DEF SetTo, Sets
  <2> HIDE DEF entry
  <2>2. v \in Writes /\ ToldOf(v) = ToldOf(after) \cup {u.chunk}
    BY <1>4, <2>1, ToldMore
  <2>3. v.block = after.block /\ v.modified = after.modified
    BY <1>4 DEF Writes
  <2>4. Update(w, u, answers, a) = v
    BY <1>3, <1>6
  <2> HIDE DEF v
  <2>5. Progress(v)
    BY <1>1, <1>2, <1>4, <1>6, <2>2, <2>3 DEF Progress
  <2> QED
    BY <2>4, <2>5
<1>7. CASE set # w /\ ~InBatch(after, u)
  <2>1. u.chunk \in ToldOf(after)
    BY <1>1, <1>2, <1>4, <1>7 DEF InBatch
  <2>2. Update(w, u, answers, a) = after
    BY <1>3, <1>7
  <2>3. Progress(after)
    BY <1>1, <1>2, <1>4, <1>7, <2>1 DEF Progress
  <2> QED
    BY <2>2, <2>3
<1> QED
  BY <1>5, <1>6, <1>7

\* What set_blocks has done when it returns.
Start3 == [block |-> block, modified |-> modified, told |-> <<>>, batch |-> <<>>]
End(first, second, i, answer) ==
    Update(Update(Start3, first, i = 1, answer), second, i = 2, answer)

\* A batch goes write by write, callbacks included.
LEMMA EndProgress ==
    ASSUME TypeOK, NEW first \in Edits, NEW second \in Edits, NEW i, NEW answer \in Edits
    PROVE  Progress(End(first, second, i, answer))
<1>1. Start3 \in Writes /\ Start3.block = block /\ Start3.modified = modified
  BY EmptySeq DEF TypeOK, Writes, Start3
<1>2. Progress(Start3)
  BY <1>1 DEF Progress
<1>3. Progress(Update(Start3, first, i = 1, answer))
  BY <1>2, UpdateProgress
<1> QED
  BY <1>3, UpdateProgress DEF End

\* What set_blocks sends are packets.
LEMMA ToldArePackets ==
    ASSUME NEW w \in Writes
    PROVE  w.told \o (IF w.batch = <<>> THEN <<>> ELSE <<Batch(w.batch)>>) \in Seq(Packets)
<1>1. w.told \in Seq(Packets)
  <2>1. Sets \subseteq Packets
    BY DEF Sets, Packets
  <2> QED
    BY <2>1, SeqMonotonic DEF Writes
<1>2. (IF w.batch = <<>> THEN <<>> ELSE <<Batch(w.batch)>>) \in Seq(Packets)
  <2>1. Batch(w.batch) \in Packets
    BY DEF Batch, Packets, Writes
  <2>2. <<Batch(w.batch)>> \in Seq(Packets) /\ <<>> \in Seq(Packets)
    BY <2>1
  <2> QED
    BY <2>2
<1> QED
  BY <1>1, <1>2, ConcatProperties

\* set_blocks.
LEMMA ScriptSetBlocksKeeps ==
    ASSUME ServerInvariant, NEW first \in Edits, NEW second \in Edits, NEW i,
           NEW answer \in Edits, ScriptSetBlocks(first, second, i, answer)
    PROVE  ServerInvariant'
<1> DEFINE end == End(first, second, i, answer)
           told == end.told \o end.batch
           ms == end.told \o (IF end.batch = <<>> THEN <<>> ELSE <<Batch(end.batch)>>)
<1>1. Progress(end)
  BY EndProgress DEF ServerInvariant
<1>2. /\ block' = end.block /\ modified' = end.modified
      /\ toClient' = SentAll(Seated, ms)
      /\ undone' = (undone \ {told[j].chunk : j \in DOMAIN told}) \cup
             {c \in {told[j].chunk : j \in DOMAIN told} : LastTold(told, c) # end.block[c]}
  BY DEF ScriptSetBlocks, End, Start3
<1> HIDE DEF end
<1>3. end \in Writes
  BY <1>1 DEF Progress
<1>4. ms \in Seq(Packets)
  BY <1>3, ToldArePackets
<1>5. undone' \subseteq Chunks
  <2>1. told \in Seq(Sets)
    BY <1>3, ConcatProperties DEF Writes
  <2> HIDE DEF told
  <2>2. \A j \in DOMAIN told : told[j].chunk \in Chunks
    <3>1. \A j \in DOMAIN told : told[j] \in Sets
      BY <2>1, LenProperties
    <3> QED
      BY <3>1 DEF Sets
  <2>3. undone \subseteq Chunks
    BY DEF ServerInvariant, TypeOK
  <2> QED
    BY <1>2, <2>2, <2>3
<1> HIDE DEF ms, told
<1>6. /\ toClient' \in [Players -> Seq(Packets)]
      /\ \A q \in Players : ~seated[q] \/ left[q] => toClient'[q] = toClient[q]
  <2>1. toClient \in [Players -> Seq(Packets)]
    BY DEF ServerInvariant, TypeOK
  <2>2. /\ SentAll(Seated, ms) \in [Players -> Seq(Packets)]
        /\ \A q \in Players : left[q] \/ q \notin Seated => SentAll(Seated, ms)[q] = toClient[q]
    BY <1>4, <2>1, SentFacts
  <2> QED
    BY <1>2, <2>2 DEF Seated
<1>7. Edited
  BY <1>1, <1>2, <1>3, <1>5, <1>6 DEF Edited, Progress, Writes
<1>8. edits \in Nat /\ toServer \in [Players -> Seq(ClientEdits)]
  BY DEF ServerInvariant, TypeOK
<1>9. edits' = edits + 1 /\ toServer' = toServer
  BY DEF ScriptSetBlocks
<1> QED
  BY <1>7, <1>8, <1>9, EditKeeps DEF ScriptSetBlocks

----------------------------------------------------------------------------
(* The server's part: ServerChunkManager_Update.                           *)

\* A step that leaves players and wires alone.
LEMMA PlayersFrame ==
    ASSUME PlayersInPlace, step \notin Ending, step' \notin Ending,
           UNCHANGED <<seated, left, requested, toServer, toClient, view>>,
           unserved' \subseteq (IF step' = "players" THEN Seated ELSE {})
    PROVE  PlayersInPlace'
<1>1. Seated' = Seated
  BY DEF Seated
<1> QED
  BY <1>1 DEF PlayersInPlace

\* The update takes what the loader has handed over.
LEMMA TakeResultsKeeps == ServerInvariant /\ TakeResults => ServerInvariant'
<1> SUFFICES ASSUME ServerInvariant, TakeResults PROVE ServerInvariant'
  OBVIOUS
<1> USE DEF ServerInvariant, TakeResults, serverVars, playerVars, wireVars, counters
<1>1. TypeOK'
  <2>1. <<>> \in Seq(LoadResults)
    BY EmptySeq
  <2> QED
    BY <2>1 DEF TypeOK
<1>2. /\ taken = <<>>
      /\ ChunksOf(taken)' = ChunksOf(results) /\ ChunksOf(results)' = <<>>
      /\ ChunksOf(taken) = <<>>
  BY ChunksOfNone DEF ThreadsInStep, ChunksOf
<1>3. OutstandingOnce'
  <2>1. OneOwner(requests, busy, ChunksOf(results), ChunksOf(taken), table)
    BY Owners
  <2>2. OneOwner(requests', busy', ChunksOf(results)', ChunksOf(taken)', table')
    BY <1>2, <2>1, EmptyFacts DEF OneOwner
  <2> QED
    BY <1>1, <2>2, OwnersNext
<1>4. RequestIsOutstanding'
  <2>1. ToSet(Pipeline)' = ToSet(Pipeline)
    BY <1>1, <1>2, EmptyFacts, Owners, OwnersNext
  <2> QED
    BY <2>1 DEF RequestIsOutstanding
<1>5. SubscribersAreSeated'
  BY DEF SubscribersAreSeated, Seated, InTable
<1>6. PlayersInPlace'
  BY PlayersFrame DEF PlayersInPlace, Ending
<1>7. ThreadsInStep'
  BY DEF ThreadsInStep, Ending
<1>8. LoadsAreFresh'
  BY <1>2, EmptyFacts DEF LoadsAreFresh, InTable, OnDisk
<1> QED
  BY <1>1, <1>3, <1>4, <1>5, <1>6, <1>7, <1>8

\* A result is served for a chunk that is not in memory, as the disk has it.
LEMMA DeliverFacts ==
    ASSUME ServerInvariant, taken # <<>>, NEW c, c = Head(taken).chunk
    PROVE  /\ Head(taken) \in LoadResults /\ c \in Chunks
           /\ Tail(taken) \in Seq(LoadResults)
           /\ c \notin InTable /\ subscribers[c] = {}
           /\ Head(taken).block = OnDisk(c)
           /\ ToSet(Tail(taken)) \subseteq ToSet(taken)
           /\ ToSet(ChunksOf(taken)) = {c} \cup ToSet(ChunksOf(Tail(taken)))
           /\ IsInjective(ChunksOf(Tail(taken)))
           /\ c \notin ToSet(ChunksOf(Tail(taken)))
<1> USE DEF ServerInvariant
<1>1. taken \in Seq(LoadResults)
  BY DEF TypeOK
<1>2. /\ Head(taken) \in LoadResults /\ Tail(taken) \in Seq(LoadResults)
      /\ Head(taken) \in ToSet(taken) /\ ToSet(Tail(taken)) \subseteq ToSet(taken)
  BY <1>1, HeadTailProperties, TailFacts
<1>3. c \in Chunks
  BY <1>2 DEF LoadResults
<1>4. /\ ChunksOf(taken) \in Seq(Chunks) /\ ChunksOf(taken) # <<>>
      /\ Head(ChunksOf(taken)) = c /\ ChunksOf(Tail(taken)) = Tail(ChunksOf(taken))
  BY <1>1, ChunksOfFacts, ChunksOfTail
<1>5. OneOwner(requests, busy, ChunksOf(results), ChunksOf(taken), table)
  BY Owners
<1>6. /\ ToSet(ChunksOf(taken)) = {c} \cup ToSet(ChunksOf(Tail(taken)))
      /\ IsInjective(ChunksOf(Tail(taken)))
      /\ c \notin ToSet(ChunksOf(Tail(taken)))
  <2> DEFINE s == ChunksOf(taken)
  <2>1. s \in Seq(Chunks) /\ s # <<>> /\ IsInjective(s)
    BY <1>4, <1>5 DEF OneOwner
  <2> HIDE DEF s
  <2>2. /\ ToSet(s) = {Head(s)} \cup ToSet(Tail(s))
        /\ IsInjective(Tail(s)) /\ Head(s) \notin ToSet(Tail(s))
    BY <2>1, TailFacts
  <2> QED
    BY <1>4, <2>2 DEF s
<1>7. c \notin InTable
  BY <1>5, <1>6 DEF OneOwner, InTable
<1>8. subscribers[c] = {}
  BY <1>3, <1>7 DEF SubscribersAreSeated
<1>9. Head(taken).block = OnDisk(c)
  BY <1>2 DEF LoadsAreFresh
<1> QED
  BY <1>2, <1>3, <1>6, <1>7, <1>8, <1>9

\* A chunk that was loaded enters the table.
LEMMA DeliverKeeps == ServerInvariant /\ Deliver => ServerInvariant'
<1> SUFFICES ASSUME ServerInvariant, Deliver PROVE ServerInvariant'
  OBVIOUS
<1> DEFINE c == Head(taken).chunk
           b == Head(taken).block
           new == {p \in Seated : c \in Accepted[place[p]] /\ ~Subscribed(p, c)}
<1>1. /\ c \in Chunks /\ b \in Blocks /\ Tail(taken) \in Seq(LoadResults)
      /\ c \notin InTable /\ b = OnDisk(c)
      /\ ToSet(Tail(taken)) \subseteq ToSet(taken)
      /\ ToSet(ChunksOf(taken)) = {c} \cup ToSet(ChunksOf(Tail(taken)))
      /\ IsInjective(ChunksOf(Tail(taken)))
      /\ c \notin ToSet(ChunksOf(Tail(taken)))
  BY DeliverFacts DEF Deliver, LoadResults
<1>2. /\ step = "deliver"
      /\ table' = Append(table, c)
      /\ block' = [block EXCEPT ![c] = b]
      /\ modified' = [modified EXCEPT ![c] = FALSE]
      /\ subscribers' = [subscribers EXCEPT ![c] = new]
      /\ requested' = [p \in Players |->
            IF p \in Seated /\ requested[p] = c THEN NoChunk ELSE requested[p]]
      /\ toClient' = SentTo(new, Load(c, b))
      /\ taken' = Tail(taken)
      /\ UNCHANGED <<undone, file, generator, loaderVars, step, cursor, unserved, place,
                     seated, left, toServer, view, counters>>
  BY <1>1 DEF Deliver, Answered
<1>3. new \subseteq Seated /\ Seated \subseteq Players
  BY DEF Seated
<1> HIDE DEF c, b, new
<1> USE DEF ServerInvariant, loaderVars, counters
<1>4. /\ table' \in Seq(Chunks) /\ InTable' = InTable \cup {c}
      /\ IsInjective(table) => IsInjective(table')
  <2>1. table \in Seq(Chunks)
    BY DEF TypeOK
  <2>2. /\ Append(table, c) \in Seq(Chunks) /\ ToSet(Append(table, c)) = ToSet(table) \cup {c}
        /\ IsInjective(table) /\ c \notin ToSet(table) => IsInjective(Append(table, c))
    BY <1>1, <2>1, AppendProperties, AppendFacts
  <2> QED
    BY <1>1, <1>2, <2>2 DEF InTable
<1>5. /\ toClient' \in [Players -> Seq(Packets)]
      /\ \A q \in Players : ~seated[q] \/ left[q] => toClient'[q] = toClient[q]
  <2>1. toClient \in [Players -> Seq(Packets)] /\ Load(c, b) \in Packets
    BY <1>1, PacketTypes DEF TypeOK
  <2>2. /\ SentTo(new, Load(c, b)) \in [Players -> Seq(Packets)]
        /\ \A q \in Players : left[q] \/ q \notin new => SentTo(new, Load(c, b))[q] = toClient[q]
    BY <2>1, SentOneFacts
  <2> QED
    BY <1>2, <1>3, <2>2 DEF Seated
<1>6. TypeOK'
  <2>1. /\ block' \in [Chunks -> Blocks \cup {NoBlock}] /\ modified' \in [Chunks -> BOOLEAN]
        /\ subscribers' \in [Chunks -> SUBSET Players]
        /\ requested' \in [Players -> Chunks \cup {NoChunk}]
    BY <1>1, <1>2, <1>3 DEF TypeOK
  <2> QED
    BY <1>1, <1>2, <1>4, <1>5, <2>1 DEF TypeOK
<1>7. ChunksOf(taken)' = ChunksOf(Tail(taken)) /\ ChunksOf(results)' = ChunksOf(results)
  BY <1>2 DEF ChunksOf
<1>8. OutstandingOnce'
  <2>1. OneOwner(requests, busy, ChunksOf(results), ChunksOf(taken), table)
    BY Owners
  <2>2. OneOwner(requests', busy', ChunksOf(results)', ChunksOf(taken)', table')
    BY <1>1, <1>2, <1>4, <1>7, <2>1 DEF OneOwner, InTable
  <2> QED
    BY <1>6, <2>2, OwnersNext
<1>9. RequestIsOutstanding'
  <2>1. ToSet(Pipeline) \subseteq ToSet(Pipeline)' \cup {c}
    BY <1>1, <1>2, <1>6, <1>7, Owners, OwnersNext
  <2>2. \A p \in Players : requested'[p] # NoChunk => requested'[p] = requested[p] /\ requested[p] # c
    BY <1>2 DEF PlayersInPlace, Seated
  <2> QED
    BY <2>1, <2>2 DEF RequestIsOutstanding
<1>10. Seated' = Seated
  BY <1>2 DEF Seated
<1>11. SubscribersAreSeated'
  BY <1>2, <1>3, <1>4, <1>10 DEF SubscribersAreSeated, TypeOK
<1>12. PlayersInPlace'
  <2>1. \A p \in Players : left'[p] \/ requested'[p] # NoChunk => seated'[p]
    BY <1>2 DEF PlayersInPlace
  <2>2. \A p \in Players : ~seated'[p] \/ left'[p] =>
            /\ toServer'[p] = <<>> /\ toClient'[p] = <<>>
            /\ view'[p] = [d \in Chunks |-> NoBlock]
    BY <1>2, <1>5 DEF PlayersInPlace
  <2> QED
    BY <1>2, <1>10, <2>1, <2>2 DEF PlayersInPlace
<1>13. ThreadsInStep'
  BY <1>2 DEF ThreadsInStep, Ending
<1>14. LoadsAreFresh'
  <2>1. \A d : OnDisk(d)' = OnDisk(d)
    BY <1>2 DEF OnDisk
  <2>2. \A d \in InTable' : block'[d] \in Blocks /\ (modified'[d] \/ block'[d] = OnDisk(d)')
    <3> SUFFICES ASSUME NEW d \in InTable'
                 PROVE  block'[d] \in Blocks /\ (modified'[d] \/ block'[d] = OnDisk(d)')
      OBVIOUS
    <3>1. InTable \subseteq Chunks
      BY ToSetMembers DEF TypeOK, InTable
    <3>2. CASE d = c
      BY <1>1, <1>2, <2>1, <3>2 DEF TypeOK
    <3>3. CASE d # c
      BY <1>2, <1>4, <2>1, <3>1, <3>3 DEF LoadsAreFresh, TypeOK
    <3> QED
      BY <3>2, <3>3
  <2> QED
    BY <1>1, <1>2, <2>1, <2>2 DEF LoadsAreFresh
<1> QED
  BY <1>6, <1>8, <1>9, <1>11, <1>12, <1>13, <1>14

\* The steps that only move the main thread along.
LEMMA MainMovesKeeps ==
    ASSUME ServerInvariant, Delivered \/ Unloaded \/ Updated
    PROVE  ServerInvariant'
<1> USE DEF ServerInvariant
<1>1. /\ UNCHANGED <<taken, serverVars, file, generator, loaderVars, playerVars, wireVars, counters>>
      /\ cursor' \in Nat \ {0}
      /\ step \notin Ending /\ step' \in {"unload", "players", "packets"}
      /\ step = "deliver" => taken = <<>>
      /\ unserved' \subseteq (IF step' = "players" THEN Seated ELSE {})
  <2>1. cursor \in Nat \ {0} /\ unserved \subseteq (IF step = "players" THEN Seated ELSE {})
    BY DEF TypeOK, PlayersInPlace
  <2>2. CASE Delivered
    BY <2>1, <2>2 DEF Delivered, Ending
  <2>3. CASE Unloaded
    <3>1. cursor' = cursor
      BY <2>3 DEF Unloaded
    <3>2. step = "unload" /\ step' = "players" /\ unserved' = Seated
      BY <2>3 DEF Unloaded
    <3> QED
      BY <2>1, <2>3, <3>1, <3>2 DEF Unloaded, Ending
  <2>4. CASE Updated
    BY <2>1, <2>4 DEF Updated, Ending
  <2> QED
    BY <2>2, <2>3, <2>4
<1> USE DEF serverVars, loaderVars, playerVars, wireVars, counters
<1>2. Seated \subseteq Players
  BY DEF Seated
<1>3. TypeOK'
  BY <1>1, <1>2 DEF TypeOK
<1>4. OutstandingOnce' /\ RequestIsOutstanding'
  BY <1>1, PipelineFrame DEF RequestIsOutstanding
<1>5. SubscribersAreSeated'
  BY <1>1 DEF SubscribersAreSeated, Seated, InTable
<1>6. PlayersInPlace'
  BY <1>1, PlayersFrame DEF Ending
<1>7. ThreadsInStep'
  BY <1>1 DEF ThreadsInStep, Ending
<1>8. LoadsAreFresh'
  BY <1>1, FreshFrame
<1> QED
  BY <1>3, <1>4, <1>5, <1>6, <1>7, <1>8

\* Writing the file of a chunk in memory changes nothing that is on its way
\* from the disk.
LEMMA SavedFacts ==
    ASSUME ServerInvariant, NEW c \in InTable, generator' = generator, file' = Saved(c),
           busy' = busy
    PROVE  /\ c \in Chunks
           /\ file' \in [Chunks -> Blocks \cup {NoBlock}]
           /\ OnDisk(c)' = block[c]
           /\ \A d \in Chunks \ {c} : OnDisk(d)' = OnDisk(d)
           /\ busy # c
           /\ loading # NoBlock => loading = OnDisk(busy)'
           /\ \A r \in ToSet(results) \cup ToSet(taken) : r.chunk # c /\ r.block = OnDisk(r.chunk)'
<1> USE DEF ServerInvariant
<1>1. c \in Chunks /\ block[c] \in Blocks /\ (modified[c] \/ block[c] = OnDisk(c))
  BY ToSetMembers DEF TypeOK, InTable, LoadsAreFresh
<1>2. /\ file' \in [Chunks -> Blocks \cup {NoBlock}]
      /\ \A d \in Chunks \ {c} : file'[d] = file[d]
      /\ file'[c] = IF modified[c] THEN block[c] ELSE file[c]
  BY <1>1 DEF Saved, TypeOK
<1>3. OnDisk(c)' = block[c]
  BY <1>1, <1>2 DEF OnDisk
<1>4. \A d \in Chunks \ {c} : OnDisk(d)' = OnDisk(d)
  BY <1>2 DEF OnDisk
<1>5. OneOwner(requests, busy, ChunksOf(results), ChunksOf(taken), table)
  BY Owners
<1>6. busy # c
  BY <1>5 DEF OneOwner, InTable
<1>7. \A r \in ToSet(results) \cup ToSet(taken) : r.chunk \in Chunks \ {c}
  <2>1. /\ results \in Seq(LoadResults) /\ taken \in Seq(LoadResults)
    BY DEF TypeOK
  <2>2. /\ ToSet(ChunksOf(results)) = {r.chunk : r \in ToSet(results)}
        /\ ToSet(ChunksOf(taken)) = {r.chunk : r \in ToSet(taken)}
        /\ ToSet(results) \subseteq LoadResults /\ ToSet(taken) \subseteq LoadResults
    BY <2>1, ChunksOfFacts, ToSetMembers
  <2>3. \A r \in ToSet(results) \cup ToSet(taken) :
            r.chunk \in ToSet(ChunksOf(results)) \cup ToSet(ChunksOf(taken))
    BY <2>2
  <2>4. \A r \in ToSet(results) \cup ToSet(taken) : r.chunk \in Chunks
    BY <2>2 DEF LoadResults
  <2> QED
    BY <1>5, <2>3, <2>4 DEF OneOwner, InTable
<1>8. loading # NoBlock => loading = OnDisk(busy)'
  <2>1. loading # NoBlock => busy \in Chunks
    BY DEF ThreadsInStep, TypeOK
  <2> QED
    BY <1>4, <1>6, <2>1 DEF LoadsAreFresh
<1>9. \A r \in ToSet(results) \cup ToSet(taken) : r.block = OnDisk(r.chunk)'
  BY <1>4, <1>7 DEF LoadsAreFresh
<1> QED
  BY <1>1, <1>2, <1>3, <1>4, <1>6, <1>7, <1>8, <1>9

\* A chunk leaves the table: what is left of the server's part.
LEMMA DropFacts ==
    ASSUME ServerInvariant, NEW c \in InTable, generator' = generator, file' = Saved(c),
           table' \in Seq(Chunks), IsInjective(table'), ToSet(table') = InTable \ {c},
           block' = [block EXCEPT ![c] = NoBlock],
           modified' = [modified EXCEPT ![c] = FALSE],
           UNCHANGED <<requests, busy, loading, results, taken>>
    PROVE  /\ InTable' = InTable \ {c}
           /\ file' \in [Chunks -> Blocks \cup {NoBlock}]
           /\ block' \in [Chunks -> Blocks \cup {NoBlock}] /\ modified' \in [Chunks -> BOOLEAN]
           /\ TypeOK' => OutstandingOnce' /\ ToSet(Pipeline)' = ToSet(Pipeline)
           /\ LoadsAreFresh'
<1> USE DEF ServerInvariant
<1>1. InTable' = InTable \ {c}
  BY DEF InTable
<1>2. /\ c \in Chunks
      /\ file' \in [Chunks -> Blocks \cup {NoBlock}]
      /\ \A d \in Chunks \ {c} : OnDisk(d)' = OnDisk(d)
      /\ loading # NoBlock => loading = OnDisk(busy)'
      /\ \A r \in ToSet(results) \cup ToSet(taken) : r.block = OnDisk(r.chunk)'
  BY SavedFacts
<1>3. block' \in [Chunks -> Blocks \cup {NoBlock}] /\ modified' \in [Chunks -> BOOLEAN]
  BY DEF TypeOK
<1>4. ASSUME TypeOK' PROVE OutstandingOnce' /\ ToSet(Pipeline)' = ToSet(Pipeline)
  <2>1. OneOwner(requests, busy, ChunksOf(results), ChunksOf(taken), table)
    BY Owners
  <2>2. ChunksOf(results)' = ChunksOf(results) /\ ChunksOf(taken)' = ChunksOf(taken)
    BY DEF ChunksOf
  <2>3. OneOwner(requests', busy', ChunksOf(results)', ChunksOf(taken)', table')
    BY <2>1, <2>2 DEF OneOwner, InTable
  <2>4. OutstandingOnce'
    BY <1>4, <2>3, OwnersNext
  <2>5. ToSet(Pipeline)' = ToSet(Pipeline)
    BY DEF Pipeline
  <2> QED
    BY <2>4, <2>5
<1>5. LoadsAreFresh'
  <2>1. InTable \subseteq Chunks
    BY ToSetMembers DEF TypeOK, InTable
  <2>2. \A d \in InTable' : block'[d] \in Blocks /\ (modified'[d] \/ block'[d] = OnDisk(d)')
    BY <1>1, <1>2, <2>1 DEF LoadsAreFresh, TypeOK
  <2> QED
    BY <1>2, <2>2 DEF LoadsAreFresh
<1> QED
  BY <1>1, <1>2, <1>3, <1>4, <1>5

\* The update visits a chunk of the table.
LEMMA VisitChunkKeeps == ServerInvariant /\ VisitChunk => ServerInvariant'
<1> SUFFICES ASSUME ServerInvariant, VisitChunk PROVE ServerInvariant'
  OBVIOUS
<1> DEFINE c == table[cursor]
           staying == {p \in subscribers[c] : c \in Kept[place[p]]}
           going == subscribers[c] \ staying
<1>1. /\ step = "unload" /\ cursor <= Len(table)
      /\ toClient' = SentTo(going, Unload(c))
      /\ subscribers' = [subscribers EXCEPT ![c] = staying]
      /\ staying = {} => /\ table' = Deleted(cursor)
                         /\ file' = Saved(c)
                         /\ block' = [block EXCEPT ![c] = NoBlock]
                         /\ modified' = [modified EXCEPT ![c] = FALSE]
                         /\ undone' = undone \ {c}
      /\ staying # {} => UNCHANGED <<table, file, block, modified, undone>>
      /\ cursor' = cursor + 1
      /\ UNCHANGED <<generator, loaderVars, taken, step, unserved, playerVars,
                     toServer, view, counters>>
  BY DEF VisitChunk, UnloadSaid, Abandoned
<1>2. cursor \in 1 .. Len(table) /\ cursor' \in Nat \ {0}
  <2>1. cursor \in Nat \ {0} /\ table \in Seq(Chunks)
    BY DEF ServerInvariant, TypeOK
  <2>2. Len(table) \in Nat
    BY <2>1, LenProperties
  <2> QED
    BY <1>1, <2>1, <2>2
<1>3. c \in Chunks /\ c \in InTable
  BY <1>2, ElementOfSeq, ToSetMembers DEF ServerInvariant, TypeOK, InTable
<1>4. staying \subseteq subscribers[c] /\ going \subseteq subscribers[c]
  OBVIOUS
<1> HIDE DEF c, staying, going
<1> USE DEF ServerInvariant, loaderVars, playerVars, counters
<1>5. subscribers[c] \subseteq Seated
  BY <1>3 DEF SubscribersAreSeated
<1>6. /\ toClient' \in [Players -> Seq(Packets)]
      /\ \A q \in Players : ~seated[q] \/ left[q] => toClient'[q] = toClient[q]
  <2>1. toClient \in [Players -> Seq(Packets)]
    BY DEF TypeOK
  <2>2. Unload(c) \in Packets
    BY <1>3, PacketTypes
  <2>3. /\ SentTo(going, Unload(c)) \in [Players -> Seq(Packets)]
        /\ \A q \in Players : left[q] \/ q \notin going => SentTo(going, Unload(c))[q] = toClient[q]
    BY <2>1, <2>2, SentOneFacts
  <2> QED
    BY <1>1, <1>4, <1>5, <2>3 DEF Seated
<1>7. /\ subscribers' \in [Chunks -> SUBSET Players]
      /\ \A d \in Chunks : subscribers'[d] = IF d = c THEN staying ELSE subscribers[d]
  BY ZenonT(60), <1>1, <1>3, <1>4 DEF TypeOK
<1>8. Seated' = Seated
  BY <1>1 DEF Seated
<1>9. PlayersInPlace'
  BY <1>1, <1>6, <1>8 DEF PlayersInPlace
<1>10. ThreadsInStep'
  BY <1>1 DEF ThreadsInStep
<1>11. CASE staying = {}
  <2>1. table' = Without(table, cursor)
    BY <1>1, <1>11 DEF Deleted, Without
  <2>2. table' \in Seq(Chunks) /\ IsInjective(table') /\ ToSet(table') = InTable \ {c}
    <3>1. table \in Seq(Chunks) /\ IsInjective(table)
      BY Owners DEF TypeOK, OneOwner
    <3> QED
      BY <1>2, <2>1, <3>1, WithoutFacts DEF InTable, c
  <2>3. /\ InTable' = InTable \ {c}
        /\ file' \in [Chunks -> Blocks \cup {NoBlock}]
        /\ block' \in [Chunks -> Blocks \cup {NoBlock}] /\ modified' \in [Chunks -> BOOLEAN]
        /\ TypeOK' => OutstandingOnce' /\ ToSet(Pipeline)' = ToSet(Pipeline)
        /\ LoadsAreFresh'
    BY <1>1, <1>3, <1>11, <2>2, DropFacts
  <2>4. TypeOK'
    BY <1>1, <1>2, <1>6, <1>7, <1>11, <2>2, <2>3 DEF TypeOK
  <2>5. RequestIsOutstanding'
    BY <1>1, <2>3, <2>4 DEF RequestIsOutstanding
  <2>6. SubscribersAreSeated'
    BY <1>7, <1>8, <1>11, <2>3 DEF SubscribersAreSeated
  <2> QED
    BY <1>9, <1>10, <2>3, <2>4, <2>5, <2>6
<1>12. CASE staying # {}
  <2>1. TypeOK'
    BY <1>1, <1>2, <1>6, <1>7, <1>12 DEF TypeOK
  <2>2. OutstandingOnce' /\ RequestIsOutstanding'
    BY <1>1, <1>12, PipelineFrame DEF RequestIsOutstanding
  <2>3. InTable' = InTable
    BY <1>1, <1>12 DEF InTable
  <2>4. SubscribersAreSeated'
    BY <1>3, <1>4, <1>5, <1>7, <1>8, <2>3 DEF SubscribersAreSeated
  <2>5. LoadsAreFresh'
    BY <1>1, <1>12, FreshFrame
  <2> QED
    BY <1>9, <1>10, <2>1, <2>2, <2>4, <2>5
<1> QED
  BY <1>11, <1>12

----------------------------------------------------------------------------
(* The server's part: ServerPlayerManager_Update and the clients.          *)

\* The update unseats a player that left.
LEMMA RemovePlayerKeeps ==
    ASSUME ServerInvariant, NEW p \in Players, RemovePlayer(p)
    PROVE  ServerInvariant'
<1> USE DEF ServerInvariant, RemovePlayer, ServedTo, Unsubscribed, loaderVars, wireVars, counters
<1>1. /\ \A q \in Players : seated'[q] = (seated[q] /\ q # p)
      /\ \A q \in Players : left'[q] = (left[q] /\ q # p)
      /\ \A q \in Players : requested'[q] = IF q = p THEN NoChunk ELSE requested[q]
  BY DEF TypeOK
<1>2. TypeOK'
  BY DEF TypeOK
<1>3. OutstandingOnce' /\ ToSet(Pipeline)' = ToSet(Pipeline)
  BY PipelineFrame
<1>4. RequestIsOutstanding'
  BY <1>1, <1>3 DEF RequestIsOutstanding
<1>5. Seated' = Seated \ {p} /\ InTable' = InTable
  BY ZenonT(60), <1>1 DEF Seated, InTable
<1>6. SubscribersAreSeated'
  BY <1>5 DEF SubscribersAreSeated
<1>7. PlayersInPlace'
  <2>1. \A q \in Players : left'[q] \/ requested'[q] # NoChunk => seated'[q]
    BY <1>1 DEF PlayersInPlace
  <2>2. \A q \in Players : ~seated'[q] \/ left'[q] => ~seated[q] \/ left[q]
    BY <1>1
  <2>3. unserved' \subseteq (IF step' = "players" THEN Seated' ELSE {})
    BY <1>5 DEF PlayersInPlace
  <2> QED
    BY <1>5, <2>1, <2>2, <2>3 DEF PlayersInPlace, Ending
<1>8. ThreadsInStep'
  BY DEF ThreadsInStep
<1>9. LoadsAreFresh'
  BY FreshFrame
<1> QED
  BY <1>2, <1>3, <1>4, <1>6, <1>7, <1>8, <1>9

\* The update has nothing to do for a player that waits.
LEMMA WaitingKeeps ==
    ASSUME ServerInvariant, NEW p \in Players, Waiting(p)
    PROVE  ServerInvariant'
<1>1. /\ step = "players" /\ unserved' = unserved \ {p}
      /\ UNCHANGED <<taken, step, cursor, serverVars, file, generator, loaderVars,
                     playerVars, wireVars, counters>>
  BY DEF Waiting, ServedTo
<1> USE DEF ServerInvariant, serverVars, loaderVars, playerVars, wireVars, counters
<1>2. TypeOK'
  BY <1>1 DEF TypeOK
<1>3. OutstandingOnce' /\ RequestIsOutstanding'
  BY <1>1, PipelineFrame DEF RequestIsOutstanding
<1>4. Seated' = Seated /\ InTable' = InTable
  BY <1>1 DEF Seated, InTable
<1>5. SubscribersAreSeated' /\ PlayersInPlace'
  BY <1>1, <1>4 DEF SubscribersAreSeated, PlayersInPlace
<1>6. ThreadsInStep'
  BY <1>1 DEF ThreadsInStep
<1>7. LoadsAreFresh'
  BY <1>1, FreshFrame
<1> QED
  BY <1>2, <1>3, <1>5, <1>6, <1>7

\* A chunk is requested for a player.
LEMMA RequestMissingKeeps ==
    ASSUME ServerInvariant, NEW p \in Players, NEW c \in Chunks, RequestMissing(p, c)
    PROVE  ServerInvariant'
<1> USE DEF ServerInvariant, ServedTo, serverVars, wireVars, counters
<1>1. /\ p \in unserved /\ step = "players"
      /\ c \notin InTable
      /\ requests' = IF Outstanding(c) THEN requests ELSE Append(requests, c)
      /\ requested' = [requested EXCEPT ![p] = c]
      /\ unserved' = unserved \ {p}
      /\ UNCHANGED <<busy, loading, results, loader, taken, step, cursor, serverVars,
                     file, generator, place, seated, left, wireVars, counters>>
  BY DEF RequestMissing, ToRequest
<1>2. seated[p] /\ taken = <<>> /\ step \notin Ending
  BY <1>1 DEF PlayersInPlace, Seated, ThreadsInStep, Ending
<1>3. /\ requests' \in Seq(Chunks)
      /\ ToSet(requests') \subseteq ToSet(requests) \cup {c}
      /\ ToSet(requests) \subseteq ToSet(requests')
      /\ ~Outstanding(c) => c \in ToSet(requests')
      /\ IsInjective(requests) => IsInjective(requests')
      /\ Outstanding(c) => requests' = requests
  <2>1. requests \in Seq(Chunks)
    BY DEF TypeOK
  <2>2. /\ Append(requests, c) \in Seq(Chunks)
        /\ ToSet(Append(requests, c)) = ToSet(requests) \cup {c}
        /\ IsInjective(requests) /\ c \notin ToSet(requests) => IsInjective(Append(requests, c))
    BY <2>1, AppendProperties, AppendFacts
  <2> QED
    BY <1>1, <2>1, <2>2 DEF Outstanding
<1>4. TypeOK'
  BY <1>1, <1>3 DEF TypeOK
<1>5. ChunksOf(results)' = ChunksOf(results) /\ ChunksOf(taken)' = ChunksOf(taken)
  BY <1>1 DEF ChunksOf
<1>6. ~Outstanding(c) => c # busy /\ c \notin ToSet(ChunksOf(results))
  <2>1. results \in Seq(LoadResults)
    BY DEF TypeOK
  <2>2. /\ ToSet(ChunksOf(results)) = {r.chunk : r \in ToSet(results)}
        /\ ToSet(results) = {results[i] : i \in DOMAIN results}
    BY <2>1, ChunksOfFacts DEF ToSet
  <2> QED
    BY <2>2 DEF Outstanding
<1>7. Outstanding(c) => c \in ToSet(requests) \cup {busy} \cup ToSet(ChunksOf(results))
  <2>1. results \in Seq(LoadResults)
    BY DEF TypeOK
  <2>2. /\ ToSet(ChunksOf(results)) = {r.chunk : r \in ToSet(results)}
        /\ ToSet(results) = {results[i] : i \in DOMAIN results}
    BY <2>1, ChunksOfFacts DEF ToSet
  <2> QED
    BY <2>2 DEF Outstanding
<1>8. ChunksOf(taken) = <<>>
  BY <1>2, ChunksOfNone
<1>9. OutstandingOnce'
  <2>1. OneOwner(requests, busy, ChunksOf(results), ChunksOf(taken), table)
    BY Owners
  <2>2. OneOwner(requests', busy', ChunksOf(results)', ChunksOf(taken)', table')
    <3>1. CASE Outstanding(c)
      BY <1>1, <1>3, <1>5, <2>1, <3>1
    <3>2. CASE ~Outstanding(c)
      BY <1>1, <1>3, <1>5, <1>6, <1>8, <2>1, <3>2, EmptyFacts DEF OneOwner, InTable
    <3> QED
      BY <3>1, <3>2
  <2> QED
    BY <1>4, <2>2, OwnersNext
<1>10. RequestIsOutstanding'
  <2>1. c \in ToSet(Pipeline)' /\ ToSet(Pipeline) \subseteq ToSet(Pipeline)'
    BY <1>1, <1>3, <1>4, <1>5, <1>7, Owners, OwnersNext
  <2>2. \A q \in Players : requested'[q] = IF q = p THEN c ELSE requested[q]
    BY <1>1 DEF TypeOK
  <2> QED
    BY <2>1, <2>2 DEF RequestIsOutstanding
<1>11. Seated' = Seated /\ InTable' = InTable
  BY <1>1 DEF Seated, InTable
<1>12. SubscribersAreSeated'
  BY <1>1, <1>11 DEF SubscribersAreSeated
<1>13. PlayersInPlace'
  <2>1. \A q \in Players : left'[q] \/ requested'[q] # NoChunk => seated'[q]
    BY <1>1, <1>2 DEF PlayersInPlace, TypeOK
  <2> QED
    BY <1>1, <1>11, <2>1 DEF PlayersInPlace
<1>14. ThreadsInStep'
  BY <1>1, <1>2 DEF ThreadsInStep, Ending
<1>15. LoadsAreFresh'
  BY <1>1, FreshFrame
<1> QED
  BY <1>4, <1>9, <1>10, <1>12, <1>13, <1>14, <1>15

\* A chunk of the table is sent to a player.
LEMMA SendMissingKeeps ==
    ASSUME ServerInvariant, NEW p \in Players, NEW c \in Chunks, NEW more \in BOOLEAN,
           SendMissing(p, c, more)
    PROVE  ServerInvariant'
<1> USE DEF ServerInvariant
<1>1. /\ p \in unserved /\ step = "players" /\ c \in InTable
      /\ subscribers' = [subscribers EXCEPT ![c] = subscribers[c] \cup {p}]
      /\ toClient' = SentTo({p}, Load(c, block[c]))
      /\ unserved' \subseteq unserved
      /\ UNCHANGED <<table, block, modified, undone, file, generator, loaderVars, taken, step,
                     cursor, playerVars, toServer, view, counters>>
  BY DEF SendMissing, ServedTo
<1>2. seated[p]
  BY <1>1 DEF PlayersInPlace, Seated
<1> USE DEF loaderVars, playerVars, counters
<1>3. /\ toClient' \in [Players -> Seq(Packets)]
      /\ \A q \in Players : ~seated[q] \/ left[q] => toClient'[q] = toClient[q]
  <2>1. toClient \in [Players -> Seq(Packets)]
    BY DEF TypeOK
  <2>2. Load(c, block[c]) \in Packets
    BY <1>1, PacketTypes DEF LoadsAreFresh
  <2>3. /\ SentTo({p}, Load(c, block[c])) \in [Players -> Seq(Packets)]
        /\ \A q \in Players : left[q] \/ q \notin {p} =>
               SentTo({p}, Load(c, block[c]))[q] = toClient[q]
    BY <2>1, <2>2, SentOneFacts
  <2> QED
    BY <1>1, <1>2, <2>3
<1>4. /\ subscribers' \in [Chunks -> SUBSET Players]
      /\ \A d \in Chunks : subscribers'[d] = IF d = c THEN subscribers[c] \cup {p} ELSE subscribers[d]
  BY <1>1 DEF TypeOK
<1>5. TypeOK'
  BY <1>1, <1>3, <1>4 DEF TypeOK
<1>6. OutstandingOnce' /\ RequestIsOutstanding'
  BY <1>1, PipelineFrame DEF RequestIsOutstanding
<1>7. Seated' = Seated /\ InTable' = InTable
  BY <1>1 DEF Seated, InTable
<1>8. SubscribersAreSeated'
  BY <1>1, <1>2, <1>4, <1>7 DEF SubscribersAreSeated, Seated
<1>9. PlayersInPlace'
  BY <1>1, <1>3, <1>7 DEF PlayersInPlace
<1>10. ThreadsInStep'
  BY <1>1 DEF ThreadsInStep
<1>11. LoadsAreFresh'
  BY <1>1, FreshFrame
<1> QED
  BY <1>5, <1>6, <1>8, <1>9, <1>10, <1>11

\* The last set about a chunk is one of them.
LEMMA LastToldFacts ==
    ASSUME NEW S, NEW s \in Seq(S), NEW c, NEW i \in DOMAIN s, s[i].chunk = c
    PROVE  \E k \in DOMAIN s : /\ s[k].chunk = c /\ LastTold(s, c) = s[k].block
                               /\ \A j \in DOMAIN s : s[j].chunk = c => k >= j
<1> DEFINE P == {j \in DOMAIN s : s[j].chunk = c}
<1>1. Len(s) \in Nat /\ DOMAIN s = 1 .. Len(s)
  BY LenProperties
<1>2. P \subseteq 1 .. Len(s) /\ P # {}
  BY <1>1
<1>3. LastTold(s, c) = s[Max(P)].block
  BY DEF LastTold
<1>4. \A j \in P : j \in DOMAIN s /\ s[j].chunk = c
  OBVIOUS
<1>5. \A j \in DOMAIN s : s[j].chunk = c => j \in P
  OBVIOUS
<1> HIDE DEF P
<1>6. Max(P) \in P /\ \A j \in P : Max(P) >= j
  BY <1>1, <1>2, MaxFacts
<1> QED
  BY <1>3, <1>4, <1>5, <1>6

\* What a batch sets is a block.
LEMMA LastToldType ==
    ASSUME NEW sets \in Seq(Sets), NEW c, NEW i \in DOMAIN sets, sets[i].chunk = c
    PROVE  LastTold(sets, c) \in Blocks
<1>1. \A j \in DOMAIN sets : sets[j] \in Sets
  BY LenProperties
<1>2. PICK k \in DOMAIN sets : LastTold(sets, c) = sets[k].block
  BY LastToldFacts
<1> QED
  BY <1>1, <1>2 DEF Sets

\* What a client shows.
Views == [Chunks -> Blocks \cup {Undefined, NoBlock}]

\* What a client shows has the type of what a client shows.
LEMMA ShownType ==
    ASSUME NEW v \in Views, NEW m \in Packets
    PROVE  Shown(v, m) \in Views
<1>1. CASE m.kind = "batch"
  <2>1. m.sets \in Seq(Sets)
    BY <1>1 DEF Packets
  <2>2. Shown(v, m) = ShownBatch(v, m.sets)
    BY <1>1 DEF Shown
  <2> DEFINE sets == m.sets
  <2>3. \A c \in Chunks : \/ v[c] = NoBlock \/ (\A i \in DOMAIN sets : sets[i].chunk # c)
                          \/ LastTold(sets, c) \in Blocks
    BY <2>1, LastToldType
  <2> QED
    BY <2>2, <2>3 DEF ShownBatch, Views
<1>2. CASE m.kind # "batch"
  BY <1>2 DEF Shown, ShownOne, Packets, Views
<1> QED
  BY <1>1, <1>2

\* A client takes a packet.
LEMMA ClientReceiveKeeps ==
    ASSUME ServerInvariant, NEW p \in Players, ClientReceive(p)
    PROVE  ServerInvariant'
<1> USE DEF ServerInvariant
<1>1. /\ toClient[p] # <<>>
      /\ view' = [view EXCEPT ![p] = Shown(view[p], Head(toClient[p]))]
      /\ toClient' = [toClient EXCEPT ![p] = Tail(toClient[p])]
      /\ UNCHANGED <<toServer, serverVars, file, generator, loaderVars, mainVars,
                     playerVars, counters>>
  BY DEF ClientReceive
<1>2. seated[p] /\ ~left[p]
  BY <1>1 DEF PlayersInPlace
<1>3. Head(toClient[p]) \in Packets /\ Tail(toClient[p]) \in Seq(Packets) /\ view[p] \in Views
  BY <1>1, HeadTailProperties DEF TypeOK, Views
<1>4. Shown(view[p], Head(toClient[p])) \in Views
  BY <1>3, ShownType
<1>5. toClient' \in [Players -> Seq(Packets)] /\ view' \in [Players -> Views]
  BY <1>1, <1>3, <1>4 DEF TypeOK, Views
<1>6. \A q \in Players \ {p} : toClient'[q] = toClient[q] /\ view'[q] = view[q]
  BY <1>1 DEF TypeOK
<1> USE DEF serverVars, loaderVars, mainVars, playerVars, counters
<1>7. TypeOK'
  BY <1>1, <1>5 DEF TypeOK, Views
<1>8. OutstandingOnce' /\ RequestIsOutstanding'
  BY <1>1, PipelineFrame DEF RequestIsOutstanding
<1>9. Seated' = Seated /\ InTable' = InTable
  BY <1>1 DEF Seated, InTable
<1>10. SubscribersAreSeated'
  BY <1>1, <1>9 DEF SubscribersAreSeated
<1>11. PlayersInPlace'
  BY <1>1, <1>2, <1>6, <1>9 DEF PlayersInPlace
<1>12. ThreadsInStep'
  BY <1>1 DEF ThreadsInStep
<1>13. LoadsAreFresh'
  BY <1>1, FreshFrame
<1> QED
  BY <1>7, <1>8, <1>10, <1>11, <1>12, <1>13

\* A client edits its copy.
LEMMA ClientEditKeeps ==
    ASSUME ServerInvariant, NEW p \in Players, NEW c \in Chunks,
           NEW b \in Blocks \cup {Undefined}, ClientEdit(p, c, b)
    PROVE  ServerInvariant'
<1> USE DEF ServerInvariant
<1>1. /\ seated[p] /\ ~left[p]
      /\ view' = IF view[p][c] = NoBlock THEN view ELSE [view EXCEPT ![p][c] = b]
      /\ toServer' = [toServer EXCEPT ![p] = Append(toServer[p], SetTo(c, b))]
      /\ UNCHANGED <<toClient, moves, restarts, serverVars, file, generator,
                     loaderVars, mainVars, playerVars>>
  BY DEF ClientEdit
<1>2. edits' \in Nat
  BY CounterCounts DEF TypeOK, ClientEdit
<1>3. toServer' \in [Players -> Seq(ClientEdits)]
  <2>1. SetTo(c, b) \in ClientEdits /\ toServer[p] \in Seq(ClientEdits)
    BY DEF SetTo, ClientEdits, TypeOK
  <2>2. Append(toServer[p], SetTo(c, b)) \in Seq(ClientEdits)
    BY <2>1, AppendProperties
  <2> QED
    BY <1>1, <2>2 DEF TypeOK
<1>4. view' \in [Players -> Views]
  BY <1>1 DEF TypeOK, Views
<1>5. \A q \in Players \ {p} : toServer'[q] = toServer[q] /\ view'[q] = view[q]
  BY <1>1 DEF TypeOK
<1> USE DEF serverVars, loaderVars, mainVars, playerVars
<1>6. TypeOK'
  BY <1>1, <1>2, <1>3, <1>4 DEF TypeOK, Views
<1>7. OutstandingOnce' /\ RequestIsOutstanding'
  BY <1>1, PipelineFrame DEF RequestIsOutstanding
<1>8. Seated' = Seated /\ InTable' = InTable
  BY <1>1 DEF Seated, InTable
<1>9. SubscribersAreSeated'
  BY <1>1, <1>8 DEF SubscribersAreSeated
<1>10. PlayersInPlace'
  BY <1>1, <1>5, <1>8 DEF PlayersInPlace
<1>11. ThreadsInStep'
  BY <1>1 DEF ThreadsInStep
<1>12. LoadsAreFresh'
  BY <1>1, FreshFrame
<1> QED
  BY <1>6, <1>7, <1>9, <1>10, <1>11, <1>12

----------------------------------------------------------------------------
(* The server's part: the end of the server, and its start.                *)

\* Once the players are gone, nobody has a seat, a request or a packet.
LEMMA GoneFacts ==
    ASSUME PlayersGone, TypeOK, unserved' = {}
    PROVE  /\ seated' \in [Players -> BOOLEAN] /\ left' \in [Players -> BOOLEAN]
           /\ requested' \in [Players -> Chunks \cup {NoChunk}]
           /\ toServer' \in [Players -> Seq(ClientEdits)]
           /\ toClient' \in [Players -> Seq(Packets)]
           /\ view' \in [Players -> [Chunks -> Blocks \cup {Undefined, NoBlock}]]
           /\ subscribers' \in [Chunks -> SUBSET Players] /\ undone' \subseteq Chunks
           /\ RequestIsOutstanding' /\ SubscribersAreSeated' /\ PlayersInPlace'
<1> USE DEF PlayersGone, ConnectionsGone
<1>1. /\ seated' \in [Players -> BOOLEAN] /\ left' \in [Players -> BOOLEAN]
      /\ requested' \in [Players -> Chunks \cup {NoChunk}]
      /\ view' \in [Players -> [Chunks -> Blocks \cup {Undefined, NoBlock}]]
      /\ subscribers' \in [Chunks -> SUBSET Players] /\ undone' \subseteq Chunks
  OBVIOUS
<1>2. toServer' \in [Players -> Seq(ClientEdits)] /\ toClient' \in [Players -> Seq(Packets)]
  <2>1. <<>> \in Seq(ClientEdits) /\ <<>> \in Seq(Packets)
    BY EmptySeq
  <2> QED
    BY <2>1
<1>3. RequestIsOutstanding' /\ SubscribersAreSeated'
  BY DEF RequestIsOutstanding, SubscribersAreSeated
<1>4. Seated' = {}
  BY DEF Seated
<1>5. PlayersInPlace'
  BY <1>4 DEF PlayersInPlace
<1> QED
  BY <1>1, <1>2, <1>3, <1>5

\* The main loop has ended; the players keep their seats for the moment.
LEMMA StopServerKeeps == ServerInvariant /\ StopServer => ServerInvariant'
<1> SUFFICES ASSUME ServerInvariant, StopServer PROVE ServerInvariant'
  OBVIOUS
<1> USE DEF ServerInvariant, serverVars, loaderVars
<1>1. /\ step = "packets" /\ step' = "leaving" /\ left' = seated
      /\ ConnectionsGone
      /\ UNCHANGED <<serverVars, file, generator, loaderVars, taken, cursor, unserved,
                     place, seated, requested, edits, moves>>
  BY DEF StopServer
<1>2. restarts' \in Nat
  BY CounterCounts DEF TypeOK, StopServer
<1>3. unserved = {} /\ taken = <<>> /\ loader = "runs"
  BY <1>1 DEF PlayersInPlace, ThreadsInStep, Ending
<1>4. /\ toServer' \in [Players -> Seq(ClientEdits)]
      /\ toClient' \in [Players -> Seq(Packets)]
      /\ view' \in [Players -> [Chunks -> Blocks \cup {Undefined, NoBlock}]]
  <2>1. <<>> \in Seq(ClientEdits) /\ <<>> \in Seq(Packets)
    BY EmptySeq
  <2> QED
    BY <1>1, <2>1 DEF ConnectionsGone
<1>5. TypeOK'
  BY <1>1, <1>2, <1>4 DEF TypeOK
<1>6. OutstandingOnce' /\ RequestIsOutstanding'
  BY <1>1, PipelineFrame DEF RequestIsOutstanding
<1>7. Seated' = Seated /\ InTable' = InTable
  BY <1>1 DEF Seated, InTable
<1>8. SubscribersAreSeated'
  BY <1>1, <1>7 DEF SubscribersAreSeated
<1>9. PlayersInPlace'
  <2>1. \A p \in Players : left'[p] \/ requested'[p] # NoChunk => seated'[p]
    BY <1>1 DEF PlayersInPlace
  <2>2. \A p \in Players : /\ toServer'[p] = <<>> /\ toClient'[p] = <<>>
                           /\ view'[p] = [c \in Chunks |-> NoBlock]
    BY <1>1 DEF ConnectionsGone
  <2> QED
    BY <1>1, <1>3, <2>1, <2>2 DEF PlayersInPlace, Ending
<1>10. ThreadsInStep'
  BY <1>1, <1>3 DEF ThreadsInStep, Ending
<1>11. LoadsAreFresh'
  BY <1>1, FreshFrame
<1> QED
  BY <1>5, <1>6, <1>8, <1>9, <1>10, <1>11

\* The last player is gone, and the loader is told to stop.
LEMMA StopLoaderKeeps == ServerInvariant /\ StopLoader => ServerInvariant'
<1> SUFFICES ASSUME ServerInvariant, StopLoader PROVE ServerInvariant'
  OBVIOUS
<1> USE DEF ServerInvariant, StopLoader, serverVars, playerVars, wireVars, counters
<1>1. TypeOK'
  BY DEF TypeOK
<1>2. OutstandingOnce' /\ RequestIsOutstanding'
  BY PipelineFrame DEF RequestIsOutstanding
<1>3. Seated' = Seated /\ InTable' = InTable /\ Seated = {} /\ unserved = {}
  BY DEF Seated, InTable, PlayersInPlace
<1>4. SubscribersAreSeated'
  BY <1>3 DEF SubscribersAreSeated
<1>5. PlayersInPlace'
  BY <1>3 DEF PlayersInPlace, Ending
<1>6. ThreadsInStep'
  BY DEF ThreadsInStep, Ending
<1>7. LoadsAreFresh'
  BY FreshFrame
<1> QED
  BY <1>1, <1>2, <1>4, <1>5, <1>6, <1>7

\* The loader has ended.
LEMMA LoaderJoinedKeeps == ServerInvariant /\ LoaderJoined => ServerInvariant'
<1> SUFFICES ASSUME ServerInvariant, LoaderJoined PROVE ServerInvariant'
  OBVIOUS
<1> USE DEF ServerInvariant, LoaderJoined, serverVars, playerVars, wireVars, counters
<1>1. TypeOK'
  <2>1. <<>> \in Seq(Chunks) /\ <<>> \in Seq(LoadResults)
    BY EmptySeq
  <2> QED
    BY <2>1 DEF TypeOK
<1>2. Seated = {} /\ busy = NoChunk /\ taken = <<>>
  BY DEF PlayersInPlace, ThreadsInStep, Ending
<1>3. Seated' = Seated /\ InTable' = InTable
  BY DEF Seated, InTable
<1>4. OutstandingOnce'
  <2>1. OneOwner(requests, busy, ChunksOf(results), ChunksOf(taken), table)
    BY Owners
  <2>2. ChunksOf(results)' = <<>> /\ ChunksOf(taken)' = <<>>
    BY <1>2, ChunksOfNone DEF ChunksOf
  <2>3. OneOwner(requests', busy', ChunksOf(results)', ChunksOf(taken)', table')
    BY <2>1, <2>2, EmptyFacts DEF OneOwner
  <2> QED
    BY <1>1, <2>3, OwnersNext
<1>5. RequestIsOutstanding'
  BY <1>2 DEF RequestIsOutstanding, PlayersInPlace, Seated
<1>6. SubscribersAreSeated'
  BY <1>3 DEF SubscribersAreSeated
<1>7. PlayersInPlace'
  BY <1>2, <1>3 DEF PlayersInPlace
<1>8. ThreadsInStep'
  BY <1>2 DEF ThreadsInStep, Ending
<1>9. LoadsAreFresh'
  BY <1>2, <1>3, EmptyFacts DEF LoadsAreFresh, OnDisk
<1> QED
  BY <1>1, <1>4, <1>5, <1>6, <1>7, <1>8, <1>9

\* A chunk is saved on the way out.
LEMMA CloseChunkKeeps == ServerInvariant /\ CloseChunk => ServerInvariant'
<1> SUFFICES ASSUME ServerInvariant, CloseChunk PROVE ServerInvariant'
  OBVIOUS
<1> DEFINE c == Last(table)
<1>1. /\ step = "closing" /\ table # <<>>
      /\ table' = Front(table)
      /\ file' = Saved(c)
      /\ block' = [block EXCEPT ![c] = NoBlock]
      /\ modified' = [modified EXCEPT ![c] = FALSE]
      /\ undone' = undone \ {c}
      /\ UNCHANGED <<subscribers, generator, loaderVars, mainVars, playerVars,
                     wireVars, counters>>
  BY DEF CloseChunk
<1> USE DEF ServerInvariant
<1>2. /\ table' \in Seq(Chunks) /\ IsInjective(table') /\ ToSet(table') = InTable \ {c}
      /\ c \in InTable
  <2>1. table \in Seq(Chunks) /\ IsInjective(table)
    BY Owners DEF TypeOK, OneOwner
  <2> QED
    BY <1>1, <2>1, FrontFacts DEF InTable
<1> HIDE DEF c
<1> USE DEF loaderVars, mainVars, playerVars, wireVars, counters
<1>3. /\ InTable' = InTable \ {c}
      /\ file' \in [Chunks -> Blocks \cup {NoBlock}]
      /\ block' \in [Chunks -> Blocks \cup {NoBlock}] /\ modified' \in [Chunks -> BOOLEAN]
      /\ TypeOK' => OutstandingOnce' /\ ToSet(Pipeline)' = ToSet(Pipeline)
      /\ LoadsAreFresh'
  BY <1>1, <1>2, DropFacts
<1>4. TypeOK'
  BY <1>1, <1>2, <1>3 DEF TypeOK
<1>5. RequestIsOutstanding'
  BY <1>1, <1>3, <1>4 DEF RequestIsOutstanding
<1>6. Seated = {} /\ Seated' = Seated
  BY <1>1 DEF PlayersInPlace, Ending, Seated
<1>7. SubscribersAreSeated'
  BY <1>1, <1>6 DEF SubscribersAreSeated
<1>8. PlayersInPlace'
  BY <1>1, <1>6 DEF PlayersInPlace
<1>9. ThreadsInStep'
  BY <1>1 DEF ThreadsInStep
<1> QED
  BY <1>3, <1>4, <1>5, <1>7, <1>8, <1>9

\* The table is empty, and the server has ended.
LEMMA ClosedKeeps == ServerInvariant /\ Closed => ServerInvariant'
<1> SUFFICES ASSUME ServerInvariant, Closed PROVE ServerInvariant'
  OBVIOUS
<1> USE DEF ServerInvariant, Closed, serverVars, loaderVars, playerVars, wireVars, counters
<1>1. TypeOK'
  BY DEF TypeOK
<1>2. OutstandingOnce' /\ RequestIsOutstanding'
  BY PipelineFrame DEF RequestIsOutstanding
<1>3. Seated' = Seated /\ InTable' = InTable
  BY DEF Seated, InTable
<1>4. SubscribersAreSeated' /\ PlayersInPlace'
  BY <1>3 DEF SubscribersAreSeated, PlayersInPlace, Ending
<1>5. ThreadsInStep'
  BY DEF ThreadsInStep, Ending
<1>6. LoadsAreFresh'
  BY FreshFrame
<1> QED
  BY <1>1, <1>2, <1>4, <1>5, <1>6

\* A crash loses everything but the files.
LEMMA CrashKeeps == ServerInvariant /\ Crash => ServerInvariant'
<1> SUFFICES ASSUME ServerInvariant, Crash PROVE ServerInvariant'
  OBVIOUS
<1> USE DEF ServerInvariant
<1>1. /\ step' = "down" /\ PlayersGone
      /\ table' = <<>>
      /\ block' = [c \in Chunks |-> NoBlock]
      /\ modified' = [c \in Chunks |-> FALSE]
      /\ requests' = <<>> /\ busy' = NoChunk /\ loading' = NoBlock /\ results' = <<>>
      /\ taken' = <<>> /\ unserved' = {} /\ loader' = "gone"
      /\ UNCHANGED <<generator, cursor, place, edits, moves>>
  BY DEF Crash
<1>2. restarts' \in Nat
  BY CounterCounts DEF TypeOK, Crash
<1>3. file' \in [Chunks -> Blocks \cup {NoBlock}]
  <2>1. file \in [Chunks -> Blocks \cup {NoBlock}]
    BY DEF TypeOK
  <2>2. \A c : TornFile(c) \in [Chunks -> Blocks \cup {NoBlock}]
    BY <2>1 DEF TornFile
  <2>3. file' = file \/ \E c \in BeingWritten : file' = TornFile(c)
    BY DEF Crash
  <2> QED
    BY <2>1, <2>2, <2>3
<1>4. /\ seated' \in [Players -> BOOLEAN] /\ left' \in [Players -> BOOLEAN]
      /\ requested' \in [Players -> Chunks \cup {NoChunk}]
      /\ toServer' \in [Players -> Seq(ClientEdits)]
      /\ toClient' \in [Players -> Seq(Packets)]
      /\ view' \in [Players -> [Chunks -> Blocks \cup {Undefined, NoBlock}]]
      /\ subscribers' \in [Chunks -> SUBSET Players] /\ undone' \subseteq Chunks
      /\ RequestIsOutstanding' /\ SubscribersAreSeated' /\ PlayersInPlace'
  BY <1>1, GoneFacts
<1>5. TypeOK'
  <2>1. <<>> \in Seq(Chunks) /\ <<>> \in Seq(LoadResults)
    BY EmptySeq
  <2> QED
    BY <1>1, <1>2, <1>3, <1>4, <2>1 DEF TypeOK
<1>6. OutstandingOnce'
  <2>1. ChunksOf(results)' = <<>> /\ ChunksOf(taken)' = <<>>
    BY <1>1, ChunksOfNone DEF ChunksOf
  <2>2. OneOwner(requests', busy', ChunksOf(results)', ChunksOf(taken)', table')
    BY <1>1, <2>1, EmptyFacts DEF OneOwner
  <2> QED
    BY <1>5, <2>2, OwnersNext
<1>7. ThreadsInStep'
  BY <1>1 DEF ThreadsInStep, Ending
<1>8. LoadsAreFresh'
  BY <1>1, EmptyFacts DEF LoadsAreFresh, InTable
<1> QED
  BY <1>4, <1>5, <1>6, <1>7, <1>8

\* The server starts again.
LEMMA RestartKeeps ==
    ASSUME ServerInvariant, NEW g \in Generators, Restart(g)
    PROVE  ServerInvariant'
<1> USE DEF ServerInvariant
<1>1. /\ step = "down" /\ step' = "packets" /\ loader' = "runs"
      /\ generator' = generator
      /\ UNCHANGED <<requests, busy, loading, results, taken, cursor, unserved,
                     serverVars, file, playerVars, wireVars, counters>>
  BY DEF Restart, Worldgen_Freeze
<1> USE DEF serverVars, playerVars, wireVars, counters
<1>2. TypeOK'
  BY <1>1 DEF TypeOK
<1>3. OutstandingOnce' /\ RequestIsOutstanding'
  BY <1>1, PipelineFrame DEF RequestIsOutstanding
<1>4. Seated' = Seated /\ InTable' = InTable
  BY <1>1 DEF Seated, InTable
<1>5. SubscribersAreSeated' /\ PlayersInPlace'
  BY <1>1, <1>4 DEF SubscribersAreSeated, PlayersInPlace, Ending
<1>6. ThreadsInStep'
  BY <1>1 DEF ThreadsInStep, Ending
<1>7. LoadsAreFresh'
  BY <1>1, FreshFrame
<1> QED
  BY <1>2, <1>3, <1>5, <1>6, <1>7

\* Nothing happens, as far as this module is concerned.
LEMMA ServerStutters == ServerInvariant /\ UNCHANGED vars => ServerInvariant'
<1> SUFFICES ASSUME ServerInvariant, UNCHANGED vars PROVE ServerInvariant'
  OBVIOUS
<1> USE DEF ServerInvariant, vars, serverVars, loaderVars, mainVars, playerVars, wireVars, counters
<1>1. TypeOK'
  BY DEF TypeOK
<1>2. OutstandingOnce' /\ RequestIsOutstanding'
  BY PipelineFrame DEF RequestIsOutstanding
<1>3. Seated' = Seated /\ InTable' = InTable
  BY DEF Seated, InTable
<1>4. SubscribersAreSeated' /\ PlayersInPlace'
  BY <1>3 DEF SubscribersAreSeated, PlayersInPlace
<1>5. ThreadsInStep' /\ LoadsAreFresh'
  BY FreshFrame DEF ThreadsInStep
<1> QED
  BY <1>1, <1>2, <1>4, <1>5

\* Every step keeps the server's part.
LEMMA ServerStep == ServerInvariant /\ [Next]_vars => ServerInvariant'
<1> SUFFICES ASSUME ServerInvariant, [Next]_vars PROVE ServerInvariant'
  OBVIOUS
<1>1. CASE LoaderStep
  BY <1>1, LoaderTakesKeeps, LoaderCreatesKeeps, LoaderPublishesKeeps, LoaderExitsKeeps
     DEF LoaderStep
<1>2. CASE PacketStep
  BY <1>2, JoinKeeps, HandleSetBlockKeeps, MoveKeeps, ScriptSetBlockKeeps, ScriptSetBlocksKeeps
     DEF PacketStep
<1>3. CASE UpdateStep
  BY <1>3, TakeResultsKeeps, DeliverKeeps, MainMovesKeeps, VisitChunkKeeps, RemovePlayerKeeps,
     WaitingKeeps, RequestMissingKeeps, SendMissingKeeps
     DEF UpdateStep
<1>4. CASE ClientStep
  BY <1>4, ClientReceiveKeeps, HangUpKeeps, ClientEditKeeps DEF ClientStep
<1>5. CASE StopServer
  BY <1>5, StopServerKeeps
<1>6. CASE ClosingStep
  BY <1>6, StopLoaderKeeps, LoaderJoinedKeeps, CloseChunkKeeps, ClosedKeeps DEF ClosingStep
<1>7. CASE Restarts
  BY <1>7, CrashKeeps, RestartKeeps DEF Restarts
<1>8. CASE UNCHANGED vars
  BY <1>8, ServerStutters
<1> QED
  BY <1>1, <1>2, <1>3, <1>4, <1>5, <1>6, <1>7, <1>8 DEF Next

\* The server's part holds in every state.
LEMMA ServerInvariantHolds == Spec => []ServerInvariant
<1>1. Init => ServerInvariant
  BY InitServer
<1>2. ServerInvariant /\ [Next]_vars => ServerInvariant'
  BY ServerStep
<1> QED
  BY <1>1, <1>2, PTL DEF Spec
----------------------------------------------------------------------------
(* Streams of packets.                                                     *)

\* The parts of After.
Renewed(ms, c) == {i \in DOMAIN ms : Renews(ms[i], c)}
ToldIn(ms, c) == {i \in DOMAIN ms : Tells(ms[i], c) /\ \A j \in Renewed(ms, c) : j < i}
StartOf(b, ms, c) == IF Renewed(ms, c) = {} THEN b ELSE ms[Max(Renewed(ms, c))].block

\* Nothing in the stream says what a chunk is.
Silent(ms, c) == \A i \in DOMAIN ms : ~ Renews(ms[i], c) /\ ~ Tells(ms[i], c)

\* What a client that shows b of a chunk shows upon one packet.
Upon(b, m, c) ==
    IF Renews(m, c) THEN m.block
    ELSE IF b # NoBlock /\ Tells(m, c) THEN Said(m, c) ELSE b

\* What a chunk will be after a stream of packets, by its last packet.
LEMMA AfterIs ==
    ASSUME NEW b, NEW ms, NEW c
    PROVE  After(b, ms, c) =
               IF StartOf(b, ms, c) = NoBlock \/ ToldIn(ms, c) = {} THEN StartOf(b, ms, c)
               ELSE Said(ms[Max(ToldIn(ms, c))], c)
  BY DEF After, StartOf, ToldIn, Renewed

\* Positions in a stream.
LEMMA Positions ==
    ASSUME NEW ms \in Seq(Packets)
    PROVE  /\ Len(ms) \in Nat /\ DOMAIN ms = 1 .. Len(ms)
           /\ \A i \in DOMAIN ms : ms[i] \in Packets
  BY LenProperties, ElementOfSeq

\* The greatest of a set of positions.
LEMMA MaxIs ==
    ASSUME NEW n \in Nat, NEW P, P \subseteq 1 .. n, NEW k \in P, \A j \in P : j <= k
    PROVE  Max(P) = k
<1>1. Max(P) \in P /\ \A j \in P : Max(P) >= j
  BY MaxFacts
<1>2. \A j \in P : j \in Nat
  OBVIOUS
<1> DEFINE top == Max(P)
<1>3. top \in P /\ top >= k /\ top <= k
  BY <1>1
<1> HIDE DEF top
<1>4. top = k
  BY <1>2, <1>3
<1> QED
  BY <1>4 DEF top

\* A packet that sets a block sets it to one; a load or unload brings one or none.
LEMMA PacketBlocks ==
    ASSUME NEW m \in Packets, NEW c
    PROVE  /\ Tells(m, c) => Said(m, c) \in Blocks
           /\ Renews(m, c) => m.block \in Blocks \cup {NoBlock}
           /\ Renews(m, c) => ~Tells(m, c)
<1>1. CASE m.kind = "batch"
  <2>1. m.sets \in Seq(Sets)
    BY <1>1 DEF Packets
  <2>2. Tells(m, c) => LastTold(m.sets, c) \in Blocks
    <3> DEFINE sets == m.sets
    <3>1. sets \in Seq(Sets)
      BY <2>1
    <3>2. Tells(m, c) => \E i \in DOMAIN sets : sets[i].chunk = c
      BY <1>1 DEF Tells
    <3> HIDE DEF sets
    <3>3. Tells(m, c) => LastTold(sets, c) \in Blocks
      BY <3>1, <3>2, LastToldType
    <3> QED
      BY <3>3 DEF sets
  <2> QED
    BY <1>1, <2>2 DEF Said, Renews
<1>2. CASE m.kind # "batch"
  BY <1>2 DEF Packets, Tells, Said, Renews
<1> QED
  BY <1>1, <1>2

\* Where the last renewal is, and the last set after it.
LEMMA RenewedMax ==
    ASSUME NEW ms \in Seq(Packets), NEW c
    PROVE  /\ Renewed(ms, c) \subseteq 1 .. Len(ms) /\ ToldIn(ms, c) \subseteq 1 .. Len(ms)
           /\ Renewed(ms, c) # {} =>
                 /\ Max(Renewed(ms, c)) \in Renewed(ms, c)
                 /\ \A j \in Renewed(ms, c) : Max(Renewed(ms, c)) >= j
           /\ ToldIn(ms, c) # {} =>
                 /\ Max(ToldIn(ms, c)) \in ToldIn(ms, c)
                 /\ \A j \in ToldIn(ms, c) : Max(ToldIn(ms, c)) >= j
<1> DEFINE R == Renewed(ms, c)
           T == ToldIn(ms, c)
<1>1. Len(ms) \in Nat /\ DOMAIN ms = 1 .. Len(ms)
  BY Positions
<1>2. R \subseteq 1 .. Len(ms) /\ T \subseteq 1 .. Len(ms)
  BY <1>1 DEF Renewed, ToldIn
<1> HIDE DEF R, T
<1>3. R # {} => Max(R) \in R /\ \A j \in R : Max(R) >= j
  BY <1>1, <1>2, MaxFacts
<1>4. T # {} => Max(T) \in T /\ \A j \in T : Max(T) >= j
  BY <1>1, <1>2, MaxFacts
<1> QED
  BY <1>2, <1>3, <1>4 DEF R, T

\* A stream that is silent about a chunk changes nothing of it.
LEMMA AfterSilence ==
    ASSUME NEW b, NEW ms, NEW c, Silent(ms, c)
    PROVE  After(b, ms, c) = b
<1>1. Renewed(ms, c) = {} /\ ToldIn(ms, c) = {}
  BY DEF Silent, Renewed, ToldIn
<1> QED
  BY <1>1, AfterIs DEF StartOf

\* One packet.
LEMMA AfterOne ==
    ASSUME NEW b, NEW m \in Packets, NEW c
    PROVE  After(b, <<m>>, c) = Upon(b, m, c)
<1> DEFINE ms == <<m>>
<1>1. DOMAIN ms = {1} /\ ms[1] = m /\ ms \in Seq(Packets)
  OBVIOUS
<1>2. Renews(m, c) => ~Tells(m, c)
  BY PacketBlocks
<1> HIDE DEF ms
<1>3. CASE Renews(m, c)
  <2>1. Renewed(ms, c) = {1} /\ ToldIn(ms, c) = {}
    BY <1>1, <1>2, <1>3 DEF Renewed, ToldIn
  <2>2. Max(Renewed(ms, c)) = 1
    BY <1>1, <2>1, RenewedMax
  <2>3. StartOf(b, ms, c) = m.block
    BY <1>1, <2>1, <2>2 DEF StartOf
  <2>4. After(b, ms, c) = m.block
    BY <2>1, <2>3, AfterIs
  <2> QED
    BY <1>3, <2>4 DEF Upon, ms
<1>4. CASE ~Renews(m, c)
  <2>1. Renewed(ms, c) = {}
    BY <1>1, <1>4 DEF Renewed
  <2>2. StartOf(b, ms, c) = b
    BY <2>1 DEF StartOf
  <2>3. CASE Tells(m, c)
    <3>1. ToldIn(ms, c) = {1}
      BY <1>1, <2>1, <2>3 DEF ToldIn
    <3>2. Max(ToldIn(ms, c)) = 1
      BY <1>1, <3>1, RenewedMax
    <3>3. After(b, ms, c) = IF b = NoBlock THEN b ELSE Said(m, c)
      BY <1>1, <2>2, <3>1, <3>2, AfterIs
    <3> QED
      BY <1>4, <2>3, <3>3 DEF Upon, ms
  <2>4. CASE ~Tells(m, c)
    <3>1. ToldIn(ms, c) = {}
      BY <1>1, <2>4 DEF ToldIn
    <3>2. After(b, ms, c) = b
      BY <2>2, <3>1, AfterIs
    <3> QED
      BY <1>4, <2>4, <3>2 DEF Upon, ms
  <2> QED
    BY <2>3, <2>4
<1> QED
  BY <1>3, <1>4

\* After one stream and then another.
LEMMA AfterConcat ==
    ASSUME NEW b, NEW s \in Seq(Packets), NEW t \in Seq(Packets), NEW c,
           b \in Blocks \cup {Undefined, NoBlock}
    PROVE  After(b, s \o t, c) = After(After(b, s, c), t, c)
<1> DEFINE u == s \o t
           n == Len(s)
           x == After(b, s, c)
<1>1. /\ u \in Seq(Packets) /\ n \in Nat /\ Len(t) \in Nat /\ Len(u) = n + Len(t)
      /\ DOMAIN u = 1 .. Len(u) /\ DOMAIN s = 1 .. n /\ DOMAIN t = 1 .. Len(t)
      /\ \A i \in 1 .. n + Len(t) : u[i] = IF i <= n THEN s[i] ELSE t[i - n]
  BY ConcatProperties, LenProperties
<1> HIDE DEF u, n, x
<1>2. /\ \A i \in 1 .. n : i \in DOMAIN u /\ u[i] = s[i]
      /\ \A i \in 1 .. Len(t) : n + i \in DOMAIN u /\ u[n + i] = t[i]
      /\ \A i \in DOMAIN u : i \in 1 .. n \/ (i > n /\ i - n \in 1 .. Len(t) /\ n + (i - n) = i)
  <2>1. \A i \in 1 .. n : i \in 1 .. n + Len(t) /\ i <= n
    BY <1>1
  <2>2. \A i \in 1 .. Len(t) : n + i \in 1 .. n + Len(t) /\ ~ (n + i <= n) /\ (n + i) - n = i
    BY <1>1
  <2>3. \A i \in 1 .. n + Len(t) : i \in 1 .. n \/ (i > n /\ i - n \in 1 .. Len(t) /\ n + (i - n) = i)
    BY <1>1
  <2> QED
    BY <1>1, <2>1, <2>2, <2>3
<1> DEFINE Rs == Renewed(s, c)
           Rt == Renewed(t, c)
           Ru == Renewed(u, c)
           Ts == ToldIn(s, c)
           Tt == ToldIn(t, c)
           Tu == ToldIn(u, c)
<1>3. /\ \A i \in 1 .. n : i \in Ru <=> i \in Rs
      /\ \A i \in 1 .. Len(t) : n + i \in Ru <=> i \in Rt
      /\ Rs \subseteq 1 .. n /\ Rt \subseteq 1 .. Len(t) /\ Ru \subseteq DOMAIN u
  BY <1>1, <1>2 DEF Renewed
<1>4. /\ \A i \in DOMAIN s : i \in Ts <=> Tells(s[i], c) /\ \A j \in Rs : j < i
      /\ \A i \in DOMAIN t : i \in Tt <=> Tells(t[i], c) /\ \A j \in Rt : j < i
      /\ \A i \in DOMAIN u : i \in Tu <=> Tells(u[i], c) /\ \A j \in Ru : j < i
      /\ Ts \subseteq 1 .. n /\ Tt \subseteq 1 .. Len(t) /\ Tu \subseteq DOMAIN u
  BY <1>1 DEF ToldIn
<1>5. /\ Rt # {} => Max(Rt) \in Rt /\ \A j \in Rt : Max(Rt) >= j
      /\ Tt # {} => Max(Tt) \in Tt /\ \A j \in Tt : Max(Tt) >= j
      /\ Rs # {} => Max(Rs) \in Rs /\ \A j \in Rs : Max(Rs) >= j
      /\ Ts # {} => Max(Ts) \in Ts /\ \A j \in Ts : Max(Ts) >= j
  BY RenewedMax
<1>6. /\ After(b, u, c) = IF StartOf(b, u, c) = NoBlock \/ Tu = {} THEN StartOf(b, u, c)
                          ELSE Said(u[Max(Tu)], c)
      /\ After(x, t, c) = IF StartOf(x, t, c) = NoBlock \/ Tt = {} THEN StartOf(x, t, c)
                          ELSE Said(t[Max(Tt)], c)
      /\ x = IF StartOf(b, s, c) = NoBlock \/ Ts = {} THEN StartOf(b, s, c)
             ELSE Said(s[Max(Ts)], c)
  BY AfterIs DEF x
<1>7. /\ StartOf(b, u, c) = IF Ru = {} THEN b ELSE u[Max(Ru)].block
      /\ StartOf(x, t, c) = IF Rt = {} THEN x ELSE t[Max(Rt)].block
      /\ StartOf(b, s, c) = IF Rs = {} THEN b ELSE s[Max(Rs)].block
  BY DEF StartOf
<1>8. \A i \in Tt : Said(t[i], c) # NoBlock
  <2>1. \A i \in DOMAIN t : Tells(t[i], c) => Said(t[i], c) \in Blocks
    BY Positions, PacketBlocks
  <2>2. \A i \in Tt : i \in DOMAIN t /\ Tells(t[i], c)
    BY DEF ToldIn
  <2> QED
    BY <2>1, <2>2
<1>8a. \A i \in Ts : Said(s[i], c) # NoBlock
  <2>1. \A i \in DOMAIN s : Tells(s[i], c) => Said(s[i], c) \in Blocks
    BY Positions, PacketBlocks
  <2>2. \A i \in Ts : i \in DOMAIN s /\ Tells(s[i], c)
    BY DEF ToldIn
  <2> QED
    BY <2>1, <2>2
<1> HIDE DEF Rs, Rt, Ru, Ts, Tt, Tu
<1>9. ASSUME Tt # {}, \A i \in 1 .. Len(t) : n + i \in Tu <=> i \in Tt
      PROVE  Tu # {} /\ u[Max(Tu)] = t[Max(Tt)]
  <2> DEFINE k == Max(Tt)
  <2>1. k \in Tt /\ k \in 1 .. Len(t) /\ \A j \in Tt : j <= k
    BY <1>4, <1>5, <1>9
  <2> HIDE DEF k
  <2>2. n + k \in Tu /\ u[n + k] = t[k]
    BY <1>2, <1>9, <2>1
  <2>3. \A j \in Tu : j <= n + k
    <3> SUFFICES ASSUME NEW j \in Tu, j > n PROVE j <= n + k
      BY <1>1, <1>4, <2>1
    <3>1. j - n \in 1 .. Len(t) /\ n + (j - n) = j
      BY <1>1, <1>2, <1>4
    <3>2. j - n \in Tt
      BY <1>9, <3>1
    <3>3. j - n <= k
      BY <2>1, <3>2
    <3> QED
      BY <1>1, <2>1, <3>1, <3>3
  <2>4. Max(Tu) = n + k
    <3>1. Tu \subseteq 1 .. Len(u) /\ Len(u) \in Nat
      BY <1>1, <1>4
    <3> QED
      BY <2>2, <2>3, <3>1, MaxIs
  <2> QED
    BY <2>2, <2>4 DEF k
<1>10. CASE Rt # {}
  <2> DEFINE k == Max(Rt)
  <2>1. k \in Rt /\ k \in 1 .. Len(t) /\ \A j \in Rt : j <= k
    BY <1>3, <1>5, <1>10
  <2> HIDE DEF k
  <2>2. n + k \in Ru /\ u[n + k] = t[k]
    BY <1>2, <1>3, <2>1
  <2>3. \A j \in Ru : j <= n + k
    <3> SUFFICES ASSUME NEW j \in Ru, j > n PROVE j <= n + k
      BY <1>1, <1>3, <2>1
    <3>1. j - n \in 1 .. Len(t) /\ n + (j - n) = j
      BY <1>1, <1>2, <1>3
    <3>2. j - n \in Rt
      BY <1>3, <3>1
    <3>3. j - n <= k
      BY <2>1, <3>2
    <3> QED
      BY <1>1, <2>1, <3>1, <3>3
  <2>4. Max(Ru) = n + k
    <3>1. Ru \subseteq 1 .. Len(u) /\ Len(u) \in Nat
      BY <1>1, <1>3
    <3> QED
      BY <2>2, <2>3, <3>1, MaxIs
  <2>5. StartOf(b, u, c) = StartOf(x, t, c)
    BY <1>7, <1>10, <2>2, <2>4 DEF k
  <2>6. \A i \in 1 .. n : i \notin Tu
    <3>1. \A i \in 1 .. n : ~ (n + k < i)
      BY <1>1, <2>1
    <3> QED
      BY <1>2, <1>4, <2>2, <3>1
  <2>7. \A i \in 1 .. Len(t) : n + i \in Tu <=> i \in Tt
    <3> SUFFICES ASSUME NEW i \in 1 .. Len(t) PROVE n + i \in Tu <=> i \in Tt
      OBVIOUS
    <3>1. n + i \in Tu <=> Tells(t[i], c) /\ \A j \in Ru : j < n + i
      BY <1>2, <1>4
    <3>2. i \in Tt <=> Tells(t[i], c) /\ \A j \in Rt : j < i
      BY <1>1, <1>4
    <3>3. (\A j \in Ru : j < n + i) <=> n + k < n + i
      <4>1. \A j \in Ru : j \in Nat
        BY <1>1, <1>3
      <4> QED
        BY <1>1, <2>1, <2>2, <2>3, <4>1
    <3>4. (\A j \in Rt : j < i) <=> k < i
      <4>1. \A j \in Rt : j \in Nat
        BY <1>1, <1>3
      <4> QED
        BY <1>1, <2>1, <4>1
    <3> QED
      BY <1>1, <2>1, <3>1, <3>2, <3>3, <3>4
  <2>8. CASE Tt = {}
    <3>1. Tu = {}
      BY <1>1, <1>2, <1>4, <2>6, <2>7, <2>8
    <3> QED
      BY <1>6, <2>5, <2>8, <3>1 DEF u, x
  <2>9. CASE Tt # {}
    <3>1. Tu # {} /\ u[Max(Tu)] = t[Max(Tt)]
      BY <1>9, <2>7, <2>9
    <3> QED
      BY <1>6, <2>5, <2>9, <3>1 DEF u, x
  <2> QED
    BY <2>8, <2>9
<1>11. CASE Rt = {}
  <2>1. Ru = Rs
    <3>1. \A i \in Ru : i \in 1 .. n
      <4> SUFFICES ASSUME NEW i \in Ru, i - n \in 1 .. Len(t), n + (i - n) = i PROVE FALSE
        BY <1>2, <1>3
      <4> QED
        BY <1>3, <1>11
    <3> QED
      BY <1>3, <3>1
  <2>2. StartOf(b, u, c) = StartOf(b, s, c)
    <3>1. Rs # {} => Max(Rs) \in 1 .. n
      BY <1>3, <1>5
    <3> QED
      BY <1>2, <1>7, <2>1, <3>1
  <2>3. StartOf(x, t, c) = x
    BY <1>7, <1>11
  <2>4. \A i \in 1 .. n : i \in Tu <=> i \in Ts
    BY <1>1, <1>2, <1>4, <2>1
  <2>5. \A i \in 1 .. Len(t) : n + i \in Tu <=> i \in Tt
    <3>1. \A i \in 1 .. Len(t), j \in Rs : j < n + i
      BY <1>1, <1>3
    <3> QED
      BY <1>1, <1>2, <1>4, <1>11, <2>1, <3>1
  <2>6. CASE Tt = {}
    <3>1. Tu = Ts
      <4>1. \A i \in Tu : i \in 1 .. n
        <5> SUFFICES ASSUME NEW i \in Tu, i - n \in 1 .. Len(t), n + (i - n) = i PROVE FALSE
          BY <1>2, <1>4
        <5> QED
          BY <2>5, <2>6
      <4> QED
        BY <1>4, <2>4, <4>1
    <3>2. Ts # {} => u[Max(Tu)] = s[Max(Ts)]
      BY <1>2, <1>4, <1>5, <3>1
    <3>3. After(b, u, c) = x
      BY <1>6, <2>2, <3>1, <3>2
    <3> QED
      BY <1>6, <2>3, <2>6, <3>3 DEF u, x
  <2>7. CASE Tt # {}
    <3>1. Tu # {} /\ u[Max(Tu)] = t[Max(Tt)]
      BY <1>9, <2>5, <2>7
    <3>2. x = NoBlock <=> StartOf(b, s, c) = NoBlock
      BY <1>5, <1>6, <1>8a
    <3>3. After(b, u, c) = IF x = NoBlock THEN x ELSE Said(t[Max(Tt)], c)
      BY <1>6, <2>2, <3>1, <3>2
    <3> QED
      BY <1>6, <2>3, <2>7, <3>3 DEF u, x
  <2> QED
    BY <2>6, <2>7
<1> QED
  BY <1>10, <1>11

\* What a client will show of a chunk is a block it may show, or none.
LEMMA AfterType ==
    ASSUME NEW b \in Blocks \cup {Undefined, NoBlock}, NEW ms \in Seq(Packets), NEW c
    PROVE  After(b, ms, c) \in Blocks \cup {Undefined, NoBlock}
<1>1. /\ DOMAIN ms = 1 .. Len(ms) /\ \A i \in DOMAIN ms : ms[i] \in Packets
  BY Positions
<1>2. /\ \A i \in DOMAIN ms : Tells(ms[i], c) => Said(ms[i], c) \in Blocks
      /\ \A i \in DOMAIN ms : Renews(ms[i], c) => ms[i].block \in Blocks \cup {NoBlock}
  BY <1>1, PacketBlocks
<1>3. StartOf(b, ms, c) \in Blocks \cup {Undefined, NoBlock}
  <2>1. CASE Renewed(ms, c) = {}
    BY <2>1 DEF StartOf
  <2>2. CASE Renewed(ms, c) # {}
    <3>1. Max(Renewed(ms, c)) \in Renewed(ms, c)
      BY <2>2, RenewedMax
    <3>2. \A i \in Renewed(ms, c) : i \in DOMAIN ms /\ Renews(ms[i], c)
      BY DEF Renewed
    <3> QED
      BY <1>2, <2>2, <3>1, <3>2 DEF StartOf
  <2> QED
    BY <2>1, <2>2
<1>4. CASE ToldIn(ms, c) = {}
  BY <1>3, <1>4, AfterIs
<1>5. CASE ToldIn(ms, c) # {}
  <2>1. Max(ToldIn(ms, c)) \in ToldIn(ms, c)
    BY <1>5, RenewedMax
  <2>2. \A i \in ToldIn(ms, c) : i \in DOMAIN ms /\ Tells(ms[i], c)
    BY DEF ToldIn
  <2> QED
    BY <1>2, <1>3, <1>5, <2>1, <2>2, AfterIs
<1> QED
  BY <1>4, <1>5

\* If the stream says something of a chunk, what is shown before matters only
\* in that it is there.
LEMMA AfterAnything ==
    ASSUME NEW a, NEW b, a # NoBlock, b # NoBlock, NEW ms \in Seq(Packets), NEW c,
           ~ Silent(ms, c)
    PROVE  After(a, ms, c) = After(b, ms, c)
<1>1. CASE Renewed(ms, c) # {}
  <2>1. StartOf(a, ms, c) = StartOf(b, ms, c)
    BY <1>1 DEF StartOf
  <2> QED
    BY <2>1, AfterIs
<1>2. CASE Renewed(ms, c) = {}
  <2>1. ToldIn(ms, c) # {}
    BY <1>2 DEF Silent, Renewed, ToldIn
  <2>2. StartOf(a, ms, c) = a /\ StartOf(b, ms, c) = b
    BY <1>2 DEF StartOf
  <2> QED
    BY <2>1, <2>2, AfterIs
<1> QED
  BY <1>1, <1>2

\* One packet arrives.
LEMMA AfterFirst ==
    ASSUME NEW b \in Blocks \cup {Undefined, NoBlock}, NEW ms \in Seq(Packets), ms # <<>>, NEW c
    PROVE  /\ After(b, ms, c) = After(Upon(b, Head(ms), c), Tail(ms), c)
           /\ Silent(ms, c) => Silent(Tail(ms), c)
<1> DEFINE m == Head(ms)
           t == Tail(ms)
<1>1. /\ m \in Packets /\ t \in Seq(Packets) /\ m = ms[1]
      /\ Len(ms) \in Nat \ {0} /\ Len(t) = Len(ms) - 1
      /\ \A i \in 1 .. Len(t) : t[i] = ms[i + 1]
  BY HeadTailProperties, EmptySeq
<1>2. <<m>> \in Seq(Packets) /\ Len(<<m>>) = 1 /\ <<m>>[1] = m
  BY <1>1
<1> HIDE DEF m, t
<1>3. ms = <<m>> \o t
  BY HeadThenTail DEF m, t
<1>4. After(b, <<m>> \o t, c) = After(After(b, <<m>>, c), t, c)
  <2> DEFINE o == <<m>>
  <2>1. o \in Seq(Packets) /\ t \in Seq(Packets)
    BY <1>1, <1>2
  <2> HIDE DEF o
  <2>2. After(b, o \o t, c) = After(After(b, o, c), t, c)
    BY <2>1, AfterConcat
  <2> QED
    BY <2>2 DEF o
<1>5. After(b, <<m>>, c) = Upon(b, m, c)
  BY <1>1, AfterOne
<1>6. ASSUME Silent(ms, c) PROVE Silent(t, c)
  <2>1. DOMAIN ms = 1 .. Len(ms) /\ DOMAIN t = 1 .. Len(t)
    BY <1>1, LenProperties
  <2>2. \A i \in 1 .. Len(t) : i + 1 \in 1 .. Len(ms)
    BY <1>1
  <2> QED
    BY <1>1, <1>6, <2>1, <2>2 DEF Silent
<1> QED
  BY <1>3, <1>4, <1>5, <1>6 DEF m, t

\* What was silent about a chunk stays so when a silent stream follows.
LEMMA SilentConcat ==
    ASSUME NEW s \in Seq(Packets), NEW t \in Seq(Packets), NEW c, Silent(s, c), Silent(t, c)
    PROVE  Silent(s \o t, c)
<1> DEFINE u == s \o t
<1>1. /\ Len(s) \in Nat /\ Len(t) \in Nat /\ Len(u) = Len(s) + Len(t) /\ u \in Seq(Packets)
      /\ DOMAIN u = 1 .. Len(u) /\ DOMAIN s = 1 .. Len(s) /\ DOMAIN t = 1 .. Len(t)
      /\ \A i \in 1 .. Len(s) + Len(t) : u[i] = IF i <= Len(s) THEN s[i] ELSE t[i - Len(s)]
  BY ConcatProperties, LenProperties
<1> HIDE DEF u
<1>2. \A i \in DOMAIN u : \/ i \in DOMAIN s /\ u[i] = s[i]
                          \/ i - Len(s) \in DOMAIN t /\ u[i] = t[i - Len(s)]
  BY <1>1
<1>3. Silent(u, c)
  BY <1>2 DEF Silent
<1> QED
  BY <1>3 DEF u

\* Sets only: the last one about the chunk counts.
LEMMA AfterSets ==
    ASSUME NEW b, NEW s \in Seq(Sets), NEW c
    PROVE  After(b, s, c) = IF b = NoBlock \/ (\A i \in DOMAIN s : s[i].chunk # c) THEN b
                            ELSE LastTold(s, c)
<1>1. \A i \in DOMAIN s : s[i] \in Sets
  BY LenProperties
<1>2. \A i \in DOMAIN s : ~ Renews(s[i], c) /\ (Tells(s[i], c) <=> s[i].chunk = c)
                          /\ Said(s[i], c) = s[i].block
  BY <1>1 DEF Renews, Tells, Said, Sets
<1>3. Renewed(s, c) = {}
  BY <1>2 DEF Renewed
<1> DEFINE P == {i \in DOMAIN s : s[i].chunk = c}
<1>4. ToldIn(s, c) = P
  BY <1>2, <1>3 DEF ToldIn
<1>5. LastTold(s, c) = s[Max(P)].block
  BY DEF LastTold
<1>6. P # {} => Max(P) \in DOMAIN s
  <2>1. P # {} => Max(P) \in P
    <3>1. Len(s) \in Nat /\ DOMAIN s = 1 .. Len(s)
      BY LenProperties
    <3>2. P \subseteq 1 .. Len(s)
      BY <3>1
    <3> HIDE DEF P
    <3> QED
      BY <3>1, <3>2, MaxFacts
  <2> QED
    BY <2>1
<1>7. P = {} <=> \A i \in DOMAIN s : s[i].chunk # c
  OBVIOUS
<1> HIDE DEF P
<1>8. StartOf(b, s, c) = b
  BY <1>3 DEF StartOf
<1> QED
  BY <1>2, <1>4, <1>5, <1>6, <1>7, <1>8, AfterIs

\* The last set about a chunk, of one list and then another.
LEMMA LastToldConcat ==
    ASSUME NEW S, NEW s \in Seq(S), NEW t \in Seq(S), NEW c
    PROVE  /\ (\E i \in DOMAIN (s \o t) : (s \o t)[i].chunk = c) <=>
                  \/ \E i \in DOMAIN s : s[i].chunk = c
                  \/ \E i \in DOMAIN t : t[i].chunk = c
           /\ (\E i \in DOMAIN t : t[i].chunk = c) => LastTold(s \o t, c) = LastTold(t, c)
           /\ (\E i \in DOMAIN s : s[i].chunk = c) /\ ~ (\E i \in DOMAIN t : t[i].chunk = c) =>
                  LastTold(s \o t, c) = LastTold(s, c)
<1> DEFINE u == s \o t
           n == Len(s)
           Ps == {i \in DOMAIN s : s[i].chunk = c}
           Pt == {i \in DOMAIN t : t[i].chunk = c}
           Pu == {i \in DOMAIN u : u[i].chunk = c}
<1>1. /\ n \in Nat /\ Len(t) \in Nat /\ Len(u) = n + Len(t) /\ u \in Seq(S)
      /\ DOMAIN u = 1 .. Len(u) /\ DOMAIN s = 1 .. n /\ DOMAIN t = 1 .. Len(t)
      /\ \A i \in 1 .. n + Len(t) : u[i] = IF i <= n THEN s[i] ELSE t[i - n]
  BY ConcatProperties, LenProperties
<1>2. LastTold(u, c) = u[Max(Pu)].block /\ LastTold(s, c) = s[Max(Ps)].block
      /\ LastTold(t, c) = t[Max(Pt)].block
  BY DEF LastTold
<1>3. /\ (\E i \in DOMAIN u : u[i].chunk = c) <=> Pu # {}
      /\ (\E i \in DOMAIN s : s[i].chunk = c) <=> Ps # {}
      /\ (\E i \in DOMAIN t : t[i].chunk = c) <=> Pt # {}
  OBVIOUS
<1>4. /\ Pu \subseteq DOMAIN u /\ Ps \subseteq DOMAIN s /\ Pt \subseteq DOMAIN t
      /\ \A i \in DOMAIN u : i \in Pu <=> u[i].chunk = c
      /\ \A i \in DOMAIN s : i \in Ps <=> s[i].chunk = c
      /\ \A i \in DOMAIN t : i \in Pt <=> t[i].chunk = c
  OBVIOUS
<1> HIDE DEF u, n, Ps, Pt, Pu
<1>5. /\ \A i \in DOMAIN s : i \in DOMAIN u /\ u[i] = s[i]
      /\ \A i \in DOMAIN t : n + i \in DOMAIN u /\ u[n + i] = t[i]
      /\ \A i \in DOMAIN u : i \in DOMAIN s \/ (i > n /\ i - n \in DOMAIN t /\ n + (i - n) = i)
  <2>1. \A i \in 1 .. n : i \in 1 .. n + Len(t) /\ i <= n
    BY <1>1
  <2>2. \A i \in 1 .. Len(t) : n + i \in 1 .. n + Len(t) /\ ~ (n + i <= n) /\ (n + i) - n = i
    BY <1>1
  <2>3. \A i \in 1 .. n + Len(t) : i \in 1 .. n \/ (i > n /\ i - n \in 1 .. Len(t) /\ n + (i - n) = i)
    BY <1>1
  <2> QED
    BY <1>1, <2>1, <2>2, <2>3
<1>6. /\ \A i \in DOMAIN s : i \in Pu <=> i \in Ps
      /\ \A i \in DOMAIN t : n + i \in Pu <=> i \in Pt
  BY <1>4, <1>5
<1>7. Pu # {} <=> Ps # {} \/ Pt # {}
  BY <1>4, <1>5, <1>6
<1>8. ASSUME Pt # {} PROVE u[Max(Pu)] = t[Max(Pt)]
  <2> DEFINE k == Max(Pt)
  <2>1. k \in Pt /\ \A j \in Pt : k >= j
    BY <1>1, <1>4, <1>8, MaxFacts
  <2> HIDE DEF k
  <2>2. k \in DOMAIN t /\ n + k \in Pu /\ u[n + k] = t[k]
    BY <1>4, <1>5, <1>6, <2>1
  <2>3. \A j \in Pu : j <= n + k
    <3> SUFFICES ASSUME NEW j \in Pu, j > n PROVE j <= n + k
      BY <1>1, <1>4, <2>2
    <3>1. j - n \in DOMAIN t /\ n + (j - n) = j
      BY <1>1, <1>4, <1>5
    <3>2. j - n \in Pt
      BY <1>6, <3>1
    <3>3. k >= j - n
      BY <2>1, <3>2
    <3> QED
      BY <1>1, <2>2, <3>1, <3>3
  <2>4. Max(Pu) = n + k
    <3>1. Pu \subseteq 1 .. Len(u) /\ Len(u) \in Nat
      BY <1>1, <1>4
    <3> QED
      BY <2>2, <2>3, <3>1, MaxIs
  <2> QED
    BY <2>2, <2>4 DEF k
<1>9. ASSUME Ps # {}, Pt = {} PROVE u[Max(Pu)] = s[Max(Ps)]
  <2>1. Pu = Ps
    <3>1. \A i \in Pu : i \in DOMAIN s
      <4> SUFFICES ASSUME NEW i \in Pu, i - n \in DOMAIN t, n + (i - n) = i PROVE FALSE
        BY <1>4, <1>5
      <4> QED
        BY <1>6, <1>9
    <3> QED
      BY <1>4, <1>6, <3>1
  <2>2. Max(Ps) \in Ps
    BY <1>1, <1>4, <1>9, MaxFacts
  <2> QED
    BY <1>4, <1>5, <2>1, <2>2
<1>10. /\ (\E i \in DOMAIN u : u[i].chunk = c) <=>
              \/ \E i \in DOMAIN s : s[i].chunk = c
              \/ \E i \in DOMAIN t : t[i].chunk = c
       /\ (\E i \in DOMAIN t : t[i].chunk = c) => LastTold(u, c) = LastTold(t, c)
       /\ (\E i \in DOMAIN s : s[i].chunk = c) /\ ~ (\E i \in DOMAIN t : t[i].chunk = c) =>
              LastTold(u, c) = LastTold(s, c)
  BY <1>2, <1>3, <1>7, <1>8, <1>9
<1> QED
  BY <1>10 DEF u

----------------------------------------------------------------------------
(* One client and one chunk.                                               *)

\* What client p will show of chunk c.
Due(p, c) == After(view[p][c], toClient[p], c)

\* Edits of client p on chunk c that the server has yet to hear of.
Pending(p, c) == \E i \in DOMAIN toServer[p] : toServer[p][i].chunk = c

Follows(p, c) ==
    /\ Due(p, c) = NoBlock <=> ~Subscribed(p, c)
    /\ Subscribed(p, c) /\ c \notin undone /\ Due(p, c) # block[c] =>
          /\ Silent(toClient[p], c)
          /\ Pending(p, c) /\ Due(p, c) = LastTold(toServer[p], c)

\* ClientsFollow speaks of each client and each chunk.
EachFollows == \A p \in Players : seated[p] /\ ~left[p] => \A c \in Chunks : Follows(p, c)

\* ClientsFollow, of one player and one chunk at a time.
LEMMA ClientsFollowEach == ClientsFollow <=> EachFollows
<1>1. ASSUME NEW p \in Players, NEW c \in Chunks
      PROVE  /\ WillShow(p)[c] = Due(p, c)
             /\ Unsaid(p, c) <=> Silent(toClient[p], c)
             /\ Pending(p, c) <=> {i \in DOMAIN toServer[p] : toServer[p][i].chunk = c} # {}
  BY DEF WillShow, Due, Unsaid, Silent, Pending
<1> QED
  BY <1>1 DEF ClientsFollow, EachFollows, Follows

\* The same of the next state.
LEMMA ClientsFollowNext == ClientsFollow' <=> EachFollows'
  BY ClientsFollowEach, PTL

\* The types of what a client is.
LEMMA ClientTypes ==
    ASSUME TypeOK, NEW p \in Players, NEW c \in Chunks
    PROVE  /\ view[p] \in Views
           /\ view[p][c] \in Blocks \cup {Undefined, NoBlock}
           /\ toClient[p] \in Seq(Packets)
           /\ toServer[p] \in Seq(ClientEdits)
           /\ Due(p, c) \in Blocks \cup {Undefined, NoBlock}
<1>1. /\ view[p] \in Views
      /\ view[p][c] \in Blocks \cup {Undefined, NoBlock}
      /\ toClient[p] \in Seq(Packets)
      /\ toServer[p] \in Seq(ClientEdits)
  <2>1. view \in [Players -> Views]
    BY DEF TypeOK, Views
  <2>2. view[p] \in Views
    BY <2>1
  <2>3. view[p][c] \in Blocks \cup {Undefined, NoBlock}
    BY <2>2 DEF Views
  <2>4. toClient[p] \in Seq(Packets) /\ toServer[p] \in Seq(ClientEdits)
    BY DEF TypeOK
  <2> QED
    BY <2>2, <2>3, <2>4
<1>2. Due(p, c) \in Blocks \cup {Undefined, NoBlock}
  BY <1>1, AfterType DEF Due
<1> QED
  BY <1>1, <1>2

\* More packets on their way.
LEMMA DueMore ==
    ASSUME TypeOK, NEW p \in Players, NEW c \in Chunks, NEW ms \in Seq(Packets),
           view'[p][c] = view[p][c], toClient'[p] = toClient[p] \o ms
    PROVE  /\ Due(p, c)' = After(Due(p, c), ms, c)
           /\ Silent(toClient[p], c) /\ Silent(ms, c) => Silent(toClient[p], c)'
<1>1. /\ view[p][c] \in Blocks \cup {Undefined, NoBlock}
      /\ toClient[p] \in Seq(Packets)
  BY ClientTypes
<1> DEFINE s == toClient[p]
           b == view[p][c]
<1>2. s \in Seq(Packets) /\ b \in Blocks \cup {Undefined, NoBlock}
  BY <1>1
<1>3. Due(p, c)' = After(b, s \o ms, c) /\ Due(p, c) = After(b, s, c)
  BY DEF Due
<1>4. Silent(toClient[p], c)' <=> Silent(s \o ms, c)
  BY DEF Silent
<1> HIDE DEF s, b
<1>5. After(b, s \o ms, c) = After(After(b, s, c), ms, c)
  BY <1>2, AfterConcat
<1>6. Silent(s, c) /\ Silent(ms, c) => Silent(s \o ms, c)
  BY <1>2, SilentConcat
<1> QED
  BY <1>3, <1>4, <1>5, <1>6 DEF s

\* One packet more.
LEMMA DueOneMore ==
    ASSUME TypeOK, NEW p \in Players, NEW c \in Chunks, NEW m \in Packets,
           view'[p][c] = view[p][c], toClient'[p] = toClient[p] \o <<m>>
    PROVE  Due(p, c)' = Upon(Due(p, c), m, c)
<1> DEFINE ms == <<m>>
<1>1. ms \in Seq(Packets) /\ toClient'[p] = toClient[p] \o ms
  OBVIOUS
<1>2. \A b : After(b, ms, c) = Upon(b, m, c)
  BY AfterOne
<1> HIDE DEF ms
<1>3. Due(p, c)' = After(Due(p, c), ms, c)
  BY <1>1, DueMore
<1> QED
  BY <1>2, <1>3

\* A step that says nothing to client p about chunk c and does nothing to it.
Undisturbed(p, c) ==
    /\ view'[p][c] = view[p][c]
    /\ \/ toClient'[p] = toClient[p]
       \/ \E ms \in Seq(Packets) : toClient'[p] = toClient[p] \o ms /\ Silent(ms, c)
    /\ Subscribed(p, c)' <=> Subscribed(p, c)
    /\ Subscribed(p, c) => block'[c] = block[c] /\ (c \in undone => c \in undone')
    /\ \/ toServer'[p] = toServer[p]
       \/ Pending(p, c) => Pending(p, c)' /\ LastTold(toServer'[p], c) = LastTold(toServer[p], c)

\* A step that changes neither a chunk, its subscribers nor a stream.
LEMMA UndisturbedFollows ==
    ASSUME TypeOK, NEW p \in Players, NEW c \in Chunks, Follows(p, c), Undisturbed(p, c)
    PROVE  Follows(p, c)'
<1>1. /\ Due(p, c)' = Due(p, c)
      /\ Silent(toClient[p], c) => Silent(toClient[p], c)'
  <2>1. CASE toClient'[p] = toClient[p]
    BY <2>1 DEF Undisturbed, Due, Silent
  <2>2. CASE \E ms \in Seq(Packets) : toClient'[p] = toClient[p] \o ms /\ Silent(ms, c)
    <3>1. PICK ms \in Seq(Packets) : toClient'[p] = toClient[p] \o ms /\ Silent(ms, c)
      BY <2>2
    <3>2. /\ Due(p, c)' = After(Due(p, c), ms, c)
          /\ Silent(toClient[p], c) /\ Silent(ms, c) => Silent(toClient[p], c)'
      BY <3>1, DueMore DEF Undisturbed
    <3>3. After(Due(p, c), ms, c) = Due(p, c)
      BY <3>1, AfterSilence
    <3> QED
      BY <3>1, <3>2, <3>3
  <2> QED
    BY <2>1, <2>2 DEF Undisturbed
<1>2. Pending(p, c) => Pending(p, c)' /\ LastTold(toServer'[p], c) = LastTold(toServer[p], c)
  BY DEF Undisturbed, Pending
<1>3. /\ Subscribed(p, c)' <=> Subscribed(p, c)
      /\ Subscribed(p, c) => block'[c] = block[c] /\ (c \in undone => c \in undone')
  BY DEF Undisturbed
<1> QED
  BY <1>1, <1>2, <1>3 DEF Follows

\* A step that touches no chunk, no subscription and no wire.
LEMMA ClientsFrame ==
    ASSUME TypeOK, ClientsFollow, UNCHANGED <<serverVars, wireVars>>,
           \A p \in Players : seated'[p] /\ ~left'[p] => seated[p] /\ ~left[p]
    PROVE  ClientsFollow'
<1> USE DEF serverVars, wireVars
<1>1. ASSUME NEW p \in Players, seated'[p] /\ ~left'[p], NEW c \in Chunks
      PROVE  Follows(p, c)'
  <2>1. Follows(p, c)
    BY <1>1, ClientsFollowEach DEF EachFollows
  <2>2. Undisturbed(p, c)
    BY DEF Undisturbed, Subscribed, InTable
  <2> QED
    BY <2>1, <2>2, UndisturbedFollows
<1> QED
  BY <1>1, ClientsFollowNext DEF EachFollows

\* Nobody is there to follow.
LEMMA NobodyFollows ==
    ASSUME \A p \in Players : seated'[p] => left'[p]
    PROVE  ClientsFollow'
  BY DEF ClientsFollow

----------------------------------------------------------------------------
(* What the clients follow: edits.                                         *)

\* A packet about one chunk is silent about the others.
LEMMA SilentPackets ==
    ASSUME NEW c \in Chunks, NEW d \in Chunks, d # c, NEW b
    PROVE  Silent(<<Load(c, b)>>, d) /\ Silent(<<Unload(c)>>, d) /\ Silent(<<SetTo(c, b)>>, d)
  BY DEF Silent, Renews, Tells, Load, Unload, SetTo

\* What the packets do.
LEMMA UponPackets ==
    ASSUME NEW c \in Chunks, NEW b \in Blocks, NEW a
    PROVE  /\ Upon(a, Load(c, b), c) = b
           /\ Upon(a, Unload(c), c) = NoBlock
           /\ Upon(a, SetTo(c, b), c) = IF a = NoBlock THEN NoBlock ELSE b
  BY DEF Upon, Renews, Tells, Said, Load, Unload, SetTo

\* The server hears of an edit: those on other chunks are still pending, and of
\* those on this one the last is the same, if there is another.
LEMMA Heard ==
    ASSUME TypeOK, NEW p \in Players, NEW d \in Chunks, toServer[p] # <<>>,
           toServer'[p] = Tail(toServer[p]), Pending(p, d)
    PROVE  \/ Pending(p, d)' /\ LastTold(toServer'[p], d) = LastTold(toServer[p], d)
           \/ /\ Head(toServer[p]).chunk = d
              /\ LastTold(toServer[p], d) = Head(toServer[p]).block
<1> DEFINE s == toServer[p]
           h == <<Head(s)>>
           t == Tail(s)
<1>1. s \in Seq(ClientEdits)
  BY ClientTypes
<1>2. /\ h \in Seq(ClientEdits) /\ t \in Seq(ClientEdits) /\ s = h \o t
      /\ DOMAIN h = {1} /\ h[1] = Head(s)
  BY <1>1, HeadThenTail
<1>3. (Pending(p, d) <=> \E i \in DOMAIN s : s[i].chunk = d)
      /\ (Pending(p, d)' <=> \E i \in DOMAIN t : t[i].chunk = d)
  BY DEF Pending
<1>4. LastTold(toServer'[p], d) = LastTold(t, d)
  OBVIOUS
<1> HIDE DEF h, t
<1>5. /\ (\E i \in DOMAIN s : s[i].chunk = d) <=>
              \/ \E i \in DOMAIN h : h[i].chunk = d
              \/ \E i \in DOMAIN t : t[i].chunk = d
      /\ (\E i \in DOMAIN t : t[i].chunk = d) => LastTold(s, d) = LastTold(t, d)
      /\ (\E i \in DOMAIN h : h[i].chunk = d) /\ ~ (\E i \in DOMAIN t : t[i].chunk = d) =>
             LastTold(s, d) = LastTold(h, d)
  <2> HIDE DEF s
  <2>1. /\ (\E i \in DOMAIN (h \o t) : (h \o t)[i].chunk = d) <=>
               \/ \E i \in DOMAIN h : h[i].chunk = d
               \/ \E i \in DOMAIN t : t[i].chunk = d
        /\ (\E i \in DOMAIN t : t[i].chunk = d) => LastTold(h \o t, d) = LastTold(t, d)
        /\ (\E i \in DOMAIN h : h[i].chunk = d) /\ ~ (\E i \in DOMAIN t : t[i].chunk = d) =>
               LastTold(h \o t, d) = LastTold(h, d)
    <3>1. h \in Seq(ClientEdits) /\ t \in Seq(ClientEdits)
      BY <1>2
    <3> QED
      BY ONLY <3>1, LastToldConcat
  <2> QED
    BY <1>2, <2>1
<1>6. (\E i \in DOMAIN h : h[i].chunk = d) =>
          Head(s).chunk = d /\ LastTold(h, d) = Head(s).block
  <2> SUFFICES ASSUME NEW i \in DOMAIN h, h[i].chunk = d
               PROVE  Head(s).chunk = d /\ LastTold(h, d) = Head(s).block
    OBVIOUS
  <2>1. \E k \in DOMAIN h : h[k].chunk = d /\ LastTold(h, d) = h[k].block
    BY <1>2, LastToldFacts
  <2> QED
    BY <1>2, <2>1
<1>7. \/ (\E i \in DOMAIN t : t[i].chunk = d) /\ LastTold(t, d) = LastTold(s, d)
      \/ Head(s).chunk = d /\ LastTold(s, d) = Head(s).block
  BY <1>3, <1>5, <1>6
<1> QED
  BY <1>3, <1>4, <1>7

\* ServerWorld_SetBlock, for a script or for an edit of the client's own.
LEMMA WriteFollows ==
    ASSUME ServerInvariant, NEW c \in Chunks, NEW b \in Blocks, Write(c, b),
           UNCHANGED <<table, subscribers, view, seated, left>>,
           NEW q \in Players, seated[q], ~left[q], NEW d \in Chunks, Follows(q, d),
           \/ toServer'[q] = toServer[q]
           \/ /\ toServer[q] # <<>> /\ toServer'[q] = Tail(toServer[q])
              /\ Head(toServer[q]).chunk = c /\ Head(toServer[q]).block = b
    PROVE  Follows(q, d)'
<1> USE DEF ServerInvariant
<1>1. /\ Subscribed(q, d)' <=> Subscribed(q, d)
      /\ view'[q][d] = view[q][d] /\ InTable' = InTable
  BY DEF Subscribed, InTable
<1>2. SetTo(c, b) \in Packets /\ <<SetTo(c, b)>> \in Seq(Packets)
  BY PacketTypes
<1> DEFINE quiet == c \notin InTable \/ block[c] = b
<1>3. quiet => UNCHANGED <<block, modified, undone, toClient>>
  BY DEF Write
<1>4. ~quiet => /\ block' = [block EXCEPT ![c] = b]
                /\ undone' = undone \ {c}
                /\ toClient'[q] = toClient[q] \o <<SetTo(c, b)>>
  <2> SUFFICES ASSUME ~quiet
               PROVE  /\ block' = [block EXCEPT ![c] = b]
                      /\ undone' = undone \ {c}
                      /\ toClient'[q] = toClient[q] \o <<SetTo(c, b)>>
    OBVIOUS
  <2>1. block' = [block EXCEPT ![c] = b] /\ undone' = undone \ {c}
        /\ toClient' = SentTo(Seated, SetTo(c, b))
    BY DEF Write
  <2>2. \A r \in Seated \cap Players : ~left[r] =>
            SentTo(Seated, SetTo(c, b))[r] = toClient[r] \o <<SetTo(c, b)>>
    BY ZenonT(60), <1>2, SentOneFacts DEF TypeOK
  <2> QED
    BY <2>1, <2>2 DEF Seated
<1>5. block \in [Chunks -> Blocks \cup {NoBlock}]
  BY DEF TypeOK
<1>6. CASE d # c
  <2>1. \/ toClient'[q] = toClient[q]
        \/ \E ms \in Seq(Packets) : toClient'[q] = toClient[q] \o ms /\ Silent(ms, d)
    BY <1>2, <1>3, <1>4, <1>6, SilentPackets
  <2>2. block'[d] = block[d] /\ (d \in undone => d \in undone')
    BY <1>3, <1>4, <1>5, <1>6
  <2>3. \/ toServer'[q] = toServer[q]
        \/ Pending(q, d) => Pending(q, d)' /\ LastTold(toServer'[q], d) = LastTold(toServer[q], d)
    BY <1>6, Heard
  <2>4. Undisturbed(q, d)
    BY <1>1, <2>1, <2>2, <2>3 DEF Undisturbed
  <2> QED
    BY <2>4, UndisturbedFollows
<1>7. CASE d = c /\ ~quiet
  <2>1. Due(q, c)' = Upon(Due(q, c), SetTo(c, b), c)
    BY <1>1, <1>2, <1>4, <1>7, DueOneMore
  <2>2. Due(q, c)' = IF Due(q, c) = NoBlock THEN NoBlock ELSE b
    BY <2>1, UponPackets
  <2>3. block'[c] = b
    BY <1>4, <1>5, <1>7
  <2> QED
    BY <1>1, <1>7, <2>2, <2>3 DEF Follows
<1>8. CASE d = c /\ quiet
  <2>1. Due(q, c)' = Due(q, c) /\ block'[c] = block[c] /\ undone' = undone
        /\ (Silent(toClient[q], c)' <=> Silent(toClient[q], c))
    BY <1>3, <1>8 DEF Due, Silent
  <2>2. Subscribed(q, c) => block[c] = b
    BY <1>8 DEF Subscribed
  <2>3. CASE toServer'[q] = toServer[q]
    BY <1>1, <1>8, <2>1, <2>3 DEF Follows, Pending
  <2>4. CASE toServer'[q] # toServer[q]
    <3>1. Pending(q, c) => \/ Pending(q, c)' /\ LastTold(toServer'[q], c) = LastTold(toServer[q], c)
                           \/ LastTold(toServer[q], c) = b
      BY <2>4, Heard
    <3> QED
      BY <1>1, <1>8, <2>1, <2>2, <3>1 DEF Follows
  <2> QED
    BY <2>3, <2>4
<1> QED
  BY <1>6, <1>7, <1>8

\* set_block: the clients of the chunk are told.
LEMMA ScriptSetBlockFollows ==
    ASSUME ServerInvariant, ClientsFollow, NEW c \in Chunks, NEW b \in Blocks,
           ScriptSetBlock(c, b)
    PROVE  ClientsFollow'
<1>1. /\ Write(c, b)
      /\ UNCHANGED <<table, subscribers, view, seated, left, toServer>>
  BY DEF ScriptSetBlock, playerVars
<1>2. ASSUME NEW q \in Players, seated'[q] /\ ~left'[q], NEW d \in Chunks
      PROVE  Follows(q, d)'
  <2>1. seated[q] /\ ~left[q] /\ Follows(q, d)
    BY <1>1, <1>2, ClientsFollowEach DEF EachFollows
  <2> QED
    BY <1>1, <2>1, WriteFollows
<1> QED
  BY <1>2, ClientsFollowNext DEF EachFollows

\* An edit of a player: the others are told.
LEMMA HandleSetBlockFollows ==
    ASSUME ServerInvariant, ClientsFollow, NEW p \in Players, HandleSetBlock(p)
    PROVE  ClientsFollow'
<1> USE DEF ServerInvariant
<1> DEFINE c == Head(toServer[p]).chunk
           b == Head(toServer[p]).block
<1>1. /\ toServer[p] # <<>>
      /\ toServer[p] \in Seq(ClientEdits)
      /\ \A q \in Players : toServer'[q] = IF q = p THEN Tail(toServer[p]) ELSE toServer[q]
      /\ UNCHANGED <<table, subscribers, view, seated, left>>
  BY DEF HandleSetBlock, playerVars, TypeOK
<1>2. c \in Chunks /\ b \in Blocks \cup {Undefined}
  <2>1. Head(toServer[p]) \in ClientEdits
    BY <1>1, HeadTailProperties
  <2> QED
    BY <2>1 DEF ClientEdits
<1> DEFINE a == IF c \in InTable THEN block[c] ELSE Air
<1>3. a \in Blocks
  BY DEF LoadsAreFresh
<1>4. \/ IsBlockDefined(b) /\ Write(c, b)
      \/ ~IsBlockDefined(b) /\ toClient' = SentTo({p}, SetTo(c, a)) /\ UNCHANGED <<block, undone>>
  BY DEF HandleSetBlock
<1>5. c = Head(toServer[p]).chunk /\ b = Head(toServer[p]).block
  OBVIOUS
<1>6. c \in InTable => a = block[c]
  OBVIOUS
<1> HIDE DEF c, b, a
<1>7. ASSUME NEW q \in Players, seated'[q] /\ ~left'[q], NEW d \in Chunks
      PROVE  Follows(q, d)'
  <2>1. seated[q] /\ ~left[q] /\ Follows(q, d)
    BY <1>1, <1>7, ClientsFollowEach DEF EachFollows
  <2>2. CASE IsBlockDefined(b)
    <3>1. b \in Blocks /\ Write(c, b)
      BY <1>2, <1>4, <2>2 DEF IsBlockDefined
    <3>2. \/ toServer'[q] = toServer[q]
          \/ /\ toServer[q] # <<>> /\ toServer'[q] = Tail(toServer[q])
             /\ Head(toServer[q]).chunk = c /\ Head(toServer[q]).block = b
      BY <1>1, <1>5
    <3> QED
      BY <1>1, <1>2, <2>1, <3>1, <3>2, WriteFollows
  <2>3. CASE ~IsBlockDefined(b)
    <3>1. toClient' = SentTo({p}, SetTo(c, a)) /\ UNCHANGED <<block, undone>>
      BY <1>4, <2>3
    <3>2. SetTo(c, a) \in Packets /\ <<SetTo(c, a)>> \in Seq(Packets)
      BY <1>2, <1>3, PacketTypes
    <3>3. /\ \A r \in Players : left[r] \/ r \notin {p} => SentTo({p}, SetTo(c, a))[r] = toClient[r]
          /\ \A r \in {p} \cap Players : ~left[r] =>
                 SentTo({p}, SetTo(c, a))[r] = toClient[r] \o <<SetTo(c, a)>>
      BY ZenonT(60), <3>2, SentOneFacts DEF TypeOK
    <3>4. IF q = p THEN toClient'[q] = toClient[q] \o <<SetTo(c, a)>>
                   ELSE toClient'[q] = toClient[q]
      BY <2>1, <3>1, <3>3
    <3>5. Subscribed(q, d)' <=> Subscribed(q, d)
      BY <1>1 DEF Subscribed, InTable
    <3>6. CASE q = p /\ d = c
      <4>1. /\ toClient'[q] = toClient[q] \o <<SetTo(d, a)>> /\ view'[q][d] = view[q][d]
            /\ SetTo(d, a) \in Packets
        BY <1>1, <3>2, <3>4, <3>6
      <4>2. Due(q, d)' = Upon(Due(q, d), SetTo(d, a), d)
        BY <4>1, DueOneMore
      <4>3. Due(q, d)' = IF Due(q, d) = NoBlock THEN NoBlock ELSE a
        BY <1>3, <4>2, UponPackets
      <4>4. Subscribed(q, d) => a = block'[d]
        BY <1>6, <3>1, <3>6 DEF Subscribed
      <4> QED
        BY <1>3, <2>1, <3>5, <4>3, <4>4 DEF Follows
    <3>7. CASE ~ (q = p /\ d = c)
      <4>1. \/ toClient'[q] = toClient[q]
            \/ \E ms \in Seq(Packets) : toClient'[q] = toClient[q] \o ms /\ Silent(ms, d)
        BY <1>2, <3>2, <3>4, <3>7, SilentPackets
      <4>2. \/ toServer'[q] = toServer[q]
            \/ Pending(q, d) =>
                  Pending(q, d)' /\ LastTold(toServer'[q], d) = LastTold(toServer[q], d)
        <5>1. CASE q = p
          BY <1>1, <1>5, <3>7, <5>1, Heard
        <5>2. CASE q # p
          BY <1>1, <5>2
        <5> QED
          BY <5>1, <5>2
      <4>3. Undisturbed(q, d)
        BY <1>1, <3>1, <3>5, <4>1, <4>2 DEF Undisturbed
      <4> QED
        BY <2>1, <4>3, UndisturbedFollows
    <3> QED
      BY <3>6, <3>7
  <2> QED
    BY <2>2, <2>3
<1> QED
  BY <1>7, ClientsFollowNext DEF EachFollows

\* What set_blocks sends: all of its callbacks' sets, then the batch.
LEMMA AfterSetBlocks ==
    ASSUME NEW w \in Writes, NEW a \in Blocks \cup {Undefined, NoBlock}, NEW c \in Chunks,
           NEW ms, ms = w.told \o (IF w.batch = <<>> THEN <<>> ELSE <<Batch(w.batch)>>)
    PROVE  /\ ms \in Seq(Packets)
           /\ c \notin ToldOf(w) => Silent(ms, c)
           /\ c \in ToldOf(w) =>
                 /\ After(a, ms, c) = IF a = NoBlock THEN a ELSE LastTold(w.told \o w.batch, c)
                 /\ LastTold(w.told \o w.batch, c) \in Blocks
<1> DEFINE s == w.told
           t == w.batch
           bs == IF t = <<>> THEN <<>> ELSE <<Batch(t)>>
<1>1. s \in Seq(Sets) /\ t \in Seq(Sets)
  BY DEF Writes
<1>2. ms \in Seq(Packets) /\ ms = s \o bs
  BY ToldArePackets
<1>3. c \in ToldOf(w) <=> \/ \E i \in DOMAIN s : s[i].chunk = c
                          \/ \E i \in DOMAIN t : t[i].chunk = c
  <2>1. ToldOf(w) = {m.chunk : m \in ToSet(s) \cup ToSet(t)}
    BY DEF ToldOf
  <2>2. ToSet(s) = {s[i] : i \in DOMAIN s} /\ ToSet(t) = {t[i] : i \in DOMAIN t}
    BY DEF ToSet
  <2> QED
    BY <2>1, <2>2
<1>4. s \in Seq(Packets) /\ Batch(t) \in Packets
  <2>1. Sets \subseteq Packets
    BY DEF Sets, Packets
  <2>2. s \in Seq(Packets)
    BY <1>1, <2>1, SeqMonotonic
  <2> QED
    BY <1>1, <2>2 DEF Batch, Packets
<1>5. bs \in Seq(Packets)
  <2>1. <<>> \in Seq(Packets) /\ <<Batch(t)>> \in Seq(Packets)
    BY <1>4, EmptySeq
  <2> QED
    BY <2>1
<1>6. /\ ~Renews(Batch(t), c)
      /\ Tells(Batch(t), c) <=> \E i \in DOMAIN t : t[i].chunk = c
      /\ Said(Batch(t), c) = LastTold(t, c)
  BY DEF Renews, Tells, Said, Batch
<1> HIDE DEF s, t
<1>7. t = <<>> => ~ \E i \in DOMAIN t : t[i].chunk = c
  OBVIOUS
<1>8. \A x : After(x, bs, c) = IF x # NoBlock /\ (\E i \in DOMAIN t : t[i].chunk = c)
                               THEN LastTold(t, c) ELSE x
  <2> TAKE x
  <2>1. CASE t = <<>>
    <3>1. bs = <<>>
      BY <2>1
    <3>2. Silent(bs, c)
      BY <3>1 DEF Silent
    <3>3. After(x, bs, c) = x
      BY <3>2, AfterSilence
    <3> QED
      BY <1>7, <2>1, <3>3
  <2>2. CASE t # <<>>
    <3>1. bs = <<Batch(t)>>
      BY <2>2
    <3>2. After(x, <<Batch(t)>>, c) = Upon(x, Batch(t), c)
      BY <1>4, AfterOne
    <3>3. Upon(x, Batch(t), c) = IF x # NoBlock /\ (\E i \in DOMAIN t : t[i].chunk = c)
                                 THEN LastTold(t, c) ELSE x
      BY <1>6 DEF Upon
    <3> QED
      BY <3>1, <3>2, <3>3
  <2> QED
    BY <2>1, <2>2
<1>9. c \notin ToldOf(w) => Silent(bs, c) /\ Silent(s, c)
  <2> SUFFICES ASSUME c \notin ToldOf(w) PROVE Silent(bs, c) /\ Silent(s, c)
    OBVIOUS
  <2>1. Silent(s, c)
    <3>1. \A i \in DOMAIN s : s[i] \in Sets
      BY <1>1, LenProperties
    <3> QED
      BY <1>3, <3>1 DEF Silent, Renews, Tells, Sets
  <2>2. CASE t = <<>>
    BY <2>1, <2>2 DEF Silent
  <2>3. CASE t # <<>>
    <3>1. bs = <<Batch(t)>> /\ ~Tells(Batch(t), c)
      BY <1>3, <1>6, <2>3
    <3>2. Silent(<<Batch(t)>>, c)
      BY <1>6, <3>1 DEF Silent
    <3> QED
      BY <2>1, <3>1, <3>2
  <2> QED
    BY <2>2, <2>3
<1> HIDE DEF bs
<1>10. c \notin ToldOf(w) => Silent(ms, c)
  <2>1. Silent(s, c) /\ Silent(bs, c) => Silent(s \o bs, c)
    BY ONLY <1>4, <1>5, SilentConcat
  <2> QED
    BY <1>2, <1>9, <2>1
<1>11. ASSUME c \in ToldOf(w)
       PROVE  /\ After(a, ms, c) = IF a = NoBlock THEN a ELSE LastTold(s \o t, c)
              /\ LastTold(s \o t, c) \in Blocks
  <2>1. After(a, s \o bs, c) = After(After(a, s, c), bs, c)
    BY <1>4, <1>5, AfterConcat
  <2>2. After(a, s, c) = IF a = NoBlock \/ (\A i \in DOMAIN s : s[i].chunk # c) THEN a
                         ELSE LastTold(s, c)
    BY <1>1, AfterSets
  <2>3. (\E i \in DOMAIN s : s[i].chunk = c) => LastTold(s, c) \in Blocks
    BY <1>1, LastToldType
  <2>4. (\E i \in DOMAIN t : t[i].chunk = c) => LastTold(t, c) \in Blocks
    BY <1>1, LastToldType
  <2>5. /\ (\E i \in DOMAIN t : t[i].chunk = c) => LastTold(s \o t, c) = LastTold(t, c)
        /\ (\E i \in DOMAIN s : s[i].chunk = c) /\ ~ (\E i \in DOMAIN t : t[i].chunk = c) =>
               LastTold(s \o t, c) = LastTold(s, c)
    BY ONLY <1>1, LastToldConcat
  <2> QED
    BY <1>2, <1>3, <1>8, <1>11, <2>1, <2>2, <2>3, <2>4, <2>5
<1> QED
  BY <1>2, <1>10, <1>11 DEF s, t

\* set_blocks, with the callbacks in the middle of it.
LEMMA ScriptSetBlocksFollows ==
    ASSUME ServerInvariant, ClientsFollow, NEW first \in Edits, NEW second \in Edits, NEW i,
           NEW answer \in Edits, ScriptSetBlocks(first, second, i, answer)
    PROVE  ClientsFollow'
<1> USE DEF ServerInvariant
<1> DEFINE end == End(first, second, i, answer)
           told == end.told \o end.batch
           changed == {told[j].chunk : j \in DOMAIN told}
           ms == end.told \o (IF end.batch = <<>> THEN <<>> ELSE <<Batch(end.batch)>>)
<1>1. /\ block' = end.block
      /\ toClient' = SentAll(Seated, ms)
      /\ undone' = (undone \ changed) \cup {c \in changed : LastTold(told, c) # end.block[c]}
      /\ UNCHANGED <<table, subscribers, view, seated, left, toServer>>
  BY DEF ScriptSetBlocks, End, Start3, playerVars
<1>2. Progress(end)
  BY EndProgress
<1> HIDE DEF end
<1>3. end \in Writes /\ \A c \in Chunks : end.block[c] # block[c] => c \in ToldOf(end)
  BY <1>2 DEF Progress
<1>4. changed = ToldOf(end)
  <2>1. end.told \in Seq(Sets) /\ end.batch \in Seq(Sets)
    BY <1>3 DEF Writes
  <2>2. ToSet(told) = ToSet(end.told) \cup ToSet(end.batch)
    BY <2>1, ConcatFacts
  <2>3. ToSet(told) = {told[j] : j \in DOMAIN told}
    BY DEF ToSet
  <2> HIDE DEF told
  <2>4. changed = {m.chunk : m \in ToSet(told)}
    BY <2>3
  <2> QED
    BY <2>2, <2>4 DEF ToldOf
<1>5. ms \in Seq(Packets)
  BY <1>3, ToldArePackets
<1>6. ASSUME NEW q \in Players, seated'[q] /\ ~left'[q], NEW c \in Chunks
      PROVE  Follows(q, c)'
  <2>1. seated[q] /\ ~left[q] /\ Follows(q, c)
    BY <1>1, <1>6, ClientsFollowEach DEF EachFollows
  <2> DEFINE a == Due(q, c)
  <2>2. a \in Blocks \cup {Undefined, NoBlock}
    BY ClientTypes
  <2> HIDE DEF a
  <2>3. /\ c \notin ToldOf(end) => Silent(ms, c)
        /\ c \in ToldOf(end) =>
              /\ After(a, ms, c) = IF a = NoBlock THEN a ELSE LastTold(told, c)
              /\ LastTold(told, c) \in Blocks
    BY <1>3, <2>2, AfterSetBlocks
  <2> HIDE DEF ms, changed, told
  <2>4. toClient'[q] = toClient[q] \o ms
    <3>1. toClient \in [Players -> Seq(Packets)]
      BY DEF TypeOK
    <3>2. \A r \in Seated \cap Players : ~left[r] => SentAll(Seated, ms)[r] = toClient[r] \o ms
      BY <1>5, <3>1, SentFacts
    <3> QED
      BY <1>1, <2>1, <3>2 DEF Seated
  <2>5. Subscribed(q, c)' <=> Subscribed(q, c)
    BY <1>1 DEF Subscribed, InTable
  <2>6. CASE c \notin ToldOf(end)
    <3>1. block'[c] = block[c] /\ (c \in undone => c \in undone')
      BY <1>1, <1>3, <1>4, <2>6
    <3>2. Undisturbed(q, c)
      BY <1>1, <1>5, <2>3, <2>4, <2>5, <2>6, <3>1 DEF Undisturbed
    <3> QED
      BY <2>1, <3>2, UndisturbedFollows
  <2>7. CASE c \in ToldOf(end)
    <3>1. Due(q, c)' = After(a, ms, c)
      BY <1>1, <1>5, <2>4, DueMore DEF a
    <3>2. c \notin undone' => LastTold(told, c) = block'[c]
      BY <1>1, <1>4, <2>7
    <3> QED
      BY <2>1, <2>3, <2>5, <2>7, <3>1, <3>2 DEF Follows, a
  <2> QED
    BY <2>6, <2>7
<1> QED
  BY <1>6, ClientsFollowNext DEF EachFollows

----------------------------------------------------------------------------
(* What the clients follow: players, chunks, and the clients themselves.   *)

\* A player that joins has seen nothing.
LEMMA JoinFollows ==
    ASSUME ServerInvariant, ClientsFollow, NEW p \in Players, Join(p)
    PROVE  ClientsFollow'
<1> USE DEF ServerInvariant
<1>1. /\ ~seated[p] /\ seated' = [seated EXCEPT ![p] = TRUE]
      /\ UNCHANGED <<left, serverVars, wireVars>>
  BY DEF Join
<1> USE DEF serverVars, wireVars
<1>2. ASSUME NEW q \in Players, seated'[q] /\ ~left'[q], NEW c \in Chunks
      PROVE  Follows(q, c)'
  <2>1. CASE q = p
    <3>1. toClient[q] = <<>> /\ view[q] = [d \in Chunks |-> NoBlock]
      BY <1>1, <2>1 DEF PlayersInPlace
    <3>2. toClient'[q] = <<>> /\ view'[q][c] = NoBlock
      BY <1>1, <3>1
    <3>3. Due(q, c)' = NoBlock
      <4>1. Silent(<<>>, c)
        BY DEF Silent
      <4>2. After(NoBlock, <<>>, c) = NoBlock
        BY <4>1, AfterSilence
      <4> QED
        BY <3>2, <4>2 DEF Due
    <3>4. ~Subscribed(q, c)'
      BY <1>1, <2>1 DEF Subscribed, InTable, SubscribersAreSeated, Seated
    <3> QED
      BY <3>3, <3>4 DEF Follows
  <2>2. CASE q # p
    <3>1. seated[q] /\ ~left[q]
      BY <1>1, <1>2, <2>2 DEF TypeOK
    <3>2. Follows(q, c)
      BY <3>1, ClientsFollowEach DEF EachFollows
    <3>3. Undisturbed(q, c)
      BY <1>1 DEF Undisturbed, Subscribed, InTable
    <3> QED
      BY <3>2, <3>3, UndisturbedFollows
  <2> QED
    BY <2>1, <2>2
<1> QED
  BY <1>2, ClientsFollowNext DEF EachFollows

\* A player that leaves has nothing to see.
LEMMA HangUpFollows ==
    ASSUME ServerInvariant, ClientsFollow, NEW p \in Players, HangUp(p)
    PROVE  ClientsFollow'
<1> USE DEF ServerInvariant
<1>1. /\ left' = [left EXCEPT ![p] = TRUE] /\ seated' = seated
      /\ \A q \in Players \ {p} : /\ toServer'[q] = toServer[q] /\ toClient'[q] = toClient[q]
                                  /\ view'[q] = view[q]
      /\ UNCHANGED serverVars
  BY DEF HangUp, TypeOK
<1>2. ASSUME NEW q \in Players, seated'[q] /\ ~left'[q], NEW c \in Chunks
      PROVE  Follows(q, c)'
  <2>1. q # p /\ seated[q] /\ ~left[q]
    BY <1>1, <1>2 DEF TypeOK
  <2>2. Follows(q, c)
    BY <2>1, ClientsFollowEach DEF EachFollows
  <2>3. Undisturbed(q, c)
    BY <1>1, <2>1 DEF Undisturbed, Subscribed, InTable, serverVars
  <2> QED
    BY <2>2, <2>3, UndisturbedFollows
<1> QED
  BY <1>2, ClientsFollowNext DEF EachFollows

\* A chunk that was loaded enters the table, and nobody sees it yet.
LEMMA DeliverFollows ==
    ASSUME ServerInvariant, ClientsFollow, Deliver
    PROVE  ClientsFollow'
<1> USE DEF ServerInvariant
<1> DEFINE c == Head(taken).chunk
           b == Head(taken).block
           new == {p \in Seated : c \in Accepted[place[p]] /\ ~Subscribed(p, c)}
<1>1. c \in Chunks /\ b \in Blocks /\ c \notin InTable
  BY DeliverFacts DEF Deliver, LoadResults
<1>2. /\ table' = Append(table, c)
      /\ block' = [block EXCEPT ![c] = b]
      /\ subscribers' = [subscribers EXCEPT ![c] = new]
      /\ toClient' = SentTo(new, Load(c, b))
      /\ UNCHANGED <<undone, seated, left, toServer, view>>
  BY <1>1 DEF Deliver
<1>3. new \subseteq Players
  BY DEF Seated
<1> HIDE DEF c, b, new
<1>4. InTable' = InTable \cup {c}
  <2>1. table \in Seq(Chunks)
    BY DEF TypeOK
  <2>2. ToSet(Append(table, c)) = ToSet(table) \cup {c}
    BY <1>1, <2>1, AppendFacts
  <2> QED
    BY <1>2, <2>2 DEF InTable
<1>5. /\ block'[c] = b /\ \A d \in Chunks \ {c} : block'[d] = block[d]
      /\ subscribers'[c] = new /\ \A d \in Chunks \ {c} : subscribers'[d] = subscribers[d]
  BY <1>1, <1>2 DEF TypeOK
<1>6. Load(c, b) \in Packets /\ <<Load(c, b)>> \in Seq(Packets)
  BY <1>1, PacketTypes
<1>7. /\ \A q \in Players : left[q] \/ q \notin new => toClient'[q] = toClient[q]
      /\ \A q \in new \cap Players : ~left[q] => toClient'[q] = toClient[q] \o <<Load(c, b)>>
  <2>1. toClient \in [Players -> Seq(Packets)]
    BY DEF TypeOK
  <2>2. /\ \A q \in Players : left[q] \/ q \notin new => SentTo(new, Load(c, b))[q] = toClient[q]
        /\ \A q \in new \cap Players : ~left[q] =>
               SentTo(new, Load(c, b))[q] = toClient[q] \o <<Load(c, b)>>
    BY <1>6, <2>1, SentOneFacts
  <2> QED
    BY <1>2, <2>2
<1>8. ASSUME NEW q \in Players, seated'[q] /\ ~left'[q], NEW d \in Chunks
      PROVE  Follows(q, d)'
  <2>1. seated[q] /\ ~left[q] /\ Follows(q, d)
    BY <1>2, <1>8, ClientsFollowEach DEF EachFollows
  <2>2. CASE d = c /\ q \in new
    <3>1. /\ toClient'[q] = toClient[q] \o <<Load(d, b)>> /\ view'[q][d] = view[q][d]
          /\ Load(d, b) \in Packets
      BY <1>2, <1>6, <1>7, <2>1, <2>2
    <3>2. Due(q, d)' = Upon(Due(q, d), Load(d, b), d)
      BY <3>1, DueOneMore
    <3>3. Due(q, d)' = b
      BY <1>1, <3>2, UponPackets
    <3>4. Subscribed(q, d)' /\ block'[d] = b
      BY <1>4, <1>5, <2>2 DEF Subscribed
    <3> QED
      BY <1>1, <3>3, <3>4 DEF Follows
  <2>3. CASE ~ (d = c /\ q \in new)
    <3>1. \/ toClient'[q] = toClient[q]
          \/ \E ms \in Seq(Packets) : toClient'[q] = toClient[q] \o ms /\ Silent(ms, d)
      BY <1>1, <1>6, <1>7, <2>1, <2>3, SilentPackets
    <3>2. Subscribed(q, d)' <=> Subscribed(q, d)
      BY <1>1, <1>4, <1>5, <2>3 DEF Subscribed
    <3>3. Subscribed(q, d) => d # c
      BY <1>1 DEF Subscribed
    <3>4. Undisturbed(q, d)
      BY <1>2, <1>5, <3>1, <3>2, <3>3 DEF Undisturbed
    <3> QED
      BY <2>1, <3>4, UndisturbedFollows
  <2> QED
    BY <2>2, <2>3
<1> QED
  BY <1>8, ClientsFollowNext DEF EachFollows

\* A chunk that leaves the table, or a player that has gone out of its range.
LEMMA VisitChunkFollows ==
    ASSUME ServerInvariant, ClientsFollow, VisitChunk
    PROVE  ClientsFollow'
<1> USE DEF ServerInvariant
<1> DEFINE c == table[cursor]
           staying == {p \in subscribers[c] : c \in Kept[place[p]]}
           going == subscribers[c] \ staying
<1>1. /\ cursor <= Len(table)
      /\ toClient' = SentTo(going, Unload(c))
      /\ subscribers' = [subscribers EXCEPT ![c] = staying]
      /\ staying = {} => /\ table' = Without(table, cursor)
                         /\ block' = [block EXCEPT ![c] = NoBlock]
                         /\ undone' = undone \ {c}
      /\ staying # {} => UNCHANGED <<table, block, undone>>
      /\ UNCHANGED <<seated, left, toServer, view>>
  BY DEF VisitChunk, UnloadSaid, Abandoned, Deleted, Without, playerVars
<1>2. cursor \in 1 .. Len(table)
  <2>1. cursor \in Nat \ {0} /\ table \in Seq(Chunks)
    BY DEF TypeOK
  <2>2. Len(table) \in Nat
    BY <2>1, LenProperties
  <2> QED
    BY <1>1, <2>1, <2>2
<1>3. c \in Chunks /\ c \in InTable
  BY <1>2, ElementOfSeq, ToSetMembers DEF TypeOK, InTable
<1>4. staying \subseteq subscribers[c] /\ going = subscribers[c] \ staying
  OBVIOUS
<1>5. staying = {} => InTable' = InTable \ {c}
  <2> SUFFICES ASSUME staying = {} PROVE InTable' = InTable \ {c}
    OBVIOUS
  <2>1. table \in Seq(Chunks) /\ IsInjective(table)
    BY Owners DEF TypeOK, OneOwner
  <2>2. ToSet(Without(table, cursor)) = ToSet(table) \ {table[cursor]}
    BY <1>2, <2>1, WithoutFacts
  <2> QED
    BY <1>1, <2>2 DEF InTable
<1> HIDE DEF c, staying, going
<1>6. staying # {} => InTable' = InTable
  BY <1>1 DEF InTable
<1>7. /\ subscribers'[c] = staying /\ \A d \in Chunks \ {c} : subscribers'[d] = subscribers[d]
      /\ \A d \in Chunks \ {c} : block'[d] = block[d] /\ (d \in undone => d \in undone')
      /\ staying # {} => block'[c] = block[c] /\ undone' = undone
  <2>1. /\ subscribers \in [Chunks -> SUBSET Players] /\ undone \subseteq Chunks
        /\ block \in [Chunks -> Blocks \cup {NoBlock}]
    BY DEF TypeOK
  <2>2. subscribers'[c] = staying /\ \A d \in Chunks \ {c} : subscribers'[d] = subscribers[d]
    BY <1>1, <1>3, <2>1
  <2>3. CASE staying = {}
    <3>1. block' = [block EXCEPT ![c] = NoBlock] /\ undone' = undone \ {c}
      BY <1>1, <2>3
    <3>2. \A d \in Chunks \ {c} : block'[d] = block[d] /\ (d \in undone => d \in undone')
      BY <2>1, <3>1
    <3> QED
      BY <2>2, <2>3, <3>2
  <2>4. CASE staying # {}
    <3>1. block' = block /\ undone' = undone
      BY <1>1, <2>4
    <3> QED
      BY <2>2, <3>1
  <2> QED
    BY <2>3, <2>4
<1>8. Unload(c) \in Packets /\ <<Unload(c)>> \in Seq(Packets) /\ going \subseteq Players
  <2>1. Air \in Blocks /\ subscribers[c] \subseteq Players
    BY <1>3 DEF TypeOK
  <2> QED
    BY <1>3, <1>4, <2>1, PacketTypes
<1>9. /\ \A q \in Players : left[q] \/ q \notin going => toClient'[q] = toClient[q]
      /\ \A q \in going \cap Players : ~left[q] => toClient'[q] = toClient[q] \o <<Unload(c)>>
  <2>1. toClient \in [Players -> Seq(Packets)]
    BY DEF TypeOK
  <2>2. /\ \A q \in Players : left[q] \/ q \notin going => SentTo(going, Unload(c))[q] = toClient[q]
        /\ \A q \in going \cap Players : ~left[q] =>
               SentTo(going, Unload(c))[q] = toClient[q] \o <<Unload(c)>>
    BY <1>8, <2>1, SentOneFacts
  <2> QED
    BY <1>1, <2>2
<1>10. ASSUME NEW q \in Players, seated'[q] /\ ~left'[q], NEW d \in Chunks
       PROVE  Follows(q, d)'
  <2>1. seated[q] /\ ~left[q] /\ Follows(q, d)
    BY <1>1, <1>10, ClientsFollowEach DEF EachFollows
  <2>2. CASE d = c /\ q \in going
    <3>1. /\ toClient'[q] = toClient[q] \o <<Unload(d)>> /\ view'[q][d] = view[q][d]
          /\ Unload(d) \in Packets
      BY <1>1, <1>8, <1>9, <2>1, <2>2
    <3>2. Due(q, d)' = Upon(Due(q, d), Unload(d), d)
      BY <3>1, DueOneMore
    <3>3. Due(q, d)' = NoBlock
      BY <3>2, UponPackets
    <3>4. ~Subscribed(q, d)'
      BY <1>4, <1>7, <2>2 DEF Subscribed
    <3> QED
      BY <3>3, <3>4 DEF Follows
  <2>3. CASE ~ (d = c /\ q \in going)
    <3>1. \/ toClient'[q] = toClient[q]
          \/ \E ms \in Seq(Packets) : toClient'[q] = toClient[q] \o ms /\ Silent(ms, d)
      BY <1>3, <1>8, <1>9, <2>1, <2>3, SilentPackets
    <3>2. CASE d = c
      <4>1. q \in staying <=> q \in subscribers[c]
        BY <1>4, <2>3, <3>2
      <4>2. Subscribed(q, d)' <=> Subscribed(q, d)
        BY <1>3, <1>5, <1>6, <1>7, <3>2, <4>1 DEF Subscribed
      <4>3. Subscribed(q, d) => block'[d] = block[d] /\ undone' = undone
        BY <1>7, <3>2, <4>1 DEF Subscribed
      <4>4. Undisturbed(q, d)
        BY <1>1, <3>1, <4>2, <4>3 DEF Undisturbed
      <4> QED
        BY <2>1, <4>4, UndisturbedFollows
    <3>3. CASE d # c
      <4>1. Subscribed(q, d)' <=> Subscribed(q, d)
        BY <1>5, <1>6, <1>7, <3>3 DEF Subscribed
      <4>2. Undisturbed(q, d)
        BY <1>1, <1>7, <3>1, <3>3, <4>1 DEF Undisturbed
      <4> QED
        BY <2>1, <4>2, UndisturbedFollows
    <3> QED
      BY <3>2, <3>3
  <2> QED
    BY <2>2, <2>3
<1> QED
  BY <1>10, ClientsFollowNext DEF EachFollows

\* A player that left is no subscriber any more.
LEMMA RemovePlayerFollows ==
    ASSUME ServerInvariant, ClientsFollow, NEW p \in Players, RemovePlayer(p)
    PROVE  ClientsFollow'
<1> USE DEF ServerInvariant
<1>1. /\ left[p]
      /\ subscribers' = [c \in Chunks |-> subscribers[c] \ {p}]
      /\ seated' = [seated EXCEPT ![p] = FALSE]
      /\ left' = [left EXCEPT ![p] = FALSE]
      /\ UNCHANGED <<table, block, undone, wireVars>>
  BY DEF RemovePlayer, Unsubscribed
<1>2. ASSUME NEW q \in Players, seated'[q] /\ ~left'[q], NEW c \in Chunks
      PROVE  Follows(q, c)'
  <2>1. q # p /\ seated[q] /\ ~left[q]
    BY <1>1, <1>2 DEF TypeOK
  <2>2. Follows(q, c)
    BY <2>1, ClientsFollowEach DEF EachFollows
  <2>3. Undisturbed(q, c)
    BY <1>1, <2>1 DEF Undisturbed, Subscribed, InTable, wireVars
  <2> QED
    BY <2>2, <2>3, UndisturbedFollows
<1> QED
  BY <1>2, ClientsFollowNext DEF EachFollows

\* A chunk is sent, and its receiver subscribes to it.
LEMMA SendMissingFollows ==
    ASSUME ServerInvariant, ClientsFollow, NEW p \in Players, NEW c \in Chunks,
           NEW more \in BOOLEAN, SendMissing(p, c, more)
    PROVE  ClientsFollow'
<1> USE DEF ServerInvariant
<1>1. /\ c \in InTable
      /\ subscribers' = [subscribers EXCEPT ![c] = subscribers[c] \cup {p}]
      /\ toClient' = SentTo({p}, Load(c, block[c]))
      /\ UNCHANGED <<table, block, undone, seated, left, toServer, view>>
  BY DEF SendMissing, playerVars
<1>2. block[c] \in Blocks
  BY <1>1 DEF LoadsAreFresh
<1>3. InTable' = InTable /\ subscribers'[c] = subscribers[c] \cup {p}
      /\ \A d \in Chunks \ {c} : subscribers'[d] = subscribers[d]
  BY <1>1 DEF InTable, TypeOK
<1>4. Load(c, block[c]) \in Packets /\ <<Load(c, block[c])>> \in Seq(Packets)
  BY <1>2, PacketTypes
<1>5. /\ \A q \in Players : left[q] \/ q \notin {p} => toClient'[q] = toClient[q]
      /\ \A q \in {p} \cap Players : ~left[q] => toClient'[q] = toClient[q] \o <<Load(c, block[c])>>
  <2>1. toClient \in [Players -> Seq(Packets)]
    BY DEF TypeOK
  <2>2. /\ \A q \in Players : left[q] \/ q \notin {p} =>
               SentTo({p}, Load(c, block[c]))[q] = toClient[q]
        /\ \A q \in {p} \cap Players : ~left[q] =>
               SentTo({p}, Load(c, block[c]))[q] = toClient[q] \o <<Load(c, block[c])>>
    BY ZenonT(60), <1>4, <2>1, SentOneFacts
  <2> QED
    BY <1>1, <2>2
<1>6. ASSUME NEW q \in Players, seated'[q] /\ ~left'[q], NEW d \in Chunks
      PROVE  Follows(q, d)'
  <2>1. seated[q] /\ ~left[q] /\ Follows(q, d)
    BY <1>1, <1>6, ClientsFollowEach DEF EachFollows
  <2>2. CASE d = c /\ q = p
    <3>1. /\ toClient'[q] = toClient[q] \o <<Load(d, block[d])>> /\ view'[q][d] = view[q][d]
          /\ Load(d, block[d]) \in Packets
      BY <1>1, <1>4, <1>5, <2>1, <2>2
    <3>2. Due(q, d)' = Upon(Due(q, d), Load(d, block[d]), d)
      BY <3>1, DueOneMore
    <3>3. Due(q, d)' = block[d] /\ block[d] \in Blocks
      BY <1>2, <2>2, <3>2, UponPackets
    <3>4. Subscribed(q, d)' /\ block'[d] = block[d]
      BY <1>1, <1>3, <2>2 DEF Subscribed
    <3> QED
      BY <3>3, <3>4 DEF Follows
  <2>3. CASE ~ (d = c /\ q = p)
    <3>1. \/ toClient'[q] = toClient[q]
          \/ \E ms \in Seq(Packets) : toClient'[q] = toClient[q] \o ms /\ Silent(ms, d)
      BY <1>4, <1>5, <2>1, <2>3, SilentPackets
    <3>2. Subscribed(q, d)' <=> Subscribed(q, d)
      BY <1>3, <2>3 DEF Subscribed
    <3>3. Undisturbed(q, d)
      BY <1>1, <3>1, <3>2 DEF Undisturbed
    <3> QED
      BY <2>1, <3>3, UndisturbedFollows
  <2> QED
    BY <2>2, <2>3
<1> QED
  BY <1>6, ClientsFollowNext DEF EachFollows

\* The packet handlers of the client do to a chunk what a packet says of it.
LEMMA ShownUpon ==
    ASSUME NEW v \in Views, NEW m \in Packets, NEW c \in Chunks
    PROVE  Shown(v, m)[c] = Upon(v[c], m, c)
<1>1. CASE m.kind = "batch"
  <2>1. Shown(v, m)[c] = IF v[c] = NoBlock \/ (\A i \in DOMAIN m.sets : m.sets[i].chunk # c)
                         THEN v[c] ELSE LastTold(m.sets, c)
    BY <1>1 DEF Shown, ShownBatch
  <2>2. /\ ~Renews(m, c) /\ Said(m, c) = LastTold(m.sets, c)
        /\ Tells(m, c) <=> ~ \A i \in DOMAIN m.sets : m.sets[i].chunk # c
    BY <1>1 DEF Renews, Tells, Said
  <2> QED
    BY <2>1, <2>2 DEF Upon
<1>2. CASE m.kind # "batch"
  <2>1. /\ m.kind \in {"load", "set", "unload"}
        /\ m.kind = "set" => m.block # Undefined
        /\ m.chunk \in Chunks
    BY <1>2 DEF Packets
  <2>2. Shown(v, m) = ShownOne(v, m)
    BY <1>2 DEF Shown
  <2> QED
    BY <1>2, <2>1, <2>2 DEF ShownOne, Upon, Renews, Tells, Said, Views
<1> QED
  BY <1>1, <1>2

\* A packet that arrives changes nothing of what will be shown.
LEMMA ClientReceiveFollows ==
    ASSUME ServerInvariant, ClientsFollow, NEW p \in Players, ClientReceive(p)
    PROVE  ClientsFollow'
<1> USE DEF ServerInvariant
<1>1. /\ toClient[p] # <<>>
      /\ view' = [view EXCEPT ![p] = Shown(view[p], Head(toClient[p]))]
      /\ toClient' = [toClient EXCEPT ![p] = Tail(toClient[p])]
      /\ UNCHANGED <<table, block, undone, subscribers, seated, left, toServer>>
  BY DEF ClientReceive, serverVars, playerVars
<1>2. ASSUME NEW q \in Players, seated'[q] /\ ~left'[q], NEW c \in Chunks
      PROVE  Follows(q, c)'
  <2>1. Follows(q, c)
    BY <1>1, <1>2, ClientsFollowEach DEF EachFollows
  <2>2. Subscribed(q, c)' <=> Subscribed(q, c)
    BY <1>1 DEF Subscribed, InTable
  <2>3. CASE q # p
    <3>1. view'[q] = view[q] /\ toClient'[q] = toClient[q]
      BY <1>1, <2>3 DEF TypeOK
    <3>2. Undisturbed(q, c)
      BY <1>1, <2>2, <3>1 DEF Undisturbed
    <3> QED
      BY <2>1, <3>2, UndisturbedFollows
  <2>4. CASE q = p
    <3>1. /\ toClient[q] # <<>> /\ toClient[q] \in Seq(Packets)
          /\ view[q] \in Views /\ view[q][c] \in Blocks \cup {Undefined, NoBlock}
      BY <1>1, <2>4, ClientTypes
    <3>2. /\ view'[q] = Shown(view[q], Head(toClient[q]))
          /\ toClient'[q] = Tail(toClient[q])
      BY <1>1, <2>4 DEF TypeOK
    <3>3. Head(toClient[q]) \in Packets
      BY <3>1, HeadTailProperties
    <3>4. view'[q][c] = Upon(view[q][c], Head(toClient[q]), c)
      BY <3>1, <3>2, <3>3, ShownUpon
    <3>5. /\ After(view[q][c], toClient[q], c) =
                 After(Upon(view[q][c], Head(toClient[q]), c), Tail(toClient[q]), c)
          /\ Silent(toClient[q], c) => Silent(Tail(toClient[q]), c)
      BY <3>1, AfterFirst
    <3>6. Due(q, c)' = Due(q, c)
      BY <3>2, <3>4, <3>5 DEF Due
    <3>7. Silent(toClient[q], c) => Silent(toClient[q], c)'
      BY <3>2, <3>5 DEF Silent
    <3>8. /\ Pending(q, c)' <=> Pending(q, c)
          /\ UNCHANGED <<block, undone, toServer>>
      BY <1>1 DEF Pending
    <3> QED
      BY <2>1, <2>2, <3>6, <3>7, <3>8 DEF Follows
  <2> QED
    BY <2>3, <2>4
<1> QED
  BY <1>2, ClientsFollowNext DEF EachFollows

\* A new edit of a client's own is the last one it made on that chunk.
LEMMA PendingMore ==
    ASSUME NEW es \in Seq(ClientEdits), NEW e \in ClientEdits, NEW d
    PROVE  /\ e.chunk = d =>
                 /\ \E i \in DOMAIN Append(es, e) : Append(es, e)[i].chunk = d
                 /\ LastTold(Append(es, e), d) = e.block
           /\ e.chunk # d /\ (\E i \in DOMAIN es : es[i].chunk = d) =>
                 /\ \E i \in DOMAIN Append(es, e) : Append(es, e)[i].chunk = d
                 /\ LastTold(Append(es, e), d) = LastTold(es, d)
<1> DEFINE h == <<e>>
<1>1. h \in Seq(ClientEdits) /\ DOMAIN h = {1} /\ h[1] = e
  OBVIOUS
<1>2. Append(es, e) = es \o h
  BY AppendIsConcat
<1> HIDE DEF h
<1>3. /\ (\E i \in DOMAIN (es \o h) : (es \o h)[i].chunk = d) <=>
             \/ \E i \in DOMAIN es : es[i].chunk = d
             \/ \E i \in DOMAIN h : h[i].chunk = d
      /\ (\E i \in DOMAIN h : h[i].chunk = d) => LastTold(es \o h, d) = LastTold(h, d)
      /\ (\E i \in DOMAIN es : es[i].chunk = d) /\ ~ (\E i \in DOMAIN h : h[i].chunk = d) =>
             LastTold(es \o h, d) = LastTold(es, d)
  <2>1. es \in Seq(ClientEdits) /\ h \in Seq(ClientEdits)
    BY <1>1
  <2> QED
    BY ONLY <2>1, LastToldConcat
<1>4. (\E i \in DOMAIN h : h[i].chunk = d) <=> e.chunk = d
  BY <1>1
<1>5. e.chunk = d => LastTold(h, d) = e.block
  <2> SUFFICES ASSUME e.chunk = d PROVE LastTold(h, d) = e.block
    OBVIOUS
  <2>1. 1 \in DOMAIN h /\ h[1].chunk = d
    BY <1>1
  <2>2. \E k \in DOMAIN h : LastTold(h, d) = h[k].block
    BY <1>1, <2>1, LastToldFacts
  <2> QED
    BY <1>1, <2>2
<1> QED
  BY <1>2, <1>3, <1>4, <1>5

\* A player edits its own copy first.
LEMMA ClientEditFollows ==
    ASSUME ServerInvariant, ClientsFollow, NEW p \in Players, NEW c \in Chunks,
           NEW b \in Blocks \cup {Undefined}, ClientEdit(p, c, b)
    PROVE  ClientsFollow'
<1> USE DEF ServerInvariant
<1>1. /\ view' = IF view[p][c] = NoBlock THEN view ELSE [view EXCEPT ![p][c] = b]
      /\ toServer' = [toServer EXCEPT ![p] = Append(toServer[p], SetTo(c, b))]
      /\ UNCHANGED <<toClient, table, block, undone, subscribers, seated, left>>
  BY DEF ClientEdit, serverVars, playerVars
<1>2. ASSUME NEW q \in Players, seated'[q] /\ ~left'[q], NEW d \in Chunks
      PROVE  Follows(q, d)'
  <2>1. Follows(q, d)
    BY <1>1, <1>2, ClientsFollowEach DEF EachFollows
  <2>2. Subscribed(q, d)' <=> Subscribed(q, d)
    BY <1>1 DEF Subscribed, InTable
  <2>3. CASE q # p
    <3>1. view'[q] = view[q] /\ toServer'[q] = toServer[q]
      BY <1>1, <2>3 DEF TypeOK
    <3>2. Undisturbed(q, d)
      BY <1>1, <2>2, <3>1 DEF Undisturbed
    <3> QED
      BY <2>1, <3>2, UndisturbedFollows
  <2>4. CASE q = p
    <3> DEFINE sent == toServer[q]
    <3>1. /\ sent \in Seq(ClientEdits) /\ toClient[q] \in Seq(Packets)
          /\ view[q] \in Views /\ view[q][d] \in Blocks \cup {Undefined, NoBlock}
      BY ClientTypes
    <3>2. toServer'[q] = Append(sent, SetTo(c, b))
      BY <1>1, <2>4 DEF TypeOK
    <3>3. view'[q][d] = IF d = c /\ view[q][d] # NoBlock THEN b ELSE view[q][d]
      BY <1>1, <2>4, <3>1 DEF TypeOK, Views
    <3> HIDE DEF sent
    <3>4. /\ d = c => Pending(q, d)' /\ LastTold(toServer'[q], d) = b
          /\ d # c /\ Pending(q, d) =>
                Pending(q, d)' /\ LastTold(toServer'[q], d) = LastTold(toServer[q], d)
      <4> DEFINE e == SetTo(c, b)
      <4>1. e \in ClientEdits /\ e.chunk = c /\ e.block = b
        BY DEF SetTo, ClientEdits
      <4>2. toServer'[q] = Append(sent, e)
        BY <3>2
      <4>3. /\ Pending(q, d) <=> \E i \in DOMAIN sent : sent[i].chunk = d
            /\ toServer[q] = sent
        BY DEF Pending, sent
      <4> HIDE DEF e
      <4>4. Pending(q, d)' <=> \E i \in DOMAIN Append(sent, e) : Append(sent, e)[i].chunk = d
        BY <4>2 DEF Pending
      <4>5. /\ e.chunk = d =>
                  /\ \E i \in DOMAIN Append(sent, e) : Append(sent, e)[i].chunk = d
                  /\ LastTold(Append(sent, e), d) = e.block
            /\ e.chunk # d /\ (\E i \in DOMAIN sent : sent[i].chunk = d) =>
                  /\ \E i \in DOMAIN Append(sent, e) : Append(sent, e)[i].chunk = d
                  /\ LastTold(Append(sent, e), d) = LastTold(sent, d)
        <5>1. sent \in Seq(ClientEdits)
          BY <3>1
        <5>2. e \in ClientEdits
          BY <4>1
        <5> QED
          BY ONLY <5>1, <5>2, PendingMore, ZenonT(30)
      <4> QED
        BY <4>1, <4>2, <4>3, <4>4, <4>5
    <3>5. CASE d # c
      <4>1. Undisturbed(q, d)
        BY <1>1, <2>2, <3>3, <3>4, <3>5 DEF Undisturbed
      <4> QED
        BY <2>1, <4>1, UndisturbedFollows
    <3>6. CASE d = c
      <4>1. Silent(toClient[q], d)' <=> Silent(toClient[q], d)
        BY <1>1 DEF Silent
      <4>2. toClient'[q] = toClient[q] /\ block' = block /\ undone' = undone
        BY <1>1
      <4>3. CASE Silent(toClient[q], d)
        <5>1. Due(q, d) = view[q][d] /\ Due(q, d)' = view'[q][d]
          <6>1. /\ After(view[q][d], toClient[q], d) = view[q][d]
                /\ After(view'[q][d], toClient[q], d) = view'[q][d]
            BY <4>3, AfterSilence
          <6> QED
            BY <4>2, <6>1 DEF Due
        <5>2. Due(q, d)' = IF Due(q, d) # NoBlock THEN b ELSE NoBlock
          BY <3>3, <3>6, <5>1
        <5>3. b # NoBlock
          OBVIOUS
        <5> QED
          BY <2>1, <2>2, <3>4, <3>6, <4>1, <4>2, <4>3, <5>2, <5>3 DEF Follows
      <4>4. CASE ~ Silent(toClient[q], d)
        <5>1. Due(q, d)' = Due(q, d)
          <6>1. CASE view[q][d] = NoBlock
            BY <3>3, <4>2, <6>1 DEF Due
          <6>2. CASE view[q][d] # NoBlock
            <7>1. view'[q][d] = b /\ b # NoBlock
              BY <3>3, <3>6, <6>2
            <7>2. After(b, toClient[q], d) = After(view[q][d], toClient[q], d)
              BY <3>1, <4>4, <6>2, <7>1, AfterAnything
            <7> QED
              BY <4>2, <7>1, <7>2 DEF Due
          <6> QED
            BY <6>1, <6>2
        <5> QED
          BY <2>1, <2>2, <4>2, <4>4, <5>1 DEF Follows
      <4> QED
        BY <4>3, <4>4
    <3> QED
      BY <3>5, <3>6
  <2> QED
    BY <2>3, <2>4
<1> QED
  BY <1>2, ClientsFollowNext DEF EachFollows

----------------------------------------------------------------------------
(* The theorems.                                                           *)

\* Nobody is there at first.
LEMMA InitFollows == Init => ClientsFollow
  BY DEF Init, ClientsFollow

\* Every step keeps the clients' part.
LEMMA ClientsStep == ServerInvariant /\ ClientsFollow /\ [Next]_vars => ClientsFollow'
<1> SUFFICES ASSUME ServerInvariant, ClientsFollow, [Next]_vars PROVE ClientsFollow'
  OBVIOUS
<1>1. TypeOK
  BY DEF ServerInvariant
<1>2. CASE UNCHANGED vars
  <2>1. /\ UNCHANGED <<serverVars, wireVars>>
        /\ \A p \in Players : seated'[p] /\ ~left'[p] => seated[p] /\ ~left[p]
    BY <1>2 DEF vars, playerVars
  <2> QED
    BY <1>1, <2>1, ClientsFrame
<1>3. CASE LoaderStep
  <2>1. /\ UNCHANGED <<serverVars, wireVars>>
        /\ \A p \in Players : seated'[p] /\ ~left'[p] => seated[p] /\ ~left[p]
    BY <1>3 DEF LoaderStep, LoaderTakes, LoaderCreates, LoaderPublishes, LoaderExits, playerVars
  <2> QED
    BY <1>1, <2>1, ClientsFrame
<1>4. CASE PacketStep
  <2>1. ASSUME NEW p \in Players, NEW at \in Places, Move(p, at)
        PROVE  ClientsFollow'
    <3>1. /\ UNCHANGED <<serverVars, wireVars>>
          /\ \A q \in Players : seated'[q] /\ ~left'[q] => seated[q] /\ ~left[q]
      BY <2>1 DEF Move
    <3> QED
      BY <1>1, <3>1, ClientsFrame
  <2> QED
    BY <1>4, <2>1, JoinFollows, HandleSetBlockFollows, ScriptSetBlockFollows,
       ScriptSetBlocksFollows DEF PacketStep
<1>5. CASE UpdateStep
  <2>1. ASSUME TakeResults \/ Delivered \/ Unloaded \/ Updated
        PROVE  ClientsFollow'
    <3>1. /\ UNCHANGED <<serverVars, wireVars>>
          /\ \A p \in Players : seated'[p] /\ ~left'[p] => seated[p] /\ ~left[p]
      BY <2>1 DEF TakeResults, Delivered, Unloaded, Updated, playerVars
    <3> QED
      BY <1>1, <3>1, ClientsFrame
  <2>2. ASSUME NEW p \in Players, Waiting(p) \/ \E c \in Chunks : RequestMissing(p, c)
        PROVE  ClientsFollow'
    <3>1. /\ UNCHANGED <<serverVars, wireVars>>
          /\ \A q \in Players : seated'[q] /\ ~left'[q] => seated[q] /\ ~left[q]
      BY <2>2 DEF Waiting, RequestMissing, playerVars
    <3> QED
      BY <1>1, <3>1, ClientsFrame
  <2> QED
    BY <1>5, <2>1, <2>2, DeliverFollows, VisitChunkFollows, RemovePlayerFollows,
       SendMissingFollows DEF UpdateStep
<1>6. CASE ClientStep
  BY <1>6, ClientReceiveFollows, HangUpFollows, ClientEditFollows DEF ClientStep
<1>7. CASE StopServer \/ Crash
  BY <1>7, NobodyFollows DEF StopServer, Crash, PlayersGone
<1>8. CASE ClosingStep
  <2>1. CASE StopLoader \/ LoaderJoined \/ Closed
    <3>1. /\ UNCHANGED <<serverVars, wireVars>>
          /\ \A p \in Players : seated'[p] /\ ~left'[p] => seated[p] /\ ~left[p]
      BY <2>1 DEF StopLoader, LoaderJoined, Closed, playerVars
    <3> QED
      BY <1>1, <3>1, ClientsFrame
  <2>2. CASE CloseChunk
    <3>1. Seated = {} /\ seated' = seated
      BY <2>2 DEF CloseChunk, playerVars, ServerInvariant, PlayersInPlace, Ending
    <3> QED
      BY <3>1, NobodyFollows DEF Seated
  <2> QED
    BY <1>8, <2>1, <2>2 DEF ClosingStep
<1>9. CASE \E g \in Generators : Restart(g)
  <2>1. /\ UNCHANGED <<serverVars, wireVars>>
        /\ \A p \in Players : seated'[p] /\ ~left'[p] => seated[p] /\ ~left[p]
    BY <1>9 DEF Restart, playerVars
  <2> QED
    BY <1>1, <2>1, ClientsFrame
<1> QED
  BY <1>2, <1>3, <1>4, <1>5, <1>6, <1>7, <1>8, <1>9 DEF Next, Restarts

\* Every variable of the chunk manager, the loader and the clients keeps its
\* type, whatever the interleaving.
THEOREM TypeCorrect == Spec => []TypeOK
<1>1. ServerInvariant => TypeOK
  BY DEF ServerInvariant
<1> QED
  BY <1>1, ServerInvariantHolds, PTL

\* The invariant of the chunk manager, its loader thread and the clients: a
\* chunk has one owner, whoever waits for one waits for one on its way, loads
\* bring what the disk holds, and each client is about to show the chunks it
\* is subscribed to, with the server's block or an edit of its own.
THEOREM StreamingInvariantHolds == Spec => []StreamingInvariant
<1>1. StreamingInvariant <=> ServerInvariant /\ ClientsFollow
  BY DEF StreamingInvariant, ServerInvariant
<1>2. Init => ClientsFollow
  BY InitFollows
<1>3. ServerInvariant /\ ClientsFollow /\ [Next]_vars => ClientsFollow'
  BY ClientsStep
<1> QED
  BY <1>1, <1>2, <1>3, ServerInvariantHolds, PTL DEF Spec

\* A client whose edits have all reached the server is about to show exactly
\* the chunks it is subscribed to, each as the server holds it, but for those
\* where a set_blocks told an older block last.
THEOREM ClientSeesWorldHolds == Spec => []ClientSeesWorld
<1>1. StreamingInvariant => ClientSeesWorld
  <2> SUFFICES ASSUME StreamingInvariant, NEW p \in Players, seated[p] /\ ~left[p],
                      toServer[p] = <<>>, NEW c \in Chunks \ undone
               PROVE  WillShow(p)[c] = IF Subscribed(p, c) THEN block[c] ELSE NoBlock
    BY DEF ClientSeesWorld
  <2>1. /\ WillShow(p)[c] = NoBlock <=> ~Subscribed(p, c)
        /\ Subscribed(p, c) /\ c \notin undone /\ WillShow(p)[c] # block[c] =>
              {i \in DOMAIN toServer[p] : toServer[p][i].chunk = c} # {}
    BY DEF StreamingInvariant, ClientsFollow
  <2>2. {i \in DOMAIN toServer[p] : toServer[p][i].chunk = c} = {}
    OBVIOUS
  <2> QED
    BY <2>1, <2>2
<1> QED
  BY <1>1, StreamingInvariantHolds, PTL

\* A step that writes a file writes that of a chunk in memory, or is a crash.
LEMMA FileSteps ==
    ASSUME ServerInvariant, [Next]_vars, file' # file
    PROVE  \/ Crash
           \/ \E x \in InTable : file' = Saved(x) /\ UNCHANGED <<generator, busy>>
<1>1. CASE VisitChunk
  <2> DEFINE x == table[cursor]
  <2>1. file' = Saved(x) /\ UNCHANGED <<generator, busy>>
    BY <1>1 DEF VisitChunk, loaderVars
  <2>2. x \in InTable
    <3>1. cursor \in Nat \ {0} /\ table \in Seq(Chunks) /\ cursor <= Len(table)
      BY <1>1 DEF VisitChunk, ServerInvariant, TypeOK
    <3>2. cursor \in 1 .. Len(table)
      BY <3>1, LenProperties
    <3> QED
      BY <3>1, <3>2, ToSetMembers DEF InTable
  <2> QED
    BY <2>1, <2>2
<1>2. CASE CloseChunk
  <2>1. file' = Saved(Last(table)) /\ UNCHANGED <<generator, busy>> /\ table # <<>>
    BY <1>2 DEF CloseChunk, loaderVars
  <2>2. table \in Seq(Chunks) /\ IsInjective(table)
    BY Owners DEF ServerInvariant, TypeOK, OneOwner
  <2>3. Last(table) \in InTable
    BY <2>1, <2>2, FrontFacts DEF InTable
  <2> QED
    BY <2>1, <2>3
<1>3. CASE LoaderStep
  BY <1>3 DEF LoaderStep, LoaderTakes, LoaderCreates, LoaderPublishes, LoaderExits
<1>4. CASE PacketStep
  <2>1. ASSUME NEW p \in Players, Join(p) PROVE UNCHANGED file
    BY <2>1 DEF Join
  <2>2. ASSUME NEW p \in Players, HandleSetBlock(p) PROVE UNCHANGED file
    BY <2>2 DEF HandleSetBlock
  <2>3. ASSUME NEW p \in Players, NEW at \in Places, Move(p, at) PROVE UNCHANGED file
    BY <2>3 DEF Move
  <2>4. ASSUME NEW d \in Chunks, NEW b \in Blocks, ScriptSetBlock(d, b)
        PROVE  UNCHANGED file
    BY <2>4 DEF ScriptSetBlock
  <2>5. ASSUME NEW first \in Edits, NEW second \in Edits, NEW a \in Edits, NEW i \in 1 .. 2,
               ScriptSetBlocks(first, second, i, a)
        PROVE  UNCHANGED file
    BY <2>5 DEF ScriptSetBlocks
  <2> QED
    BY <1>4, <2>1, <2>2, <2>3, <2>4, <2>5 DEF PacketStep
<1>5. CASE UpdateStep
  BY <1>1, <1>5 DEF UpdateStep, TakeResults, Deliver, Delivered, Unloaded, RemovePlayer,
     Waiting, RequestMissing, SendMissing, Updated
<1>6. CASE ClientStep
  BY <1>6 DEF ClientStep, ClientReceive, HangUp, ClientEdit
<1>7. CASE StopServer
  BY <1>7 DEF StopServer
<1>8. CASE ClosingStep
  BY <1>2, <1>8 DEF ClosingStep, StopLoader, LoaderJoined, Closed
<1>9. CASE \E g \in Generators : Restart(g)
  BY <1>9 DEF Restart
<1>10. CASE UNCHANGED vars
  BY <1>10 DEF vars
<1> QED
  BY <1>3, <1>4, <1>5, <1>6, <1>7, <1>8, <1>9, <1>10 DEF Next, Restarts

\* The chunk in the loader's hands is not in the table, so nobody else writes
\* its file.
THEOREM LoaderOwnsItsFileHolds == Spec => LoaderOwnsItsFile
<1>1. ASSUME ServerInvariant, [Next]_vars
      PROVE  \A c \in Chunks : file'[c] # file[c] => busy # c
  <2> SUFFICES ASSUME NEW c \in Chunks, file'[c] # file[c] PROVE busy # c
    OBVIOUS
  <2>1. \A x \in InTable : busy # x
    <3>1. OneOwner(requests, busy, ChunksOf(results), ChunksOf(taken), table)
      BY <1>1, Owners DEF ServerInvariant
    <3> QED
      BY <3>1 DEF OneOwner, InTable
  <2>2. file \in [Chunks -> Blocks \cup {NoBlock}]
    BY <1>1 DEF ServerInvariant, TypeOK
  <2>3. CASE \E x \in InTable : file' = Saved(x)
    BY <2>1, <2>2, <2>3 DEF Saved
  <2>4. CASE Crash
    <3>1. file' = file \/ \E x \in BeingWritten : file' = TornFile(x)
      BY <2>4 DEF Crash
    <3>2. BeingWritten \subseteq InTable
      BY DEF BeingWritten
    <3> QED
      BY <2>1, <2>2, <3>1, <3>2 DEF TornFile
  <2> QED
    BY <1>1, <2>3, <2>4, FileSteps
<1>2. ServerInvariant /\ [Next]_vars =>
          [\A c \in Chunks : file'[c] # file[c] => busy # c]_vars
  BY <1>1
<1> QED
  BY <1>2, ServerInvariantHolds, PTL DEF Spec, LoaderOwnsItsFile

\* An edit: blocks of chunks in memory change, which are marked to be saved, by a
\* script, or to what a client has asked for.
EditsBlocks ==
    /\ UNCHANGED <<table, file, generator>>
    /\ \A c \in Chunks : block'[c] # block[c] =>
          c \in InTable /\ modified'[c] /\ EditsTo(c, block'[c])

\* What ServerWorld_SetBlock changes is the block of one chunk in memory.
LEMMA WriteChanges ==
    ASSUME TypeOK, NEW d \in Chunks, NEW b, Write(d, b),
           NEW c \in Chunks, block'[c] # block[c]
    PROVE  c = d /\ c \in InTable /\ modified'[c] /\ block'[c] = b
  BY DEF Write, TypeOK

\* The packet of a client's edit: only the chunk it names changes.
LEMMA HandleSetBlockEdits ==
    ASSUME ServerInvariant, NEW p \in Players, HandleSetBlock(p)
    PROVE  EditsBlocks
<1> DEFINE e == Head(toServer[p])
<1>1. toServer \in [Players -> Seq(ClientEdits)] /\ TypeOK
  BY DEF ServerInvariant, TypeOK
<1>2. toServer[p] # <<>> /\ e \in ClientEdits
  BY <1>1, HeadTailProperties DEF HandleSetBlock
<1>3. e.chunk \in Chunks
  BY <1>2 DEF ClientEdits
<1>4. toServer'[p] = Tail(toServer[p])
  BY <1>1 DEF HandleSetBlock
<1>5. UNCHANGED block \/ Write(e.chunk, e.block)
  BY DEF HandleSetBlock
<1>6. ASSUME NEW c \in Chunks, block'[c] # block[c]
      PROVE  c \in InTable /\ modified'[c] /\ EditsTo(c, block'[c])
  <2>1. Write(e.chunk, e.block)
    BY <1>5, <1>6
  <2>2. c = e.chunk /\ c \in InTable /\ modified'[c] /\ block'[c] = e.block
    BY <1>1, <1>3, <1>6, <2>1, WriteChanges
  <2> QED
    BY <1>2, <1>4, <2>2 DEF EditsTo
<1> QED
  BY <1>6 DEF EditsBlocks, HandleSetBlock

\* A script may edit: the counter of edits goes up.
LEMMA EditsUp == ASSUME TypeOK, edits' = edits + 1 PROVE edits' > edits
<1>1. edits \in Nat
  BY DEF TypeOK
<1> QED
  BY <1>1

\* set_block: one chunk changes.
LEMMA ScriptSetBlockEdits ==
    ASSUME ServerInvariant, NEW d \in Chunks, NEW b \in Blocks, ScriptSetBlock(d, b)
    PROVE  EditsBlocks
<1>1. TypeOK
  BY DEF ServerInvariant
<1>2. ScriptMayRun /\ edits' > edits /\ Write(d, b)
  BY <1>1, EditsUp DEF ScriptSetBlock
<1> QED
  BY <1>1, <1>2, WriteChanges DEF EditsBlocks, EditsTo, ScriptSetBlock

\* set_blocks: what it and its callback set is in memory and marked.
LEMMA ScriptSetBlocksEdits ==
    ASSUME ServerInvariant, NEW first \in Edits, NEW second \in Edits, NEW i,
           NEW answer \in Edits, ScriptSetBlocks(first, second, i, answer)
    PROVE  EditsBlocks
<1> DEFINE end == End(first, second, i, answer)
<1>1. Progress(end)
  BY EndProgress DEF ServerInvariant
<1>2. block' = end.block /\ modified' = end.modified
  BY DEF ScriptSetBlocks, End, Start3
<1> HIDE DEF end
<1>3. ScriptMayRun /\ edits' > edits
  BY EditsUp DEF ScriptSetBlocks, ServerInvariant
<1>4. \A c \in Chunks : block'[c] # block[c] => c \in InTable /\ modified'[c]
  BY <1>1, <1>2 DEF Progress
<1> QED
  BY <1>3, <1>4 DEF EditsBlocks, EditsTo, ScriptSetBlocks

\* A step of the server's store: it edits, loses everything, takes up a load,
\* lets a chunk go, or touches nothing.
Drops(d) ==
    /\ file' = Saved(d) /\ UNCHANGED <<generator, busy>>
    /\ InTable' = InTable \ {d}
    /\ \A e \in Chunks \ {d} : block'[e] = block[e]

\* Which steps touch the table, its blocks or the files.
LEMMA StoreSteps ==
    ASSUME ServerInvariant, [Next]_vars
    PROVE  \/ EditsBlocks
           \/ Crash
           \/ Deliver
           \/ \E d \in InTable : Drops(d)
           \/ UNCHANGED <<table, block, file, generator>>
<1>1. CASE VisitChunk
  <2> DEFINE d == table[cursor]
  <2>1. cursor \in 1 .. Len(table) /\ table \in Seq(Chunks) /\ IsInjective(table)
    <3>1. cursor \in Nat \ {0} /\ table \in Seq(Chunks) /\ cursor <= Len(table)
      BY <1>1 DEF VisitChunk, ServerInvariant, TypeOK
    <3>2. IsInjective(table)
      BY Owners DEF ServerInvariant, OneOwner
    <3> QED
      BY <3>1, <3>2, LenProperties
  <2>2. d \in InTable
    BY <2>1, ToSetMembers DEF InTable
  <2>3. CASE UNCHANGED <<table, file, block>>
    BY <1>1, <2>3 DEF VisitChunk
  <2>4. CASE /\ table' = Deleted(cursor) /\ file' = Saved(d)
             /\ block' = [block EXCEPT ![d] = NoBlock]
    <3>1. table' = Without(table, cursor)
      BY <2>4 DEF Deleted, Without
    <3>2. ToSet(table') = InTable \ {d}
      BY <2>1, <3>1, WithoutFacts DEF InTable
    <3>3. \A e \in Chunks \ {d} : block'[e] = block[e]
      BY <2>4 DEF ServerInvariant, TypeOK
    <3>4. UNCHANGED <<generator, busy>>
      BY <1>1 DEF VisitChunk, loaderVars
    <3>5. Drops(d)
      BY <2>4, <3>2, <3>3, <3>4 DEF Drops, InTable
    <3> QED
      BY <2>2, <3>5
  <2> QED
    BY <1>1, <2>3, <2>4 DEF VisitChunk
<1>2. CASE CloseChunk
  <2> DEFINE d == Last(table)
  <2>1. /\ table # <<>> /\ table' = Front(table) /\ file' = Saved(d)
        /\ block' = [block EXCEPT ![d] = NoBlock] /\ UNCHANGED <<generator, busy>>
    BY <1>2 DEF CloseChunk, loaderVars
  <2>2. table \in Seq(Chunks) /\ IsInjective(table)
    BY Owners DEF ServerInvariant, TypeOK, OneOwner
  <2>3. d \in InTable /\ ToSet(table') = InTable \ {d}
    BY <2>1, <2>2, FrontFacts DEF InTable
  <2>4. \A e \in Chunks \ {d} : block'[e] = block[e]
    BY <2>1 DEF ServerInvariant, TypeOK
  <2>5. Drops(d)
    BY <2>1, <2>3, <2>4 DEF Drops, InTable
  <2> QED
    BY <2>3, <2>5
<1>3. CASE LoaderStep
  BY <1>3 DEF LoaderStep, LoaderTakes, LoaderCreates, LoaderPublishes, LoaderExits, serverVars
<1>4. CASE PacketStep
  <2>1. ASSUME NEW p \in Players, Join(p)
        PROVE  UNCHANGED <<table, block, file, generator>>
    BY <2>1 DEF Join, serverVars
  <2>2. ASSUME NEW p \in Players, NEW at \in Places, Move(p, at)
        PROVE  UNCHANGED <<table, block, file, generator>>
    BY <2>2 DEF Move, serverVars
  <2> QED
    BY <1>4, <2>1, <2>2, HandleSetBlockEdits, ScriptSetBlockEdits, ScriptSetBlocksEdits
       DEF PacketStep
<1>5. CASE UpdateStep
  <2>1. CASE TakeResults \/ Delivered \/ Unloaded \/ Updated
    BY <2>1 DEF TakeResults, Delivered, Unloaded, Updated, serverVars
  <2>2. CASE \E p \in Players : RemovePlayer(p) \/ Waiting(p)
    BY <2>2 DEF RemovePlayer, Waiting, serverVars
  <2>3. CASE \E p \in Players, d \in Chunks : RequestMissing(p, d)
    BY <2>3 DEF RequestMissing, serverVars
  <2>4. CASE \E p \in Players, d \in Chunks, more \in BOOLEAN : SendMissing(p, d, more)
    BY <2>4 DEF SendMissing
  <2> QED
    BY <1>1, <1>5, <2>1, <2>2, <2>3, <2>4 DEF UpdateStep
<1>6. CASE ClientStep
  BY <1>6 DEF ClientStep, ClientReceive, HangUp, ClientEdit, serverVars
<1>7. CASE StopServer
  BY <1>7 DEF StopServer, serverVars
<1>8. CASE ClosingStep
  BY <1>2, <1>8 DEF ClosingStep, StopLoader, LoaderJoined, Closed, serverVars
<1>9. CASE \E g \in Generators : Restart(g)
  BY <1>9 DEF Restart, Worldgen_Freeze, serverVars
<1>10. CASE UNCHANGED vars
  BY <1>10 DEF vars, serverVars
<1> QED
  BY <1>3, <1>4, <1>5, <1>6, <1>7, <1>8, <1>9, <1>10 DEF Next, Restarts

\* A chunk's content changes only by an edit, which marks it to be saved, or in a
\* crash that loses edits not yet saved: not by unloading, reloading, an orderly
\* shutdown or a start, whatever callbacks edit while the last players leave.
THEOREM ContentChangesOnlyByEditsHolds == Spec => ContentChangesOnlyByEdits
<1>1. ASSUME ServerInvariant, [Next]_vars, NEW c \in Chunks, Content(c)' # Content(c)
      PROVE  \/ c \in InTable /\ modified'[c] /\ EditsTo(c, Content(c)')
             \/ modified[c] /\ restarts' > restarts /\ step' = "down"
  <2> USE <1>1 DEF ServerInvariant
  <2>1. InTable \subseteq Chunks
    BY ToSetMembers DEF TypeOK, InTable
  <2>2. CASE UNCHANGED <<table, block, file, generator>>
    BY <1>1, <2>2 DEF Content, OnDisk, InTable
  <2>3. CASE Deliver
    <3> DEFINE d == Head(taken).chunk
    <3>1. /\ taken # <<>> /\ UNCHANGED <<file, generator>>
      BY <2>3 DEF Deliver
    <3>2. d \in Chunks /\ d \notin InTable /\ Head(taken).block = OnDisk(d)
      BY <3>1, DeliverFacts
    <3>3. table' = Append(table, d) /\ block' = [block EXCEPT ![d] = Head(taken).block]
      BY <2>3, <3>2 DEF Deliver
    <3>4. InTable' = InTable \cup {d}
      <4>1. table \in Seq(Chunks)
        BY DEF TypeOK
      <4>2. ToSet(Append(table, d)) = ToSet(table) \cup {d}
        BY <3>2, <4>1, AppendFacts
      <4> QED
        BY <3>3, <4>2 DEF InTable
    <3>5. OnDisk(c)' = OnDisk(c)
      BY <3>1 DEF OnDisk
    <3>6. CASE c = d
      <4>1. block'[c] = OnDisk(c)
        BY <3>2, <3>3, <3>6 DEF TypeOK
      <4> QED
        BY <1>1, <3>2, <3>4, <3>6, <4>1 DEF Content
    <3>7. CASE c # d
      <4>1. block'[c] = block[c]
        BY <3>3, <3>7 DEF TypeOK
      <4> QED
        BY <1>1, <3>4, <3>5, <3>7, <4>1 DEF Content
    <3> QED
      BY <3>6, <3>7
  <2>4. ASSUME NEW d \in InTable, Drops(d) PROVE FALSE
    <3>1. /\ d \in Chunks /\ OnDisk(d)' = block[d]
          /\ \A e \in Chunks \ {d} : OnDisk(e)' = OnDisk(e)
      BY <2>4, SavedFacts DEF Drops
    <3>2. CASE c = d
      BY <1>1, <2>4, <3>1, <3>2 DEF Drops, Content
    <3>3. CASE c # d
      BY <1>1, <2>4, <3>1, <3>3 DEF Drops, Content
    <3> QED
      BY <3>2, <3>3
  <2>5. CASE Crash
    <3>1. /\ table' = <<>> /\ generator' = generator /\ restarts' = restarts + 1
          /\ step' = "down"
      BY <2>5 DEF Crash
    <3>2. file' = file \/ \E x \in BeingWritten : file' = TornFile(x)
      BY <2>5 DEF Crash
    <3>3. restarts' > restarts
      <4>1. restarts \in Nat
        BY DEF TypeOK
      <4> QED
        BY ONLY <3>1, <4>1
    <3>4. ASSUME ~modified[c] PROVE FALSE
      <4>1. file'[c] = file[c]
        <5>1. c \notin BeingWritten
          BY <3>4 DEF BeingWritten
        <5>2. file \in [Chunks -> Blocks \cup {NoBlock}]
          BY DEF TypeOK
        <5>3. ASSUME NEW x, x # c PROVE TornFile(x)[c] = file[c]
          BY <5>2, <5>3 DEF TornFile
        <5> QED
          BY <3>2, <5>1, <5>3
      <4>2. OnDisk(c)' = OnDisk(c)
        BY <3>1, <4>1 DEF OnDisk
      <4>3. Content(c) = OnDisk(c)
        BY <3>4 DEF Content, LoadsAreFresh
      <4>4. c \notin InTable'
        BY <3>1, EmptyFacts DEF InTable
      <4> QED
        BY <1>1, <4>2, <4>3, <4>4 DEF Content
    <3> QED
      BY <3>1, <3>3, <3>4
  <2>6. CASE EditsBlocks
    <3>1. InTable' = InTable /\ OnDisk(c)' = OnDisk(c)
      BY <2>6 DEF EditsBlocks, InTable, OnDisk
    <3>2. c \in InTable /\ block'[c] # block[c] /\ Content(c)' = block'[c]
      BY <1>1, <3>1 DEF Content
    <3> QED
      BY <2>6, <3>2 DEF EditsBlocks
  <2> QED
    BY <1>1, <2>2, <2>3, <2>4, <2>5, <2>6, StoreSteps
<1>2. ServerInvariant /\ [Next]_vars =>
          [\A c \in Chunks : Content(c)' # Content(c) =>
              \/ c \in InTable /\ modified'[c] /\ EditsTo(c, Content(c)')
              \/ modified[c] /\ restarts' > restarts /\ step' = "down"]_vars
  BY <1>1
<1> QED
  BY <1>2, ServerInvariantHolds, PTL DEF Spec, ContentChangesOnlyByEdits
=============================================================================
