----------------------- MODULE TextureTransferProofs -----------------------
(***************************************************************************)
(* Proofs about the transfer of textures, for any number of players,       *)
(* textures, models, revisions and timeouts.  No step looks at more than   *)
(* one player's connection, so the invariant is stated of one connection,  *)
(* as a predicate of the values at its two ends, and each way a step can   *)
(* change them is a lemma about these values: a packet is sent, a packet   *)
(* arrives, an answer arrives, a file is replaced.                         *)
(***************************************************************************)
EXTENDS TextureTransfer, SequenceFacts, FiniteSetTheorems

USE TransferAssumption

----------------------------------------------------------------------------
(* A connection: the server's files f, and of the player what is served s, *)
(* what was sent sn, the packets ms and the answers acks on their way, the *)
(* client c, and the transfers l that ended without success.               *)

FileTables == [Textures -> Files]

Typed(f, s, sn, ms, acks, c, l) ==
    /\ f \in FileTables /\ s \in Servings /\ sn \in [Textures -> Revisions]
    /\ ms \in Seq(ClientPackets) /\ acks \in Seq(Acks) /\ c \in Clients
    /\ l \in SUBSET (Textures \X Revisions)

UnderWay(n, s, ms, acks) ==
    Cardinality(TexturePackets(ms)) + Len(acks) <= n + (IF s.waiting THEN 1 ELSE 0)

Serves(f, s, sn) ==
    /\ s.waiting => s.id # 0
    /\ s.id # 0 =>
          /\ s.revision <= f[s.id].revision
          /\ s.revision = f[s.id].revision =>
                /\ f[s.id] # NoFile /\ s.offset <= f[s.id].chunks
                /\ s.waiting \/ s.offset < f[s.id].chunks
    /\ \A t \in Textures : sn[t] <= f[t].revision

\* What a packet says of the files.
Says(f, m) ==
    /\ m.kind = "begin" => TrueOf(f[m.id], m)
    /\ m.kind = "data" => m.from = m.revision

Holds(f, c) ==
    /\ c.transfer.id # 0 => /\ TrueOf(f[c.transfer.id], c.transfer)
                            /\ c.transfer.revision > c.held[c.transfer.id].revision
                            /\ c.transfer.received < c.transfer.chunks
                            /\ c.transfer.bytes \subseteq {c.transfer.revision}
    /\ \A t \in Textures :
          /\ c.held[t].revision <= f[t].revision
          /\ c.held[t].revision = f[t].revision => c.held[t].width = f[t].width
          /\ c.held[t] # Missing => c.held[t].bytes = {c.held[t].revision}

Answers(f, a, c) ==
    /\ a.revision <= f[a.id].revision
    /\ a.revision = f[a.id].revision /\ a.offset = f[a.id].chunks =>
          c.held[a.id].revision = f[a.id].revision

Delivered(f, sn, l, c) ==
    \A t \in Textures :
        f[t] # NoFile /\ sn[t] = f[t].revision /\ <<t, f[t].revision>> \notin l =>
            c.held[t].revision = f[t].revision

\* What is drawn: the models, and the terrain.
Live(c) ==
    \A m \in Models :
        /\ c.built[m] # NoGpu => c.built[m] = Gpu(c, c.received[m].texture)
        /\ c.received[m] = NoModel => c.built[m] = NoGpu
Atlas(c) ==
    /\ Usable(c, c.current)
    /\ Usable(c, c.desired) => c.current = c.desired
    /\ \A m \in Models : c.received[m].texture = Builtin => c.received[m].extent <= TerrainWidth

\* The terrain a client is going to want.
Wants(terrain, ms, c) ==
    IF TerrainsAsked(ms) = {} THEN c.desired = terrain
    ELSE \E i \in TerrainsAsked(ms) :
            (\A j \in TerrainsAsked(ms) : j <= i) /\ ms[i].id = terrain

\* Nothing of file x comes after the i-th packet.
Past(f, ms, x, i) ==
    x.width # TerrainWidth =>
        /\ x.revision < f[x.id].revision
        /\ \A j \in DOMAIN ms :
              j > i /\ ms[j].kind = "data" /\ ms[j].id = x.id => ms[j].revision # x.revision

Guarded(f, ms, c) ==
    /\ c.transfer.id = c.current => Past(f, ms, c.transfer, 0)
    /\ \A i \in TerrainsAsked(ms) :
          /\ c.transfer.id = ms[i].id => Past(f, ms, c.transfer, i)
          /\ \A k \in 1 .. (i - 1) :
                ms[k].kind = "begin" /\ ms[k].id = ms[i].id => Past(f, ms, ms[k], i)

\* The whole of it, but for the two ends' tables, is in three parts.
ServerSide(n, f, s, sn, ms, acks) ==
    UnderWay(n, s, ms, acks) /\ Serves(f, s, sn) /\ \A i \in DOMAIN ms : Says(f, ms[i])
ClientSide(f, sn, acks, c, l) ==
    Holds(f, c) /\ (\A i \in DOMAIN acks : Answers(f, acks[i], c)) /\ Delivered(f, sn, l, c)
Drawn(f, ms, c) == Live(c) /\ Atlas(c) /\ Guarded(f, ms, c)

Ends(n, f, s, sn, ms, acks, c, l) ==
    /\ Typed(f, s, sn, ms, acks, c, l)
    /\ ServerSide(n, f, s, sn, ms, acks)
    /\ ClientSide(f, sn, acks, c, l)
    /\ Drawn(f, ms, c)

\* Of a player with a seat.
Linked(n, terrain, f, s, sn, ms, acks, c, l) ==
    Ends(n, f, s, sn, ms, acks, c, l) /\ Wants(terrain, ms, c)

Connection(n, terrain, f, seat, s, sn, ms, acks, c, l) ==
    /\ Ends(n, f, s, sn, ms, acks, c, l)
    /\ seat => Wants(terrain, ms, c)
    /\ ~seat => ms = <<>> /\ acks = <<>> /\ c = Fresh

ConnectionOf(p) ==
    Connection(timeouts, terrainId, file, seated[p], serving[p], sent[p], toClient[p],
               toServer[p], client[p], lapsed[p])

ServerOK ==
    /\ file \in FileTables /\ terrainId \in Terrains /\ models \in [Models -> Defined]
    /\ acts \in Nat /\ timeouts \in Nat
    /\ TerrainFileIsAtlas

Shapes ==
    /\ seated \in [Players -> BOOLEAN] /\ serving \in [Players -> Servings]
    /\ sent \in [Players -> [Textures -> Revisions]]
    /\ toClient \in [Players -> Seq(ClientPackets)] /\ toServer \in [Players -> Seq(Acks)]
    /\ client \in [Players -> Clients] /\ lapsed \in [Players -> SUBSET (Textures \X Revisions)]

\* The inductive invariant.
EachConnection == ServerOK /\ Shapes /\ \A p \in Players : ConnectionOf(p)

\* It is what the runs check, piece by piece.
LEMMA ConnectionsMean ==
    EachConnection =>
        /\ TransferInvariant /\ DeliveredIsHeld /\ ModelsDrawLiveTextures
        /\ TerrainIsAtlas /\ TerrainFileIsAtlas /\ TerrainIsOnItsWay /\ TerrainEndsTransfers
        /\ TerrainModelsFit
<1> SUFFICES ASSUME EachConnection
             PROVE  /\ TransferInvariant /\ DeliveredIsHeld /\ ModelsDrawLiveTextures
                    /\ TerrainIsAtlas /\ TerrainFileIsAtlas /\ TerrainIsOnItsWay
                    /\ TerrainEndsTransfers /\ TerrainModelsFit
  OBVIOUS
<1>1. TypeOK /\ TerrainFileIsAtlas
  BY DEF EachConnection, Ends, ServerOK, Shapes, TypeOK, FileTables
<1>2. /\ OneChunkUnderWay /\ ServesWhatIsThere /\ AwayIsFresh
  BY DEF EachConnection, ConnectionOf, Connection, Ends, ServerSide, UnderWay, Serves,
     OneChunkUnderWay, ServesWhatIsThere, AwayIsFresh
<1>3. EndsAgree /\ AcksAreTrue /\ TextureWhole
  <2>1. \A p \in Players :
            /\ \A i \in DOMAIN toClient[p] : Says(file, toClient[p][i])
            /\ Holds(file, client[p])
            /\ \A i \in DOMAIN toServer[p] : Answers(file, toServer[p][i], client[p])
    BY DEF EachConnection, ConnectionOf, Connection, Ends, ServerSide, ClientSide
  <2>2. EndsAgree
    BY <2>1 DEF Says, Holds, EndsAgree
  <2>3. AcksAreTrue
    BY <2>1 DEF Answers, AcksAreTrue
  <2>4. TextureWhole
    BY <2>1 DEF Holds, TextureWhole
  <2> QED
    BY <2>2, <2>3, <2>4
<1>4. DeliveredIsHeld
  BY DEF EachConnection, ConnectionOf, Connection, Ends, ClientSide, Delivered, DeliveredIsHeld
<1>5. ModelsDrawLiveTextures /\ TerrainIsAtlas /\ TerrainModelsFit
  BY DEF EachConnection, ConnectionOf, Connection, Ends, Drawn, Live, Atlas, ModelsDrawLiveTextures,
     TerrainIsAtlas, TerrainModelsFit
<1>6. TerrainIsOnItsWay
  BY DEF EachConnection, ConnectionOf, Connection, Ends, Drawn, Atlas, Wants, TerrainIsOnItsWay
<1>7. TerrainEndsTransfers
  BY DEF EachConnection, ConnectionOf, Connection, Ends, Drawn, Guarded, Past, Over, TerrainEndsTransfers
<1> QED
  BY <1>1, <1>2, <1>3, <1>4, <1>5, <1>6, <1>7 DEF TransferInvariant

----------------------------------------------------------------------------
(* What is drawn with what: the client's models and its terrain.           *)

\* The parts of a client and their types.
LEMMA ClientFields ==
    ASSUME NEW c \in Clients
    PROVE  /\ c.held \in [Textures -> Holdings] /\ c.transfer \in Transfers
           /\ c.desired \in Terrains /\ c.current \in Terrains
           /\ c.received \in [Models -> Defined]
           /\ c.built \in [Models -> (Textures \X Revisions) \cup {<<Builtin, 0>>, NoGpu}]
           /\ c = [held |-> c.held, transfer |-> c.transfer, desired |-> c.desired,
                   current |-> c.current, received |-> c.received, built |-> c.built]
  BY DEF Clients

\* Widths and extents are positive, and textures are none of the special ids.
LEMMA WidthsAre ==
    /\ TerrainWidth \in Nat \ {0} /\ Missing.width = 0
    /\ \A t \in Textures : t \in Nat /\ t # 0 /\ t # Builtin
    /\ \A e \in Extents : e \in Nat \ {0}
  BY DEF Missing, Builtin

\* The terrain is never 0, the id of no texture.
LEMMA TerrainsAre == \A t \in Terrains : t \in Nat \ {0}
  BY WidthsAre DEF Terrains, Builtin

\* What a client holds of a texture; only what is missing has revision or width 0.
LEMMA HoldingFields ==
    ASSUME NEW h \in Holdings
    PROVE  /\ h.width \in Nat /\ h.revision \in Revisions /\ h.bytes \in SUBSET Revisions
           /\ (h.revision = 0 <=> h = Missing)
           /\ h.width = 0 => h = Missing
<1>1. CASE h = Missing
  BY <1>1 DEF Missing, Revisions
<1>2. CASE h \in [revision : Revisions \ {0}, width : Widths, bytes : SUBSET Revisions]
  <2>1. h.revision \in Revisions /\ h.revision # 0 /\ h.bytes \in SUBSET Revisions
    BY <1>2
  <2>2. h.width \in Nat /\ h.width # 0
    BY <1>2
  <2>3. h # Missing
    BY <2>1 DEF Missing
  <2> QED
    BY <2>1, <2>2, <2>3
<1> QED
  BY <1>1, <1>2 DEF Holdings

\* A transfer may be at any piece of a file, and before the first.
LEMMA OffsetsAre ==
    /\ 0 \in Offsets
    /\ \A k \in Sizes : k \in Nat \ {0} /\ k > 0 /\ 0 \in Offsets /\ k \in Offsets
    /\ \A k \in Sizes : \A i \in Nat : i <= k => i \in Offsets
    /\ \A o \in Offsets : o \in Nat
<1>1. \A k \in Sizes \cup {0} : k \in Nat
  OBVIOUS
<1>2. \A k \in Sizes \cup {0} : \A i \in Nat : i <= k => i \in 0 .. k
  BY <1>1
<1>3. \A k \in Sizes \cup {0} : \A i \in 0 .. k : i \in Offsets
  BY DEF Offsets
<1>4. \A k \in Sizes : 0 <= k /\ k <= k /\ 0 \in Nat /\ k > 0 /\ k \in Nat \ {0}
  OBVIOUS
<1>5. \A o \in Offsets : o \in Nat
  BY <1>1 DEF Offsets
<1>6. 0 \in Offsets
  BY <1>2, <1>3
<1> QED
  BY <1>1, <1>2, <1>3, <1>4, <1>5, <1>6

\* What a texture is drawn with has the type of what models are built with.
LEMMA GpuType ==
    ASSUME NEW c \in Clients, NEW t \in Terrains
    PROVE  Gpu(c, t) \in (Textures \X Revisions) \cup {<<Builtin, 0>>, NoGpu}
<1>1. c.held \in [Textures -> Holdings] /\ c.current \in Terrains
  BY ClientFields
<1>2. \A u \in Textures : c.held[u] \in Holdings
  BY <1>1
<1>3. \A u \in Textures : c.held[u].revision \in Revisions
  BY <1>2, HoldingFields
<1> QED
  BY <1>1, <1>3 DEF Gpu, Terrains

\* The terrain is always there, in the size of the atlas.
LEMMA TerrainIsThere ==
    ASSUME NEW c \in Clients, Usable(c, c.current)
    PROVE  Gpu(c, Builtin) # NoGpu /\ GpuWidth(c, Builtin) = TerrainWidth
<1>1. c.current \in Terrains
  BY ClientFields
<1>2. CASE c.current = Builtin
  BY <1>2 DEF Gpu, GpuWidth, NoGpu, Builtin
<1>3. CASE c.current # Builtin
  <2>1. c.current \in Textures /\ c.held[c.current].width = TerrainWidth
    BY <1>1, <1>3 DEF Usable, Terrains
  <2>2. c.held[c.current] # Missing /\ c.current # 0
    BY <2>1, WidthsAre
  <2> QED
    BY <1>3, <2>1, <2>2 DEF Gpu, GpuWidth, NoGpu
<1> QED
  BY <1>2, <1>3

\* What a client draws with is told by its textures and the terrain in use.
LEMMA SameGpu ==
    ASSUME NEW c, NEW d, c.held = d.held, c.current = d.current
    PROVE  \A t : Gpu(c, t) = Gpu(d, t) /\ GpuWidth(c, t) = GpuWidth(d, t) /\ Usable(c, t) = Usable(d, t)
  BY DEF Gpu, GpuWidth, Usable

\* Its width is a number.
LEMMA GpuWidths ==
    ASSUME NEW c \in Clients, NEW t \in Terrains
    PROVE  GpuWidth(c, t) \in Nat
<1>1. c.held \in [Textures -> Holdings] /\ c.current \in Terrains
  BY ClientFields
<1>2. \A u \in Textures : c.held[u].width \in Nat
  BY <1>1, HoldingFields
<1> QED
  BY <1>1, <1>2, WidthsAre DEF GpuWidth, Terrains

\* A definition changes one model, and builds it with its texture or not at all.
LEMMA ModelAppliedFacts ==
    ASSUME NEW c \in Clients, NEW m \in Models, NEW d \in Defined,
           NEW n, n = ModelApplied(c, m, d)
    PROVE  /\ n \in Clients
           /\ n.held = c.held /\ n.transfer = c.transfer
           /\ n.desired = c.desired /\ n.current = c.current
           /\ \A k \in Models \ {m} : n.received[k] = c.received[k] /\ n.built[k] = c.built[k]
           /\ d = NoModel \/ Gpu(c, d.texture) = NoGpu =>
                  n.received[m] = d /\ n.built[m] = NoGpu
           /\ d # NoModel /\ Gpu(c, d.texture) # NoGpu /\ d.extent <= GpuWidth(c, d.texture) =>
                  n.received[m] = d /\ n.built[m] = Gpu(c, d.texture)
           /\ d # NoModel /\ Gpu(c, d.texture) # NoGpu /\ ~(d.extent <= GpuWidth(c, d.texture)) =>
                  n = c
<1> DEFINE G == (Textures \X Revisions) \cup {<<Builtin, 0>>, NoGpu}
<1>1. /\ c.received \in [Models -> Defined] /\ c.built \in [Models -> G]
      /\ c = [held |-> c.held, transfer |-> c.transfer, desired |-> c.desired,
              current |-> c.current, received |-> c.received, built |-> c.built]
  BY ClientFields
<1>2. ASSUME NEW g \in G, n = [c EXCEPT !.received[m] = d, !.built[m] = g]
      PROVE  /\ n \in Clients
             /\ n.held = c.held /\ n.transfer = c.transfer
             /\ n.desired = c.desired /\ n.current = c.current
             /\ \A k \in Models \ {m} : n.received[k] = c.received[k] /\ n.built[k] = c.built[k]
             /\ n.received[m] = d /\ n.built[m] = g
  <2>1. /\ [c.received EXCEPT ![m] = d] \in [Models -> Defined]
        /\ [c.built EXCEPT ![m] = g] \in [Models -> G]
    BY <1>1
  <2>2. n = [c EXCEPT !.received = [c.received EXCEPT ![m] = d], !.built = [c.built EXCEPT ![m] = g]]
    BY <1>1, <1>2
  <2> QED
    BY ZenonT(60), <1>1, <2>1, <2>2 DEF Clients
<1>3. NoGpu \in G
  OBVIOUS
<1>4. d # NoModel => d.texture \in Terrains /\ d.extent \in Nat
  BY WidthsAre DEF Defined
<1>5. d # NoModel => Gpu(c, d.texture) \in G /\ GpuWidth(c, d.texture) \in Nat
  BY <1>4, GpuType, GpuWidths
<1> HIDE DEF G
<1>6. CASE d = NoModel \/ Gpu(c, d.texture) = NoGpu
  <2>1. n = [c EXCEPT !.received[m] = d, !.built[m] = NoGpu]
    BY <1>6 DEF ModelApplied
  <2> QED
    BY <1>2, <1>3, <1>6, <2>1
<1>7. CASE d # NoModel /\ Gpu(c, d.texture) # NoGpu /\ d.extent <= GpuWidth(c, d.texture)
  <2>1. n = [c EXCEPT !.received[m] = d, !.built[m] = Gpu(c, d.texture)]
    BY <1>4, <1>5, <1>7 DEF ModelApplied
  <2> QED
    BY <1>2, <1>5, <1>7, <2>1
<1>8. CASE d # NoModel /\ Gpu(c, d.texture) # NoGpu /\ ~(d.extent <= GpuWidth(c, d.texture))
  <2>1. n = c
    BY <1>4, <1>5, <1>8 DEF ModelApplied
  <2> QED
    BY <1>8, <2>1
<1> QED
  BY <1>6, <1>7, <1>8

\* A refresh builds the models of one texture anew, and changes nothing else.
LEMMA RefreshedFacts ==
    ASSUME NEW c \in Clients, NEW t \in Terrains, NEW n, n = Refreshed(c, t)
    PROVE  /\ n \in Clients
           /\ n.held = c.held /\ n.transfer = c.transfer /\ n.received = c.received
           /\ n.desired = c.desired /\ n.current = c.current
           /\ \A m \in Models :
                 /\ c.received[m].texture # t => n.built[m] = c.built[m]
                 /\ c.received[m].texture = t /\ Gpu(c, t) = NoGpu => n.built[m] = NoGpu
                 /\ c.received[m].texture = t /\ Gpu(c, t) # NoGpu
                       /\ c.received[m].extent <= GpuWidth(c, t) => n.built[m] = Gpu(c, t)
<1> DEFINE G == (Textures \X Revisions) \cup {<<Builtin, 0>>, NoGpu}
           B == [m \in Models |-> IF c.received[m].texture = t
                                  THEN ModelApplied(c, m, c.received[m]).built[m]
                                  ELSE c.built[m]]
<1>1. /\ c.received \in [Models -> Defined] /\ c.built \in [Models -> G]
      /\ c = [held |-> c.held, transfer |-> c.transfer, desired |-> c.desired,
              current |-> c.current, received |-> c.received, built |-> c.built]
      /\ c.held \in [Textures -> Holdings] /\ c.transfer \in Transfers
      /\ c.desired \in Terrains /\ c.current \in Terrains
  BY ClientFields
<1>2. \A m \in Models : ModelApplied(c, m, c.received[m]).built[m] \in G
  <2> SUFFICES ASSUME NEW m \in Models PROVE ModelApplied(c, m, c.received[m]).built[m] \in G
    OBVIOUS
  <2>1. c.received[m] \in Defined
    BY <1>1
  <2>2. ModelApplied(c, m, c.received[m]) \in Clients
    BY <2>1, ModelAppliedFacts
  <2> QED
    BY <2>2 DEF Clients
<1>3. B \in [Models -> G]
  BY <1>1, <1>2
<1>4. \A m \in Models : B[m] = IF c.received[m].texture = t
                               THEN ModelApplied(c, m, c.received[m]).built[m]
                               ELSE c.built[m]
  OBVIOUS
<1>5. n = [c EXCEPT !.built = B]
  BY DEF Refreshed
<1> HIDE DEF B
<1>6. /\ n = [held |-> c.held, transfer |-> c.transfer, desired |-> c.desired,
              current |-> c.current, received |-> c.received, built |-> B]
  BY <1>1, <1>5
<1>7. n \in Clients
  BY <1>1, <1>3, <1>6 DEF Clients
<1>8. n.built = B
  BY <1>6
<1>9. ASSUME NEW m \in Models, c.received[m].texture = t
      PROVE  /\ Gpu(c, t) = NoGpu => n.built[m] = NoGpu
             /\ Gpu(c, t) # NoGpu /\ c.received[m].extent <= GpuWidth(c, t) => n.built[m] = Gpu(c, t)
  <2>1. c.received[m] \in Defined
    BY <1>1
  <2>2. c.received[m] # NoModel
    BY <1>9, WidthsAre DEF NoModel, Terrains, Builtin
  <2>3. n.built[m] = ModelApplied(c, m, c.received[m]).built[m]
    BY <1>4, <1>8, <1>9
  <2>4. Gpu(c, t) = NoGpu => ModelApplied(c, m, c.received[m]).built[m] = NoGpu
    BY <1>9, <2>1, ModelAppliedFacts
  <2>5. Gpu(c, t) # NoGpu /\ c.received[m].extent <= GpuWidth(c, t) =>
            ModelApplied(c, m, c.received[m]).built[m] = Gpu(c, t)
    BY <1>9, <2>1, <2>2, ModelAppliedFacts
  <2> QED
    BY <2>3, <2>4, <2>5
<1> QED
  BY <1>4, <1>6, <1>7, <1>8, <1>9

\* The texture objects of other textures stay when one, or the terrain, changes.
LEMMA OtherGpu ==
    ASSUME NEW c, NEW d, NEW t, t # Builtin, c.held[t] = d.held[t]
    PROVE  Gpu(c, t) = Gpu(d, t)
  BY DEF Gpu

\* With the atlas in place the models that use it are drawn with it, whichever
\* texture becomes the terrain.
LEMMA TerrainAppliedFacts ==
    ASSUME NEW c \in Clients, NEW n, n = TerrainApplied(c),
           Usable(c, c.current),
           \A m \in Models : c.received[m].texture = Builtin => c.received[m].extent <= TerrainWidth,
           \A m \in Models :
               /\ c.received[m].texture # Builtin /\ c.built[m] # NoGpu =>
                      c.built[m] = Gpu(c, c.received[m].texture)
               /\ c.received[m] = NoModel => c.built[m] = NoGpu
    PROVE  /\ n \in Clients
           /\ n.held = c.held /\ n.transfer = c.transfer /\ n.received = c.received
           /\ n.desired = c.desired /\ n.current \in {c.current, c.desired}
           /\ Live(n) /\ Atlas(n)
<1> DEFINE sel == IF Usable(c, c.desired) THEN c.desired ELSE c.current
           e == [c EXCEPT !.current = sel]
<1>1. /\ c = [held |-> c.held, transfer |-> c.transfer, desired |-> c.desired,
              current |-> c.current, received |-> c.received, built |-> c.built]
      /\ c.desired \in Terrains /\ c.current \in Terrains
  BY ClientFields
<1>2. /\ sel \in {c.current, c.desired} /\ sel \in Terrains
      /\ Usable(c, sel) /\ (Usable(c, c.desired) => sel = c.desired)
  BY <1>1
<1>3. n = Refreshed(e, Builtin)
  BY DEF TerrainApplied
<1> HIDE DEF sel
<1>4. e = [held |-> c.held, transfer |-> c.transfer, desired |-> c.desired,
           current |-> sel, received |-> c.received, built |-> c.built]
  BY <1>1
<1>5. e \in Clients
  BY <1>2, <1>4, ClientFields DEF Clients
<1> HIDE DEF e
<1>6. /\ e.held = c.held /\ e.transfer = c.transfer /\ e.desired = c.desired
      /\ e.current = sel /\ e.received = c.received /\ e.built = c.built
  BY <1>4
<1>7. Usable(e, e.current)
  BY <1>2, <1>6 DEF Usable
<1>8. Gpu(e, Builtin) # NoGpu /\ GpuWidth(e, Builtin) = TerrainWidth
  BY <1>5, <1>7, TerrainIsThere
<1>9. /\ n \in Clients
      /\ n.held = c.held /\ n.transfer = c.transfer /\ n.received = c.received
      /\ n.desired = c.desired /\ n.current = sel
      /\ \A m \in Models :
            /\ c.received[m].texture # Builtin => n.built[m] = c.built[m]
            /\ c.received[m].texture = Builtin /\ Gpu(e, Builtin) # NoGpu
                  /\ c.received[m].extent <= GpuWidth(e, Builtin) => n.built[m] = Gpu(e, Builtin)
  <2>1. Builtin \in Terrains
    BY DEF Terrains
  <2> QED
    BY <1>3, <1>5, <1>6, <2>1, RefreshedFacts
<1>10. \A t : Gpu(n, t) = Gpu(e, t) /\ Usable(n, t) = Usable(c, t)
  <2>1. n.held = e.held /\ n.current = e.current
    BY <1>6, <1>9
  <2> QED
    BY <1>9, <2>1, SameGpu DEF Usable
<1>11. Live(n)
  <2> SUFFICES ASSUME NEW m \in Models
               PROVE  /\ n.built[m] # NoGpu => n.built[m] = Gpu(n, n.received[m].texture)
                      /\ n.received[m] = NoModel => n.built[m] = NoGpu
    BY DEF Live
  <2>1. CASE c.received[m].texture = Builtin
    <3>1. n.built[m] = Gpu(n, Builtin)
      BY <1>8, <1>9, <1>10, <2>1
    <3>2. c.received[m] # NoModel
      BY <2>1 DEF NoModel, Builtin
    <3> QED
      BY <1>9, <2>1, <3>1, <3>2
  <2>2. CASE c.received[m].texture # Builtin
    <3>1. Gpu(n, c.received[m].texture) = Gpu(c, c.received[m].texture)
      BY <1>9, <2>2, OtherGpu
    <3> QED
      BY <1>9, <2>2, <3>1
  <2> QED
    BY <2>1, <2>2
<1>12. Atlas(n)
  BY <1>2, <1>9, <1>10 DEF Atlas
<1> QED
  BY <1>2, <1>9, <1>11, <1>12

\* A definition that arrives is drawn with its texture.
LEMMA ModelDrawn ==
    ASSUME NEW c \in Clients, NEW m \in Models, NEW d \in Defined, Live(c), Atlas(c),
           NEW n, n = ModelApplied(c, m, d)
    PROVE  Live(n) /\ Atlas(n)
<1>1. /\ n \in Clients
      /\ n.held = c.held /\ n.desired = c.desired /\ n.current = c.current
      /\ \A k \in Models \ {m} : n.received[k] = c.received[k] /\ n.built[k] = c.built[k]
      /\ d = NoModel \/ Gpu(c, d.texture) = NoGpu => n.received[m] = d /\ n.built[m] = NoGpu
      /\ d # NoModel /\ Gpu(c, d.texture) # NoGpu /\ d.extent <= GpuWidth(c, d.texture) =>
             n.received[m] = d /\ n.built[m] = Gpu(c, d.texture)
      /\ d # NoModel /\ Gpu(c, d.texture) # NoGpu /\ ~(d.extent <= GpuWidth(c, d.texture)) =>
             n = c
  BY ModelAppliedFacts
<1>2. \A t : Gpu(n, t) = Gpu(c, t) /\ Usable(n, t) = Usable(c, t)
  BY <1>1, SameGpu
<1>3. Gpu(c, Builtin) # NoGpu /\ GpuWidth(c, Builtin) = TerrainWidth
  BY TerrainIsThere DEF Atlas
<1>4. CASE n = c
  BY <1>4
<1>5. CASE n.received[m] = d /\ (n.built[m] = NoGpu \/ (d # NoModel /\ n.built[m] = Gpu(c, d.texture)))
           /\ (d.texture = Builtin => d.extent <= TerrainWidth)
  <2>1. Live(n)
    <3> SUFFICES ASSUME NEW k \in Models
                 PROVE  /\ n.built[k] # NoGpu => n.built[k] = Gpu(n, n.received[k].texture)
                        /\ n.received[k] = NoModel => n.built[k] = NoGpu
      BY DEF Live
    <3>1. CASE k = m
      BY <1>2, <1>5, <3>1
    <3>2. CASE k # m
      BY <1>1, <1>2, <3>2 DEF Live
    <3> QED
      BY <3>1, <3>2
  <2>2. Atlas(n)
    <3>1. \A k \in Models : n.received[k].texture = Builtin => n.received[k].extent <= TerrainWidth
      BY <1>1, <1>5 DEF Atlas
    <3> QED
      BY <1>1, <1>2, <3>1 DEF Atlas
  <2> QED
    BY <2>1, <2>2
<1>6. d = NoModel => d.texture # Builtin
  BY DEF NoModel, Builtin
<1> QED
  BY <1>1, <1>3, <1>4, <1>5, <1>6

WithHeld(c, x) ==
    [c.held EXCEPT ![x.id] = [revision |-> x.revision, width |-> x.width, bytes |-> x.bytes]]

\* A texture that is put in place: the models that use it are built anew, and
\* the terrain with them if it is, or is to be, this texture.
LEMMA InstalledFacts ==
    ASSUME NEW c \in Clients, NEW x \in Transfers, x.id # 0, x.bytes = {x.revision},
           Live(c), Atlas(c), Fits(c, x.id, x.width),
           x.id = c.current => x.width = TerrainWidth,
           NEW n, n = Installed(c, x)
    PROVE  /\ n \in Clients /\ n.transfer = c.transfer /\ n.desired = c.desired
           /\ n.held = WithHeld(c, x)
           /\ Live(n) /\ Atlas(n)
<1> DEFINE h == [revision |-> x.revision, width |-> x.width, bytes |-> x.bytes]
           H == [c.held EXCEPT ![x.id] = h]
           r == [c EXCEPT !.held[x.id] = h]
           q == Refreshed(r, x.id)
<1>1. /\ c = [held |-> c.held, transfer |-> c.transfer, desired |-> c.desired,
              current |-> c.current, received |-> c.received, built |-> c.built]
      /\ c.held \in [Textures -> Holdings] /\ c.transfer \in Transfers
      /\ c.desired \in Terrains /\ c.current \in Terrains
      /\ c.received \in [Models -> Defined]
      /\ c.built \in [Models -> (Textures \X Revisions) \cup {<<Builtin, 0>>, NoGpu}]
  BY ClientFields
<1>2. /\ x.id \in Textures /\ x.revision \in Revisions \ {0} /\ x.width \in Widths
      /\ x.bytes \in SUBSET Revisions
  BY DEF Transfers, NoTransfer
<1>3. h \in Holdings /\ h.revision = x.revision /\ h.width = x.width
  BY <1>2 DEF Holdings
<1> HIDE DEF h
<1>4. /\ H \in [Textures -> Holdings] /\ H[x.id] = h
      /\ \A u \in Textures \ {x.id} : H[u] = c.held[u]
  BY <1>1, <1>2, <1>3
<1>5. r = [held |-> H, transfer |-> c.transfer, desired |-> c.desired,
           current |-> c.current, received |-> c.received, built |-> c.built]
  BY <1>1
<1> HIDE DEF H, r
<1>6. r \in Clients
  BY <1>1, <1>4, <1>5 DEF Clients
<1>7. /\ r.held = H /\ r.transfer = c.transfer /\ r.desired = c.desired
      /\ r.current = c.current /\ r.received = c.received /\ r.built = c.built
  BY <1>5
<1>8. x.id \in Terrains /\ x.id # Builtin
  BY <1>2, WidthsAre DEF Terrains
<1>9. Gpu(r, x.id) # NoGpu /\ GpuWidth(r, x.id) = x.width
  <2>1. h.revision # 0 /\ h # Missing
    BY <1>2, <1>3, HoldingFields
  <2>2. x.id # 0
    OBVIOUS
  <2>3. Gpu(r, x.id) = <<x.id, h.revision>>
    BY <1>4, <1>7, <1>8, <2>1 DEF Gpu
  <2>4. <<x.id, h.revision>> # NoGpu
    BY <2>1, <2>2 DEF NoGpu
  <2> QED
    BY <1>3, <1>4, <1>7, <1>8, <2>3, <2>4 DEF GpuWidth
<1>10. /\ q \in Clients
       /\ q.held = r.held /\ q.transfer = r.transfer /\ q.received = r.received
       /\ q.desired = r.desired /\ q.current = r.current
       /\ \A m \in Models :
             /\ r.received[m].texture # x.id => q.built[m] = r.built[m]
             /\ r.received[m].texture = x.id /\ Gpu(r, x.id) # NoGpu
                   /\ r.received[m].extent <= GpuWidth(r, x.id) => q.built[m] = Gpu(r, x.id)
  BY <1>6, <1>8, RefreshedFacts
<1> HIDE DEF q
<1>11. n = IF c.desired = x.id \/ c.current = x.id THEN TerrainApplied(q) ELSE q
  BY DEF Installed, r, q, h
<1>12. \A t : Gpu(q, t) = Gpu(r, t)
  BY <1>10, SameGpu
<1>13. \A m \in Models : c.received[m] # NoModel =>
           c.received[m].texture \in Terrains
  BY <1>1 DEF Defined
\* The models of every texture but the built-in one are right already.
<1>14. ASSUME NEW m \in Models
       PROVE  /\ q.received[m].texture # Builtin /\ q.built[m] # NoGpu =>
                     q.built[m] = Gpu(q, q.received[m].texture)
              /\ q.received[m] = NoModel => q.built[m] = NoGpu
  <2> DEFINE t == c.received[m].texture
  <2>1. q.received[m] = c.received[m] /\ r.received[m] = c.received[m] /\ r.built[m] = c.built[m]
    BY <1>7, <1>10
  <2>2. CASE t = x.id
    <3>1. c.received[m].extent <= x.width
      BY <2>2 DEF Fits
    <3>2. q.built[m] = Gpu(r, x.id)
      BY <1>9, <1>10, <2>1, <2>2, <3>1
    <3>3. c.received[m] # NoModel
      BY <1>8, <2>2, WidthsAre, <1>2 DEF NoModel
    <3> QED
      BY <1>12, <2>1, <2>2, <3>2, <3>3
  <2>3. CASE t # x.id
    <3>1. q.built[m] = c.built[m]
      BY <1>10, <2>1, <2>3
    <3>2. c.received[m] = NoModel => q.built[m] = NoGpu
      BY <3>1 DEF Live
    <3>3. ASSUME t # Builtin, q.built[m] # NoGpu
          PROVE  q.built[m] = Gpu(q, t)
      <4>1. t \in Textures
        BY <1>13, <3>2, <3>3 DEF Terrains
      <4>2. r.held[t] = c.held[t]
        BY <1>4, <1>7, <2>3, <4>1
      <4>3. Gpu(r, t) = Gpu(c, t)
        BY <3>3, <4>2 DEF Gpu
      <4> QED
        BY <1>12, <3>1, <3>3, <4>3 DEF Live
    <3> QED
      BY <2>1, <3>2, <3>3
  <2> QED
    BY <2>2, <2>3
<1>15. \A m \in Models : q.received[m].texture = Builtin => q.received[m].extent <= TerrainWidth
  BY <1>7, <1>10 DEF Atlas
\* Whatever can be the terrain still can.
<1>16. \A u \in Terrains : u # x.id => Usable(q, u) = Usable(c, u)
  BY <1>4, <1>7, <1>10 DEF Usable, Terrains
<1>17. Usable(q, q.current)
  <2>1. CASE c.current = x.id
    BY <1>3, <1>4, <1>7, <1>10, <2>1 DEF Usable
  <2>2. CASE c.current # x.id
    BY <1>1, <1>7, <1>10, <1>16, <2>2 DEF Atlas
  <2> QED
    BY <2>1, <2>2
<1>18. CASE c.desired = x.id \/ c.current = x.id
  <2>1. n = TerrainApplied(q)
    BY <1>11, <1>18
  <2>2. /\ n \in Clients
        /\ n.held = q.held /\ n.transfer = q.transfer /\ n.desired = q.desired
        /\ Live(n) /\ Atlas(n)
    BY <1>10, <1>14, <1>15, <1>17, <2>1, TerrainAppliedFacts
  <2> QED
    BY <1>7, <1>10, <2>2 DEF H, h, WithHeld
<1>19. CASE ~(c.desired = x.id \/ c.current = x.id)
  <2>1. n = q
    BY <1>11, <1>19
  <2>2. Gpu(q, Builtin) = Gpu(c, Builtin)
    <3>1. c.current = Builtin \/ H[c.current] = c.held[c.current]
      BY <1>1, <1>4, <1>19 DEF Terrains
    <3> QED
      BY ZenonT(60), <1>7, <1>12, <3>1 DEF Gpu
  <2>3. Live(q)
    <3> SUFFICES ASSUME NEW m \in Models
                 PROVE  /\ q.built[m] # NoGpu => q.built[m] = Gpu(q, q.received[m].texture)
                        /\ q.received[m] = NoModel => q.built[m] = NoGpu
      BY DEF Live
    <3>1. CASE q.received[m].texture = Builtin
      <4>1. q.built[m] = c.built[m]
        BY <1>7, <1>8, <1>10, <3>1
      <4> QED
        BY <1>7, <1>10, <1>14, <2>2, <3>1, <4>1 DEF Live
    <3> QED
      BY <1>14, <3>1
  <2>4. Atlas(q)
    BY <1>1, <1>7, <1>10, <1>15, <1>16, <1>17, <1>19 DEF Atlas
  <2> QED
    BY <1>7, <1>10, <2>1, <2>3, <2>4 DEF H, h, WithHeld
<1> QED
  BY <1>18, <1>19

----------------------------------------------------------------------------
(* The packets on their way, counted.                                      *)

\* The texture packets among the packets on their way are finitely many.
LEMMA TextureCount ==
    ASSUME NEW ms \in Seq(ClientPackets)
    PROVE  /\ IsFiniteSet(TexturePackets(ms)) /\ Cardinality(TexturePackets(ms)) \in Nat
           /\ TexturePackets(ms) \subseteq 1 .. Len(ms) /\ Len(ms) \in Nat
<1>1. Len(ms) \in Nat /\ DOMAIN ms = 1 .. Len(ms)
  BY LenProperties
<1>2. TexturePackets(ms) \in SUBSET (1 .. Len(ms))
  BY <1>1 DEF TexturePackets
<1>3. IsFiniteSet(1 .. Len(ms))
  BY <1>1, FS_Interval
<1> QED
  BY <1>1, <1>2, <1>3, FS_Subset, FS_CardinalityType

\* A texture packet that is sent is one more.
LEMMA CountAppend ==
    ASSUME NEW ms \in Seq(ClientPackets), NEW m \in ClientPackets, NEW t, t = Append(ms, m)
    PROVE  Cardinality(TexturePackets(t)) =
               Cardinality(TexturePackets(ms)) + (IF IsTexturePacket(m) THEN 1 ELSE 0)
<1> DEFINE P == TexturePackets(ms)
           n == Len(ms) + 1
<1>1. /\ t \in Seq(ClientPackets) /\ Len(ms) \in Nat /\ DOMAIN ms = 1 .. Len(ms)
      /\ DOMAIN t = 1 .. n /\ (\A i \in 1 .. Len(ms) : t[i] = ms[i]) /\ t[n] = m
  BY AppendIs
<1>2. IsFiniteSet(P) /\ Cardinality(P) \in Nat /\ P \subseteq 1 .. Len(ms)
  BY TextureCount
<1>3. n \notin P
  BY <1>1, <1>2
<1>4. \A i : i \in DOMAIN t <=> i \in DOMAIN ms \/ i = n
  BY <1>1
<1>5. CASE IsTexturePacket(m)
  <2>1. TexturePackets(t) = P \cup {n}
    BY <1>1, <1>4, <1>5 DEF TexturePackets
  <2> QED
    BY <1>2, <1>3, <1>5, <2>1, FS_AddElement
<1>6. CASE ~IsTexturePacket(m)
  <2>1. TexturePackets(t) = P
    BY <1>1, <1>4, <1>6 DEF TexturePackets
  <2> QED
    BY <1>2, <1>6, <2>1
<1> QED
  BY <1>5, <1>6

\* A texture packet that arrives is one less.
LEMMA CountTail ==
    ASSUME NEW ms \in Seq(ClientPackets), ms # <<>>, NEW t, t = Tail(ms)
    PROVE  Cardinality(TexturePackets(ms)) =
               Cardinality(TexturePackets(t)) + (IF IsTexturePacket(Head(ms)) THEN 1 ELSE 0)
<1> DEFINE P == TexturePackets(t)
           Q == TexturePackets(ms) \ {1}
           up == [i \in P |-> i + 1]
<1>1. /\ t \in Seq(ClientPackets) /\ Len(ms) \in Nat \ {0} /\ DOMAIN ms = 1 .. Len(ms)
      /\ DOMAIN t = 1 .. (Len(ms) - 1) /\ (\A i \in 1 .. (Len(ms) - 1) : t[i] = ms[i + 1])
      /\ Head(ms) = ms[1]
  BY TailIs
<1>2. /\ IsFiniteSet(P) /\ Cardinality(P) \in Nat
      /\ IsFiniteSet(TexturePackets(ms)) /\ Cardinality(TexturePackets(ms)) \in Nat
  BY <1>1, TextureCount
<1>3. /\ \A i \in P : i \in Nat /\ i + 1 \in Q
      /\ \A j \in Q : j - 1 \in P /\ (j - 1) + 1 = j
  BY <1>1 DEF TexturePackets
<1>4. up \in Bijection(P, Q)
  <2>1. up \in [P -> Q]
    BY <1>3
  <2>2. \A i, j \in P : up[i] = up[j] => i = j
    BY <1>3
  <2>3. \A j \in Q : \E i \in P : up[i] = j
    BY <1>3
  <2> HIDE DEF P, Q, up
  <2> QED
    BY <2>1, <2>2, <2>3 DEF Bijection, Injection, Surjection, IsInjective
<1>5. IsFiniteSet(Q) /\ Cardinality(Q) = Cardinality(P)
  BY <1>2, <1>4, FS_Bijection DEF ExistsBijection
<1>6. 1 \in TexturePackets(ms) <=> IsTexturePacket(Head(ms))
  BY <1>1 DEF TexturePackets
<1>7. Cardinality(Q) = IF 1 \in TexturePackets(ms) THEN Cardinality(TexturePackets(ms)) - 1
                       ELSE Cardinality(TexturePackets(ms))
  BY <1>2, FS_RemoveElement
<1> QED
  BY <1>2, <1>5, <1>6, <1>7

\* The four kinds of packets.
LEMMA PacketKinds ==
    ASSUME NEW m \in ClientPackets
    PROVE  /\ m.kind = "begin" => /\ m.id \in Textures /\ m.revision \in Revisions \ {0}
                                  /\ m.chunks \in Sizes /\ m.width \in Widths
           /\ m.kind = "data" => /\ m.id \in Textures /\ m.revision \in Revisions
                                 /\ m.offset \in Offsets /\ m.from \in Revisions
           /\ m.kind = "terrain" => m.id \in Terrains
           /\ m.kind = "model" => m.id \in Models /\ m.definition \in Defined
           /\ m.kind \in {"begin", "data", "terrain", "model"}
  BY DEF ClientPackets

\* The first texture that is due is one.
LEMMA FirstDueIs ==
    ASSUME NEW due \in SUBSET Textures, due # {}
    PROVE  FirstDue(due) \in due
<1>1. due \in SUBSET Nat
  BY WidthsAre
<1>2. \E t \in due : \A u \in due : t <= u
  BY <1>1, LeastOne
<1> QED
  BY <1>2 DEF FirstDue

\* What a player gets that joins: the terrain, then models only.
LEMMA DefinitionsAre ==
    ASSUME models \in [Models -> Defined]
    PROVE  /\ Definitions \in Seq(ClientPackets)
           /\ \A i \in DOMAIN Definitions : Definitions[i].kind = "model"
<1> DEFINE M == {m \in Models : models[m] # NoModel}
           n == Cardinality(M)
           D == {DefineModel(m, models[m]) : m \in Models}
           Right(packets) == \A m \in Models : models[m] # NoModel =>
               \E i \in DOMAIN packets : packets[i] = DefineModel(m, models[m])
<1>1. IsFiniteSet(M) /\ n \in Nat /\ ExistsBijection(1 .. n, M)
  BY FS_Subset, FS_CardinalityType
<1>2. PICK g \in [1 .. n -> M] : \A m \in M : \E i \in 1 .. n : g[i] = m
  BY <1>1 DEF ExistsBijection, Bijection, Surjection
<1> HIDE DEF n
<1>3. \E packets \in [1 .. n -> D] : Right(packets)
  <2> DEFINE packets == [i \in 1 .. n |-> DefineModel(g[i], models[g[i]])]
  <2>1. \A i \in 1 .. n : g[i] \in Models
    BY <1>2
  <2>2. packets \in [1 .. n -> D]
    BY <2>1
  <2>3. DOMAIN packets = 1 .. n /\ \A i \in 1 .. n : packets[i] = DefineModel(g[i], models[g[i]])
    OBVIOUS
  <2> HIDE DEF packets, D
  <2>4. Right(packets)
    BY <1>2, <2>3
  <2> QED
    BY <2>2, <2>4
<1>4. Definitions \in [1 .. n -> D]
  BY <1>3 DEF Definitions, n
<1>5. \A d \in D : d \in ClientPackets /\ d.kind = "model"
  BY DEF DefineModel, ClientPackets
<1> HIDE DEF D
<1>6. Definitions \in Seq(D)
  BY <1>1, <1>4
<1>7. Definitions \in Seq(ClientPackets)
  BY <1>5, <1>6
<1>8. \A i \in DOMAIN Definitions : Definitions[i] \in D
  BY <1>4
<1> QED
  BY <1>5, <1>7, <1>8

\* A player that joins is told the terrain first, then models only.
LEMMA WelcomeIs ==
    ASSUME models \in [Models -> Defined], terrainId \in Terrains,
           NEW ms, ms = <<Terrain(terrainId)>> \o Definitions
    PROVE  /\ ms \in Seq(ClientPackets) /\ DOMAIN ms = 1 .. Len(ms)
           /\ 1 \in DOMAIN ms /\ ms[1] = Terrain(terrainId)
           /\ \A i \in DOMAIN ms \ {1} : ms[i].kind = "model"
<1> DEFINE a == <<Terrain(terrainId)>>
           ds == Definitions
<1>1. Terrain(terrainId) \in ClientPackets
  BY DEF Terrain, ClientPackets
<1>2. a \in Seq(ClientPackets) /\ Len(a) = 1 /\ a[1] = Terrain(terrainId)
  BY <1>1
<1>3. ds \in Seq(ClientPackets) /\ \A i \in DOMAIN ds : ds[i].kind = "model"
  BY DefinitionsAre
<1> HIDE DEF a, ds
<1>4. Len(ds) \in Nat /\ DOMAIN ds = 1 .. Len(ds)
  BY <1>3, LenProperties
<1>5. /\ ms \in Seq(ClientPackets) /\ Len(ms) = 1 + Len(ds)
      /\ \A i \in 1 .. 1 + Len(ds) : ms[i] = IF i <= 1 THEN a[i] ELSE ds[i - 1]
  BY <1>2, <1>3, ConcatProperties DEF a, ds
<1>6. DOMAIN ms = 1 .. 1 + Len(ds)
  BY <1>5, LenProperties
<1>7. 1 \in 1 .. 1 + Len(ds) /\ ms[1] = a[1]
  BY <1>4, <1>5
<1>8. \A i \in DOMAIN ms \ {1} : ms[i].kind = "model"
  <2> SUFFICES ASSUME NEW i \in DOMAIN ms \ {1} PROVE ms[i].kind = "model"
    OBVIOUS
  <2>1. i - 1 \in DOMAIN ds /\ ms[i] = ds[i - 1]
    BY <1>4, <1>5, <1>6
  <2> QED
    BY <1>3, <2>1
<1> QED
  BY <1>2, <1>5, <1>6, <1>7, <1>8

----------------------------------------------------------------------------
(* A packet is sent.                                                       *)

\* A transfer's texture is none while nothing is transferred, and no terrain is none.
LEMMA TransferFields ==
    ASSUME NEW c \in Clients
    PROVE  /\ c.transfer.id \in Textures \cup {0} /\ c.transfer.revision \in Nat
           /\ c.transfer.id # c.current \/ c.transfer.id \in Textures
           /\ \A t \in Textures : c.held[t] \in Holdings /\ c.held[t].revision \in Nat
<1>1. c.transfer \in Transfers /\ c.held \in [Textures -> Holdings] /\ c.current \in Terrains
  BY ClientFields
<1>2. c.transfer.id \in Textures \cup {0} /\ c.transfer.revision \in Nat
  BY <1>1 DEF Transfers, NoTransfer, Revisions
<1>3. \A t \in Textures : c.held[t] \in Holdings
  BY <1>1
<1>4. \A t \in Textures : c.held[t].revision \in Revisions
  BY <1>3, HoldingFields
<1>5. \A r \in Revisions : r \in Nat
  BY DEF Revisions
<1>6. c.transfer.id # c.current \/ c.transfer.id \in Textures
  BY <1>1, <1>2, WidthsAre DEF Terrains, Builtin
<1> QED
  BY <1>2, <1>3, <1>4, <1>5, <1>6

\* The server has a file exactly if its revision is not 0.
LEMMA FileFields ==
    ASSUME NEW f \in FileTables, NEW t \in Textures
    PROVE  /\ f[t].revision \in Nat /\ f[t].revision \in Revisions
           /\ (f[t] # NoFile <=> f[t].revision # 0)
           /\ f[t] # NoFile => /\ f[t].revision \in Revisions \ {0} /\ f[t].chunks \in Sizes
                               /\ f[t].width \in Widths /\ f[t].chunks \in Nat \ {0}
           /\ f[t].chunks \in Nat /\ f[t].width \in Nat
<1>1. f[t] \in Files
  BY DEF FileTables
<1>2. CASE f[t] = NoFile
  BY <1>2 DEF NoFile, Revisions
<1>3. CASE f[t] \in [revision : Revisions \ {0}, chunks : Sizes, width : Widths]
  <2>1. f[t].revision \in Revisions \ {0} /\ f[t].chunks \in Sizes /\ f[t].width \in Widths
    BY <1>3
  <2>2. f[t] # NoFile /\ f[t].revision # 0
    BY <2>1 DEF NoFile
  <2>3. f[t].revision \in Nat
    BY <2>1 DEF Revisions
  <2>4. f[t].chunks \in Nat \ {0} /\ f[t].width \in Nat
    BY <2>1
  <2> QED
    BY <2>1, <2>2, <2>3, <2>4
<1> QED
  BY <1>1, <1>2, <1>3 DEF Files

\* A packet that is sent says nothing of a file that was replaced.
LEMMA PastSend ==
    ASSUME NEW f \in FileTables, NEW ms \in Seq(ClientPackets), NEW m \in ClientPackets,
           NEW t, t = Append(ms, m),
           m.kind = "data" => m.revision = f[m.id].revision,
           NEW x, x.revision \in Nat, NEW i, Past(f, ms, x, i)
    PROVE  Past(f, t, x, i)
<1>1. /\ Len(ms) \in Nat /\ DOMAIN ms = 1 .. Len(ms) /\ DOMAIN t = 1 .. (Len(ms) + 1)
      /\ (\A k \in 1 .. Len(ms) : t[k] = ms[k]) /\ t[Len(ms) + 1] = m
  BY AppendIs
<1> SUFFICES ASSUME x.width # TerrainWidth
             PROVE  /\ x.revision < f[x.id].revision
                    /\ \A j \in DOMAIN t :
                          j > i /\ t[j].kind = "data" /\ t[j].id = x.id => t[j].revision # x.revision
  BY DEF Past
<1>2. /\ x.revision < f[x.id].revision
      /\ \A j \in DOMAIN ms :
            j > i /\ ms[j].kind = "data" /\ ms[j].id = x.id => ms[j].revision # x.revision
  BY DEF Past
<1>3. m.kind = "data" /\ m.id = x.id => m.revision # x.revision
  <2> SUFFICES ASSUME m.kind = "data", m.id = x.id, m.revision = x.revision PROVE FALSE
    OBVIOUS
  <2>1. f[x.id].revision \in Nat
    BY PacketKinds, FileFields
  <2> QED
    BY <1>2, <2>1
<1> QED
  BY <1>1, <1>2, <1>3

\* Of a texture of the atlas' size, a file of another width is an old one.
LEMMA OldIfOther ==
    ASSUME NEW f \in FileTables, NEW t \in Textures, f[t].width = TerrainWidth,
           NEW x, TrueOf(f[t], x), x.revision \in Nat, x.width # TerrainWidth
    PROVE  x.revision < f[t].revision
  BY FileFields DEF TrueOf

\* A terrain that is asked for ends the transfers of its older files.
LEMMA GuardedSend ==
    ASSUME NEW f \in FileTables, NEW ms \in Seq(ClientPackets), NEW m \in ClientPackets,
           NEW c \in Clients, NEW t, t = Append(ms, m),
           m.kind = "data" => m.revision = f[m.id].revision,
           m.kind = "terrain" /\ m.id # Builtin => f[m.id].width = TerrainWidth,
           Guarded(f, ms, c), Holds(f, c), \A i \in DOMAIN ms : Says(f, ms[i])
    PROVE  Guarded(f, t, c)
<1>1. /\ Len(ms) \in Nat /\ DOMAIN ms = 1 .. Len(ms) /\ DOMAIN t = 1 .. (Len(ms) + 1)
      /\ (\A k \in 1 .. Len(ms) : t[k] = ms[k]) /\ t[Len(ms) + 1] = m
  BY AppendIs
<1>2. \A k \in 1 .. Len(ms) : ms[k] \in ClientPackets
  BY <1>1, ElementOfSeq
<1>3. c.transfer.revision \in Nat /\ c.transfer.id \in Textures \cup {0}
  BY TransferFields
<1>4. c.transfer.id = c.current => Past(f, t, c.transfer, 0)
  BY <1>3, PastSend DEF Guarded
<1>5. ASSUME NEW i \in TerrainsAsked(t)
      PROVE  /\ c.transfer.id = t[i].id => Past(f, t, c.transfer, i)
             /\ \A k \in 1 .. (i - 1) :
                   t[k].kind = "begin" /\ t[k].id = t[i].id => Past(f, t, t[k], i)
  <2>1. i \in 1 .. (Len(ms) + 1) /\ t[i].kind = "terrain"
    BY <1>1, <1>5 DEF TerrainsAsked
  <2>2. CASE i \in 1 .. Len(ms)
    <3>1. i \in TerrainsAsked(ms) /\ t[i] = ms[i]
      BY <1>1, <2>1, <2>2 DEF TerrainsAsked
    <3>2. c.transfer.id = t[i].id => Past(f, t, c.transfer, i)
      BY <1>3, <3>1, PastSend DEF Guarded
    <3>3. ASSUME NEW k \in 1 .. (i - 1), t[k].kind = "begin", t[k].id = t[i].id
          PROVE  Past(f, t, t[k], i)
      <4>1. k \in 1 .. Len(ms) /\ t[k] = ms[k]
        BY <1>1, <2>2
      <4>2. Past(f, ms, ms[k], i)
        BY <3>1, <3>3, <4>1 DEF Guarded
      <4>3. ms[k].revision \in Nat
        BY <1>2, <3>3, <4>1, PacketKinds DEF Revisions
      <4> QED
        BY <4>1, <4>2, <4>3, PastSend
    <3> QED
      BY <3>2, <3>3
  <2>3. CASE i = Len(ms) + 1
    <3>1. t[i] = m /\ m.id \in Terrains
      BY <1>1, <2>1, <2>3, PacketKinds
    <3>2. \A j \in DOMAIN t : ~(j > i)
      BY <1>1, <2>3
    <3>3. ASSUME NEW x, x.id \in Textures, x.id = m.id, TrueOf(f[x.id], x), x.revision \in Nat
          PROVE  Past(f, t, x, i)
      <4>1. m.id # Builtin
        BY <3>3, WidthsAre
      <4>2. f[x.id].width = TerrainWidth
        BY <2>1, <3>1, <3>3, <4>1
      <4> QED
        BY <3>2, <3>3, <4>2, OldIfOther DEF Past
    <3>4. c.transfer.id = t[i].id => Past(f, t, c.transfer, i)
      <4> SUFFICES ASSUME c.transfer.id = t[i].id PROVE Past(f, t, c.transfer, i)
        OBVIOUS
      <4>1. c.transfer.id # 0
        BY <3>1, WidthsAre DEF Terrains, Builtin
      <4>2. TrueOf(f[c.transfer.id], c.transfer)
        BY <4>1 DEF Holds
      <4> QED
        BY <1>3, <3>1, <3>3, <4>1, <4>2
    <3>5. ASSUME NEW k \in 1 .. (i - 1), t[k].kind = "begin", t[k].id = t[i].id
          PROVE  Past(f, t, t[k], i)
      <4>1. k \in 1 .. Len(ms) /\ t[k] = ms[k]
        BY <1>1, <2>3
      <4>2. Says(f, ms[k])
        BY <1>1, <4>1
      <4>3. ms[k].id \in Textures /\ ms[k].revision \in Nat
        BY <1>2, <3>5, <4>1, PacketKinds DEF Revisions
      <4> QED
        BY <3>1, <3>3, <3>5, <4>1, <4>2, <4>3 DEF Says
    <3> QED
      BY <3>4, <3>5
  <2> QED
    BY <1>1, <2>1, <2>2, <2>3
<1> QED
  BY <1>4, <1>5 DEF Guarded

\* The last terrain asked for is the one a client will want.
LEMMA WantsSend ==
    ASSUME NEW ms \in Seq(ClientPackets), NEW m \in ClientPackets, NEW c, NEW terrain, NEW next,
           NEW t, t = Append(ms, m), Wants(terrain, ms, c),
           IF m.kind = "terrain" THEN m.id = next ELSE next = terrain
    PROVE  Wants(next, t, c)
<1> DEFINE n == Len(ms) + 1
<1>1. /\ Len(ms) \in Nat /\ DOMAIN ms = 1 .. Len(ms) /\ DOMAIN t = 1 .. n
      /\ (\A k \in 1 .. Len(ms) : t[k] = ms[k]) /\ t[n] = m
  BY AppendIs
<1>2. \A i : i \in DOMAIN t <=> i \in DOMAIN ms \/ i = n
  BY <1>1
<1>3. CASE m.kind = "terrain"
  <2>1. n \in TerrainsAsked(t) /\ \A j \in TerrainsAsked(t) : j <= n
    BY <1>1, <1>3 DEF TerrainsAsked
  <2>2. t[n].id = next
    BY <1>1, <1>3
  <2> HIDE DEF n
  <2> QED
    BY <2>1, <2>2 DEF Wants
<1>4. CASE m.kind # "terrain"
  <2>1. TerrainsAsked(t) = TerrainsAsked(ms)
    BY <1>1, <1>2, <1>4 DEF TerrainsAsked
  <2>2. \A i \in TerrainsAsked(ms) : t[i] = ms[i]
    BY <1>1 DEF TerrainsAsked
  <2> QED
    BY <1>4, <2>1, <2>2 DEF Wants
<1> QED
  BY <1>3, <1>4

\* One more packet, of a transfer that waits for its answer.
LEMMA OneMore ==
    ASSUME NEW a \in Nat, NEW b \in Nat, NEW n \in Nat, NEW d, d = a + 1, a + b <= n + 0
    PROVE  d + b <= n + 1
  OBVIOUS

\* The server sends a packet that is true of the files.
LEMMA SendKeeps ==
    ASSUME NEW n \in Nat, NEW terrain, NEW next, NEW f, NEW s, NEW z \in Servings, NEW sn,
           NEW ms, NEW acks, NEW c, NEW l, NEW m \in ClientPackets,
           Linked(n, terrain, f, s, sn, ms, acks, c, l),
           Says(f, m),
           m.kind = "data" => m.revision = f[m.id].revision,
           m.kind = "terrain" /\ m.id # Builtin => f[m.id].width = TerrainWidth,
           IF m.kind = "terrain" THEN m.id = next ELSE next = terrain,
           IF IsTexturePacket(m) THEN ~s.waiting /\ z.waiting ELSE z = s,
           Serves(f, z, sn)
    PROVE  Linked(n, next, f, z, sn, Append(ms, m), acks, c, l)
<1> DEFINE t == Append(ms, m)
<1>1. /\ Typed(f, s, sn, ms, acks, c, l) /\ ServerSide(n, f, s, sn, ms, acks)
      /\ ClientSide(f, sn, acks, c, l) /\ Drawn(f, ms, c) /\ Wants(terrain, ms, c)
  BY DEF Linked, Ends
<1>2. f \in FileTables /\ ms \in Seq(ClientPackets) /\ c \in Clients /\ acks \in Seq(Acks)
  BY <1>1 DEF Typed
<1>3. /\ t \in Seq(ClientPackets) /\ Len(ms) \in Nat
      /\ DOMAIN ms = 1 .. Len(ms) /\ DOMAIN t = 1 .. (Len(ms) + 1)
      /\ (\A k \in 1 .. Len(ms) : t[k] = ms[k]) /\ t[Len(ms) + 1] = m
  BY <1>2, AppendIs
<1>4. Cardinality(TexturePackets(t)) =
          Cardinality(TexturePackets(ms)) + (IF IsTexturePacket(m) THEN 1 ELSE 0)
  BY <1>2, CountAppend
<1> HIDE DEF t
<1>5. Cardinality(TexturePackets(ms)) \in Nat /\ Len(acks) \in Nat
  BY <1>2, TextureCount, LenProperties
<1>6. UnderWay(n, z, t, acks)
  <2>1. Cardinality(TexturePackets(ms)) + Len(acks) <= n + (IF s.waiting THEN 1 ELSE 0)
    BY <1>1 DEF ServerSide, UnderWay
  <2>2. CASE IsTexturePacket(m)
    <3>1. Cardinality(TexturePackets(ms)) + Len(acks) <= n + 0
      BY <2>1, <2>2
    <3>2. Cardinality(TexturePackets(t)) + Len(acks) <= n + 1
      BY <1>4, <1>5, <2>2, <3>1, OneMore
    <3> QED
      BY <2>2, <3>2 DEF UnderWay
  <2>3. CASE ~IsTexturePacket(m)
    <3>1. Cardinality(TexturePackets(t)) = Cardinality(TexturePackets(ms)) /\ z = s
      BY <1>4, <1>5, <2>3
    <3> QED
      BY <2>1, <3>1 DEF UnderWay
  <2> QED
    BY <2>2, <2>3
<1>7. \A i \in DOMAIN t : Says(f, t[i])
  BY <1>1, <1>3 DEF ServerSide
<1>8. Guarded(f, t, c)
  BY <1>1, <1>2, GuardedSend DEF Drawn, ClientSide, ServerSide, t
<1>9. Wants(next, t, c)
  BY <1>1, <1>2, WantsSend DEF t
<1>10. Typed(f, z, sn, t, acks, c, l)
  BY <1>1, <1>3 DEF Typed
<1>11. ServerSide(n, f, z, sn, t, acks)
  BY <1>6, <1>7 DEF ServerSide
<1>12. Drawn(f, t, c)
  BY <1>1, <1>8 DEF Drawn
<1> QED
  BY <1>1, <1>9, <1>10, <1>11, <1>12 DEF Linked, Ends, t

----------------------------------------------------------------------------
(* A packet arrives.                                                       *)

\* Positions are one less when a packet has arrived.
LEMMA PastTail ==
    ASSUME NEW f, NEW ms \in Seq(ClientPackets), ms # <<>>, NEW t, t = Tail(ms), NEW x
    PROVE  /\ Past(f, ms, x, 0) => Past(f, t, x, 0)
           /\ \A i \in Nat : Past(f, ms, x, i + 1) => Past(f, t, x, i)
<1>1. /\ Len(ms) \in Nat \ {0} /\ DOMAIN ms = 1 .. Len(ms) /\ DOMAIN t = 1 .. (Len(ms) - 1)
      /\ \A k \in 1 .. (Len(ms) - 1) : t[k] = ms[k + 1]
  BY TailIs
<1>2. \A j \in DOMAIN t : j \in Nat /\ j + 1 \in DOMAIN ms /\ t[j] = ms[j + 1]
  BY <1>1
<1>3. Past(f, ms, x, 0) => Past(f, t, x, 0)
  <2> SUFFICES ASSUME Past(f, ms, x, 0), x.width # TerrainWidth,
                      NEW j \in DOMAIN t, j > 0, t[j].kind = "data", t[j].id = x.id
               PROVE  t[j].revision # x.revision
    BY DEF Past
  <2>1. j + 1 \in DOMAIN ms /\ j + 1 > 0 /\ t[j] = ms[j + 1]
    BY <1>2
  <2> QED
    BY <2>1 DEF Past
<1>4. ASSUME NEW i \in Nat, Past(f, ms, x, i + 1)
      PROVE  Past(f, t, x, i)
  <2> SUFFICES ASSUME x.width # TerrainWidth,
                      NEW j \in DOMAIN t, j > i, t[j].kind = "data", t[j].id = x.id
               PROVE  t[j].revision # x.revision
    BY <1>4 DEF Past
  <2>1. j + 1 \in DOMAIN ms /\ j + 1 > i + 1 /\ t[j] = ms[j + 1]
    BY <1>2
  <2> QED
    BY <1>4, <2>1 DEF Past
<1> QED
  BY <1>3, <1>4

\* What is guarded stays so, but for what the packet itself changes.
LEMMA GuardedReceive ==
    ASSUME NEW f, NEW ms \in Seq(ClientPackets), ms # <<>>, NEW t, t = Tail(ms),
           NEW c, NEW e, Guarded(f, ms, c),
           e.transfer.id = e.current => Past(f, t, e.transfer, 0),
           \A i \in TerrainsAsked(t) : e.transfer.id = t[i].id => Past(f, t, e.transfer, i)
    PROVE  Guarded(f, t, e)
<1>1. /\ Len(ms) \in Nat \ {0} /\ DOMAIN ms = 1 .. Len(ms) /\ DOMAIN t = 1 .. (Len(ms) - 1)
      /\ \A k \in 1 .. (Len(ms) - 1) : t[k] = ms[k + 1]
  BY TailIs
<1>2. ASSUME NEW i \in TerrainsAsked(t), NEW k \in 1 .. (i - 1),
             t[k].kind = "begin", t[k].id = t[i].id
      PROVE  Past(f, t, t[k], i)
  <2>1. /\ i \in 1 .. (Len(ms) - 1) /\ i + 1 \in TerrainsAsked(ms) /\ t[i] = ms[i + 1]
    BY <1>1 DEF TerrainsAsked
  <2>2. k + 1 \in 1 .. ((i + 1) - 1) /\ t[k] = ms[k + 1] /\ i \in Nat
    BY <1>1, <2>1
  <2>3. Past(f, ms, ms[k + 1], i + 1)
    BY <1>2, <2>1, <2>2 DEF Guarded
  <2> QED
    BY <2>2, <2>3, PastTail
<1> QED
  BY <1>2 DEF Guarded

\* A terrain packet that arrives sets what the client wants.
LEMMA WantsReceive ==
    ASSUME NEW ms \in Seq(ClientPackets), ms # <<>>, NEW t, t = Tail(ms),
           NEW c, NEW e, NEW terrain, Wants(terrain, ms, c),
           IF Head(ms).kind = "terrain" THEN e.desired = Head(ms).id ELSE e.desired = c.desired
    PROVE  Wants(terrain, t, e)
<1>1. /\ Len(ms) \in Nat \ {0} /\ DOMAIN ms = 1 .. Len(ms) /\ DOMAIN t = 1 .. (Len(ms) - 1)
      /\ \A k \in 1 .. (Len(ms) - 1) : t[k] = ms[k + 1]
      /\ Head(ms) = ms[1]
  BY TailIs
<1>2. \A i \in TerrainsAsked(t) : i \in Nat \ {0} /\ i + 1 \in TerrainsAsked(ms) /\ t[i] = ms[i + 1]
  BY <1>1 DEF TerrainsAsked
<1>3. \A j \in TerrainsAsked(ms) : j = 1 \/ (j \in Nat /\ j - 1 \in TerrainsAsked(t) /\ t[j - 1] = ms[j])
  BY <1>1 DEF TerrainsAsked
<1>4. CASE TerrainsAsked(t) # {}
  <2>1. TerrainsAsked(ms) # {}
    BY <1>2, <1>4
  <2>2. PICK i \in TerrainsAsked(ms) : (\A j \in TerrainsAsked(ms) : j <= i) /\ ms[i].id = terrain
    BY <2>1 DEF Wants
  <2>3. i # 1
    BY <1>2, <1>4, <2>2
  <2>4. i \in Nat /\ i - 1 \in TerrainsAsked(t) /\ t[i - 1] = ms[i]
    BY <1>3, <2>3
  <2>5. \A j \in TerrainsAsked(t) : j <= i - 1
    BY <1>2, <2>2, <2>4
  <2> QED
    BY <1>4, <2>2, <2>4, <2>5 DEF Wants
<1>5. CASE TerrainsAsked(t) = {}
  <2>1. \A j \in TerrainsAsked(ms) : j = 1
    BY <1>3, <1>5
  <2>2. CASE Head(ms).kind = "terrain"
    <3>1. 1 \in TerrainsAsked(ms)
      BY <1>1, <2>2 DEF TerrainsAsked
    <3>2. ms[1].id = terrain
      BY <2>1, <3>1 DEF Wants
    <3> QED
      BY <1>1, <1>5, <2>2, <3>2 DEF Wants
  <2>3. CASE Head(ms).kind # "terrain"
    <3>1. TerrainsAsked(ms) = {}
      BY <1>1, <2>1, <2>3 DEF TerrainsAsked
    <3> QED
      BY <1>5, <2>3, <3>1 DEF Wants
  <2> QED
    BY <2>2, <2>3
<1> QED
  BY <1>4, <1>5

\* A packet turns into at most one answer.
LEMMA OneLess ==
    ASSUME NEW a \in Nat, NEW b \in Nat, NEW k, NEW d, NEW e, k = d + 1, k + a <= b, d \in Nat,
           e \in {a, a + 1}
    PROVE  d + e <= b
  OBVIOUS

\* The client takes packet m and becomes e, with t the packets that are left,
\* and has answered bs.
Takes(f, m, t, acks, c, bs, e) ==
    /\ e \in Clients /\ Holds(f, e) /\ Live(e) /\ Atlas(e)
    /\ \/ bs = acks
       \/ IsTexturePacket(m) /\ \E a \in Acks : bs = acks \o <<a>> /\ Answers(f, a, e)
    /\ \A u \in Textures :
          c.held[u].revision = f[u].revision => e.held[u].revision = f[u].revision
    /\ e.transfer.id = e.current => Past(f, t, e.transfer, 0)
    /\ \A i \in TerrainsAsked(t) : e.transfer.id = t[i].id => Past(f, t, e.transfer, i)
    /\ IF m.kind = "terrain" THEN e.desired = m.id ELSE e.desired = c.desired

\* A packet that a client takes so leaves the connection in order.
LEMMA ReceiveKeeps ==
    ASSUME NEW n \in Nat, NEW terrain, NEW f, NEW s, NEW sn, NEW ms, NEW acks, NEW c, NEW l,
           Linked(n, terrain, f, s, sn, ms, acks, c, l), ms # <<>>,
           NEW t, t = Tail(ms), NEW m, m = Head(ms), NEW e, NEW bs,
           Takes(f, m, t, acks, c, bs, e)
    PROVE  Linked(n, terrain, f, s, sn, t, bs, e, l)
<1>0. /\ e \in Clients /\ Holds(f, e) /\ Live(e) /\ Atlas(e)
      /\ \/ bs = acks
         \/ IsTexturePacket(m) /\ \E a \in Acks : bs = acks \o <<a>> /\ Answers(f, a, e)
      /\ \A u \in Textures :
            c.held[u].revision = f[u].revision => e.held[u].revision = f[u].revision
      /\ e.transfer.id = e.current => Past(f, t, e.transfer, 0)
      /\ \A i \in TerrainsAsked(t) : e.transfer.id = t[i].id => Past(f, t, e.transfer, i)
      /\ IF m.kind = "terrain" THEN e.desired = m.id ELSE e.desired = c.desired
  BY DEF Takes
<1>1. /\ Typed(f, s, sn, ms, acks, c, l) /\ ServerSide(n, f, s, sn, ms, acks)
      /\ ClientSide(f, sn, acks, c, l) /\ Drawn(f, ms, c) /\ Wants(terrain, ms, c)
  BY DEF Linked, Ends
<1>2. /\ f \in FileTables /\ ms \in Seq(ClientPackets) /\ c \in Clients /\ acks \in Seq(Acks)
      /\ s \in Servings
  BY <1>1 DEF Typed
<1>3. /\ t \in Seq(ClientPackets) /\ Len(ms) \in Nat \ {0}
      /\ DOMAIN ms = 1 .. Len(ms) /\ DOMAIN t = 1 .. (Len(ms) - 1)
      /\ \A k \in 1 .. (Len(ms) - 1) : t[k] = ms[k + 1]
  BY <1>2, TailIs
<1>4. Len(acks) \in Nat /\ DOMAIN acks = 1 .. Len(acks) /\ \A i \in DOMAIN acks : acks[i] \in Acks
  BY <1>2, LenProperties, ElementOfSeq
<1>5. \A i \in DOMAIN acks : Answers(f, acks[i], e)
  <2> SUFFICES ASSUME NEW i \in DOMAIN acks PROVE Answers(f, acks[i], e)
    OBVIOUS
  <2>1. Answers(f, acks[i], c)
    BY <1>1 DEF ClientSide
  <2>2. acks[i].id \in Textures
    BY <1>4 DEF Acks
  <2> QED
    BY <1>0, <2>1, <2>2 DEF Answers
<1>6. /\ bs \in Seq(Acks) /\ \A i \in DOMAIN bs : Answers(f, bs[i], e)
      /\ bs = acks \/ (IsTexturePacket(m) /\ Len(bs) = Len(acks) + 1)
  <2>1. CASE bs = acks
    BY <1>2, <1>5, <2>1
  <2>2. ASSUME NEW a \in Acks, IsTexturePacket(m), bs = acks \o <<a>>, Answers(f, a, e)
        PROVE  /\ bs \in Seq(Acks) /\ \A i \in DOMAIN bs : Answers(f, bs[i], e)
               /\ Len(bs) = Len(acks) + 1
    <3>1. <<a>> \in Seq(Acks) /\ Len(<<a>>) = 1 /\ <<a>>[1] = a
      OBVIOUS
    <3>2. /\ bs \in Seq(Acks) /\ Len(bs) = Len(acks) + 1
          /\ \A i \in 1 .. (Len(acks) + 1) :
                bs[i] = IF i <= Len(acks) THEN acks[i] ELSE <<a>>[i - Len(acks)]
      BY <1>2, <2>2, <3>1, ConcatProperties
    <3>3. DOMAIN bs = 1 .. (Len(acks) + 1)
      BY <3>2, LenProperties
    <3>4. ASSUME NEW i \in DOMAIN bs PROVE Answers(f, bs[i], e)
      <4>1. CASE i <= Len(acks)
        <5>1. i \in DOMAIN acks /\ bs[i] = acks[i]
          BY <1>4, <3>2, <3>3, <4>1
        <5> QED
          BY <1>5, <5>1
      <4>2. CASE ~(i <= Len(acks))
        <5>1. i - Len(acks) = 1 /\ bs[i] = <<a>>[i - Len(acks)]
          BY <1>4, <3>2, <3>3, <4>2
        <5>2. bs[i] = a
          BY <3>1, <5>1
        <5> QED
          BY <2>2, <5>2
      <4> QED
        BY <4>1, <4>2
    <3> QED
      BY <3>2, <3>4
  <2> QED
    BY <1>0, <2>1, <2>2
<1>7. UnderWay(n, s, t, bs)
  <2>1. Cardinality(TexturePackets(ms)) + Len(acks) <= n + (IF s.waiting THEN 1 ELSE 0)
    BY <1>1 DEF ServerSide, UnderWay
  <2>2. n + (IF s.waiting THEN 1 ELSE 0) \in Nat
    OBVIOUS
  <2>3. /\ Cardinality(TexturePackets(t)) \in Nat
        /\ Cardinality(TexturePackets(ms)) =
              Cardinality(TexturePackets(t)) + (IF IsTexturePacket(m) THEN 1 ELSE 0)
    BY <1>2, <1>3, CountTail, TextureCount
  <2>4. CASE IsTexturePacket(m)
    <3>1. Len(bs) \in {Len(acks), Len(acks) + 1}
      BY <1>6
    <3> QED
      BY <1>4, <2>1, <2>2, <2>3, <2>4, <3>1, OneLess DEF UnderWay
  <2>5. CASE ~IsTexturePacket(m)
    <3>1. bs = acks /\ Cardinality(TexturePackets(ms)) = Cardinality(TexturePackets(t))
      BY <1>6, <2>3, <2>5
    <3> QED
      BY <2>1, <3>1 DEF UnderWay
  <2> QED
    BY <2>4, <2>5
<1>8. \A i \in DOMAIN t : Says(f, t[i])
  <2> SUFFICES ASSUME NEW i \in DOMAIN t PROVE Says(f, t[i])
    OBVIOUS
  <2>1. i + 1 \in DOMAIN ms /\ t[i] = ms[i + 1]
    BY <1>3
  <2> QED
    BY <1>1, <2>1 DEF ServerSide
<1>9. Guarded(f, t, e)
  BY <1>0, <1>1, <1>2, GuardedReceive DEF Drawn
<1>10. Wants(terrain, t, e)
  BY <1>0, <1>1, <1>2, WantsReceive
<1>11. Delivered(f, sn, l, e)
  BY <1>0, <1>1 DEF ClientSide, Delivered
<1> QED
  BY <1>0, <1>1, <1>3, <1>6, <1>7, <1>8, <1>9, <1>10, <1>11
     DEF Linked, Ends, Typed, ServerSide, ClientSide, Drawn

\* The client's textures on their way change nothing of what it draws.
WithTransfer(c, x) == [c EXCEPT !.transfer = x]

\* A change of the transfer alone changes nothing that is drawn.
LEMMA TransferOnly ==
    ASSUME NEW c \in Clients, NEW x \in Transfers, NEW e, e = WithTransfer(c, x)
    PROVE  /\ e \in Clients /\ e.transfer = x /\ e.held = c.held /\ e.desired = c.desired
           /\ e.current = c.current /\ e.received = c.received
           /\ Live(c) => Live(e)
           /\ Atlas(c) => Atlas(e)
<1>1. c = [held |-> c.held, transfer |-> c.transfer, desired |-> c.desired,
           current |-> c.current, received |-> c.received, built |-> c.built]
  BY ClientFields
<1>2. e = [held |-> c.held, transfer |-> x, desired |-> c.desired,
           current |-> c.current, received |-> c.received, built |-> c.built]
  BY <1>1 DEF WithTransfer
<1>3. /\ e.transfer = x /\ e.held = c.held /\ e.desired = c.desired
      /\ e.current = c.current /\ e.received = c.received /\ e.built = c.built
  BY <1>2
<1>4. e \in Clients
  BY <1>2, ClientFields DEF Clients
<1>5. \A t : Gpu(e, t) = Gpu(c, t) /\ Usable(e, t) = Usable(c, t)
  BY <1>3, SameGpu
<1>6. Live(c) => Live(e)
  BY <1>3, <1>5 DEF Live
<1>7. Atlas(c) => Atlas(e)
  BY <1>3, <1>5 DEF Atlas
<1> QED
  BY <1>3, <1>4, <1>6, <1>7

\* What the first packet says.
LEMMA FirstSays ==
    ASSUME NEW n, NEW terrain, NEW f, NEW s, NEW sn, NEW ms, NEW acks, NEW c, NEW l,
           Linked(n, terrain, f, s, sn, ms, acks, c, l), ms # <<>>,
           NEW m, m = Head(ms)
    PROVE  /\ m \in ClientPackets /\ Says(f, m) /\ 1 \in DOMAIN ms /\ ms[1] = m
           /\ f \in FileTables /\ ms \in Seq(ClientPackets) /\ c \in Clients
           /\ Holds(f, c) /\ Live(c) /\ Atlas(c) /\ Guarded(f, ms, c)
<1>1. /\ Typed(f, s, sn, ms, acks, c, l) /\ ServerSide(n, f, s, sn, ms, acks)
      /\ ClientSide(f, sn, acks, c, l) /\ Drawn(f, ms, c)
  BY DEF Linked, Ends
<1>2. f \in FileTables /\ ms \in Seq(ClientPackets) /\ c \in Clients
  BY <1>1 DEF Typed
<1>3. m \in ClientPackets /\ ms[1] = m /\ 1 \in DOMAIN ms
  BY <1>2, TailIs
<1> QED
  BY <1>1, <1>2, <1>3 DEF ServerSide, ClientSide, Drawn

\* Where the tail asks for a terrain, the whole did one place later.
LEMMA AskedLater ==
    ASSUME NEW ms \in Seq(ClientPackets), ms # <<>>, NEW t, t = Tail(ms), NEW i \in TerrainsAsked(t)
    PROVE  /\ i \in Nat /\ i + 1 \in TerrainsAsked(ms) /\ t[i] = ms[i + 1]
           /\ 1 \in 1 .. ((i + 1) - 1)
  BY TailIs DEF TerrainsAsked

\* The same file is past as well.
LEMMA PastSame ==
    ASSUME NEW f, NEW ms, NEW x, NEW y, NEW i, Past(f, ms, x, i),
           y.id = x.id, y.revision = x.revision, y.width = x.width
    PROVE  Past(f, ms, y, i)
  BY DEF Past

\* A client that awaits nothing need not be guarded, one that goes on is.
LEMMA NothingGuards ==
    ASSUME NEW ms \in Seq(ClientPackets), ms # <<>>, NEW t, t = Tail(ms),
           NEW e \in Clients, e.transfer = NoTransfer
    PROVE  e.transfer.id # e.current /\ \A i \in TerrainsAsked(t) : e.transfer.id # t[i].id
<1>0. e.transfer.id = 0
  BY DEF NoTransfer
<1>1. e.transfer.id # e.current
  BY <1>0, ClientFields, TerrainsAre
<1>2. ASSUME NEW i \in TerrainsAsked(t) PROVE e.transfer.id # t[i].id
  <2>1. i \in Nat /\ i + 1 \in TerrainsAsked(ms) /\ t[i] = ms[i + 1]
    BY AskedLater
  <2>2. ms[i + 1].kind = "terrain" /\ ms[i + 1] \in ClientPackets
    BY <2>1, LenProperties, ElementOfSeq DEF TerrainsAsked
  <2>3. t[i].id \in Terrains
    BY <2>1, <2>2, PacketKinds
  <2> QED
    BY <1>0, <2>3, TerrainsAre
<1> QED
  BY <1>1, <1>2

\* The guards of a transfer that goes on, and of a terrain that stays.
LEMMA SameGuards ==
    ASSUME NEW f, NEW ms \in Seq(ClientPackets), ms # <<>>, NEW t, t = Tail(ms),
           NEW c, NEW e, Guarded(f, ms, c), e.current = c.current,
           e.transfer.id = c.transfer.id, e.transfer.revision = c.transfer.revision,
           e.transfer.width = c.transfer.width
    PROVE  /\ e.transfer.id = e.current => Past(f, t, e.transfer, 0)
           /\ \A i \in TerrainsAsked(t) : e.transfer.id = t[i].id => Past(f, t, e.transfer, i)
<1>1. ASSUME e.transfer.id = e.current PROVE Past(f, t, e.transfer, 0)
  <2>1. Past(f, ms, c.transfer, 0)
    BY <1>1 DEF Guarded
  <2>2. Past(f, t, c.transfer, 0)
    BY <2>1, PastTail
  <2> QED
    BY <2>2, PastSame
<1>2. ASSUME NEW i \in TerrainsAsked(t), e.transfer.id = t[i].id PROVE Past(f, t, e.transfer, i)
  <2>1. i \in Nat /\ i + 1 \in TerrainsAsked(ms) /\ t[i] = ms[i + 1]
    BY AskedLater
  <2>2. Past(f, ms, c.transfer, i + 1)
    BY <1>2, <2>1 DEF Guarded
  <2>3. Past(f, t, c.transfer, i)
    BY <2>1, <2>2, PastTail
  <2> QED
    BY <2>3, PastSame
<1> QED
  BY <1>1, <1>2

\* What becomes of an announcement.
Announced(c, m) == IF Acceptable(c, m) THEN BeginTransfer(m) ELSE NoTransfer
AnswerTo(c, m) == IF Acceptable(c, m) THEN 0 ELSE Refused

\* The announcement of a file is accepted or refused.
LEMMA ReceiveBegin ==
    ASSUME NEW n \in Nat, NEW terrain, NEW f, NEW s, NEW sn, NEW ms, NEW acks, NEW c, NEW l,
           Linked(n, terrain, f, s, sn, ms, acks, c, l), ms # <<>>,
           NEW t, t = Tail(ms), NEW m, m = Head(ms), m.kind = "begin",
           NEW e, e = WithTransfer(c, Announced(c, m)),
           NEW bs, bs = acks \o Ack(m, AnswerTo(c, m))
    PROVE  Linked(n, terrain, f, s, sn, t, bs, e, l)
<1> DEFINE y == Announced(c, m)
           answer == [id |-> m.id, revision |-> m.revision, offset |-> AnswerTo(c, m)]
<1>1. /\ m \in ClientPackets /\ Says(f, m) /\ 1 \in DOMAIN ms /\ ms[1] = m
      /\ f \in FileTables /\ ms \in Seq(ClientPackets) /\ c \in Clients
      /\ Holds(f, c) /\ Live(c) /\ Atlas(c) /\ Guarded(f, ms, c)
  BY FirstSays
<1>2. /\ m.id \in Textures /\ m.revision \in Revisions \ {0} /\ m.chunks \in Sizes
      /\ m.width \in Widths /\ m.revision \in Nat \ {0}
  BY <1>1, PacketKinds DEF Revisions
<1>3. 0 \in Offsets /\ m.chunks > 0 /\ m.chunks \in Nat
  BY <1>2, OffsetsAre
<1>4. BeginTransfer(m) \in Transfers
  BY <1>2, <1>3 DEF BeginTransfer, Transfers
<1>5. y \in Transfers
  BY <1>4 DEF Transfers, Announced
<1>6. e = WithTransfer(c, y) /\ bs = acks \o <<answer>>
  BY DEF Ack
<1>7. TrueOf(f[m.id], m) /\ f[m.id].revision \in Nat /\ f[m.id].chunks \in Nat
  BY <1>1, <1>2, FileFields DEF Says
<1>8. answer \in Acks /\ Answers(f, answer, e)
  <2>1. answer \in Acks
    BY <1>2, <1>3 DEF Acks, AnswerTo
  <2>2. m.revision = f[m.id].revision => f[m.id].chunks # 0 /\ f[m.id].chunks # Refused
    BY <1>2, <1>3, <1>7 DEF TrueOf, Refused
  <2> QED
    BY <1>7, <2>1, <2>2 DEF Answers, TrueOf, AnswerTo
<1> HIDE DEF y, answer
<1>9. /\ e \in Clients /\ e.transfer = y /\ e.held = c.held /\ e.desired = c.desired
      /\ e.current = c.current /\ Live(e) /\ Atlas(e)
  BY <1>1, <1>5, <1>6, TransferOnly
<1>10. CASE Acceptable(c, m)
  <2>1. /\ y.id = m.id /\ y.revision = m.revision /\ y.chunks = m.chunks /\ y.width = m.width
        /\ y.received = 0 /\ y.bytes = {}
    BY <1>10 DEF y, Announced, BeginTransfer
  <2>2. Holds(f, e)
    BY ZenonT(60), <1>1, <1>2, <1>3, <1>7, <1>9, <1>10, <2>1 DEF Holds, TrueOf, Acceptable
  <2>3. e.transfer.id = e.current => Past(f, t, e.transfer, 0)
    BY <1>9, <1>10, <2>1 DEF Past, Acceptable
  <2>4. ASSUME NEW i \in TerrainsAsked(t), e.transfer.id = t[i].id
        PROVE  Past(f, t, e.transfer, i)
    <3>1. /\ i \in Nat /\ i + 1 \in TerrainsAsked(ms) /\ t[i] = ms[i + 1]
          /\ 1 \in 1 .. ((i + 1) - 1)
      BY <1>1, AskedLater
    <3>2. Past(f, ms, ms[1], i + 1)
      BY ZenonT(60), <1>1, <1>9, <2>1, <2>4, <3>1 DEF Guarded
    <3>3. Past(f, t, m, i)
      BY <1>1, <3>1, <3>2, PastTail
    <3> QED
      BY <1>9, <2>1, <3>3, PastSame
  <2>5. Takes(f, m, t, acks, c, bs, e)
    BY <1>6, <1>8, <1>9, <2>2, <2>3, <2>4 DEF Takes, IsTexturePacket
  <2> QED
    BY <2>5, ReceiveKeeps
<1>11. CASE ~Acceptable(c, m)
  <2>0. y = NoTransfer
    BY <1>11 DEF y, Announced
  <2>1. y.id = 0
    BY <2>0 DEF NoTransfer
  <2>2. Holds(f, e)
    BY <1>1, <1>9, <2>1 DEF Holds
  <2>3. e.transfer.id # e.current /\ \A i \in TerrainsAsked(t) : e.transfer.id # t[i].id
    BY ZenonT(60), <1>1, <1>9, <2>0, NothingGuards
  <2>4. Takes(f, m, t, acks, c, bs, e)
    BY <1>6, <1>8, <1>9, <2>2, <2>3 DEF Takes, IsTexturePacket
  <2> QED
    BY <2>4, ReceiveKeeps
<1> QED
  BY <1>10, <1>11

\* A packet about another file than the one awaited.
LEMMA DataIgnored ==
    ASSUME NEW n \in Nat, NEW terrain, NEW f, NEW s, NEW sn, NEW ms, NEW acks, NEW c, NEW l,
           Linked(n, terrain, f, s, sn, ms, acks, c, l), ms # <<>>,
           NEW t, t = Tail(ms), NEW m, m = Head(ms), m.kind = "data"
    PROVE  Linked(n, terrain, f, s, sn, t, acks, c, l)
<1>1. /\ ms \in Seq(ClientPackets) /\ c \in Clients
      /\ Holds(f, c) /\ Live(c) /\ Atlas(c) /\ Guarded(f, ms, c)
  BY FirstSays
<1>2. /\ c.transfer.id = c.current => Past(f, t, c.transfer, 0)
      /\ \A i \in TerrainsAsked(t) : c.transfer.id = t[i].id => Past(f, t, c.transfer, i)
  BY <1>1, SameGuards
<1>3. Takes(f, m, t, acks, c, acks, c)
  BY <1>1, <1>2 DEF Takes
<1> QED
  BY <1>3, ReceiveKeeps

\* The transfer with one more chunk.
Piece(x, d) == [x EXCEPT !.received = @ + 1, !.bytes = @ \cup {d.from}]

Within(x) == x.received <= x.chunks
Partial(x) == x.received <= x.chunks /\ x.received # x.chunks

PieceOf(f, c, x) ==
    /\ x.id = c.transfer.id /\ x.revision = c.transfer.revision
    /\ x.chunks = c.transfer.chunks /\ x.width = c.transfer.width
    /\ x.id \in Textures /\ x.revision \in Revisions \ {0} /\ x.revision \in Nat
    /\ x.chunks \in Sizes /\ x.chunks \in Nat \ {0} /\ x.width \in Widths
    /\ x.bytes = {x.revision} /\ x.received \in Nat \ {0}
    /\ TrueOf(f[x.id], x) /\ x.revision > c.held[x.id].revision
    /\ Within(x) => x \in Transfers

\* A piece of data comes from the file the transfer is of.
LEMMA PieceFacts ==
    ASSUME NEW n \in Nat, NEW terrain, NEW f, NEW s, NEW sn, NEW ms, NEW acks, NEW c, NEW l,
           Linked(n, terrain, f, s, sn, ms, acks, c, l), ms # <<>>,
           NEW m, m = Head(ms), m.kind = "data",
           m.id = c.transfer.id, m.revision = c.transfer.revision,
           NEW x, x = Piece(c.transfer, m)
    PROVE  PieceOf(f, c, x)
<1> DEFINE y == c.transfer
<1>1. /\ m \in ClientPackets /\ Says(f, m) /\ c \in Clients /\ Holds(f, c)
  BY FirstSays
<1>2. m.id \in Textures /\ m.id # 0
  BY <1>1, PacketKinds, WidthsAre
<1>3. /\ TrueOf(f[y.id], y) /\ y.revision > c.held[y.id].revision
      /\ y.bytes \subseteq {y.revision}
  BY <1>1, <1>2 DEF Holds
<1>4. y \in [id : Textures, revision : Revisions \ {0}, chunks : Sizes, width : Widths,
             received : Offsets, bytes : SUBSET Revisions]
  <2>1. y \in Transfers /\ y # NoTransfer
    BY <1>1, <1>2, ClientFields DEF NoTransfer
  <2> QED
    BY <2>1 DEF Transfers
<1>5. /\ y.id \in Textures /\ y.revision \in Revisions \ {0} /\ y.chunks \in Sizes
      /\ y.width \in Widths /\ y.received \in Offsets /\ y.bytes \in SUBSET Revisions
      /\ y = [id |-> y.id, revision |-> y.revision, chunks |-> y.chunks, width |-> y.width,
              received |-> y.received, bytes |-> y.bytes]
  BY <1>4
<1>6. m.from = y.revision
  BY <1>1 DEF Says
<1> HIDE DEF y
<1>7. x = [id |-> y.id, revision |-> y.revision, chunks |-> y.chunks, width |-> y.width,
           received |-> y.received + 1, bytes |-> y.bytes \cup {m.from}]
  BY <1>5 DEF Piece, y
<1>8. /\ x.id = y.id /\ x.revision = y.revision /\ x.chunks = y.chunks /\ x.width = y.width
      /\ x.received = y.received + 1 /\ x.bytes = y.bytes \cup {m.from}
  BY <1>7
<1>9. x.bytes = {x.revision}
  BY <1>3, <1>6, <1>8
<1>10. x.received \in Nat \ {0} /\ x.chunks \in Nat \ {0} /\ x.revision \in Nat
  <2>1. y.received \in Nat /\ y.chunks \in Nat \ {0}
    BY <1>5, OffsetsAre
  <2>2. y.revision \in Nat
    BY <1>5 DEF Revisions
  <2> QED
    BY <1>8, <2>1, <2>2
<1>11. TrueOf(f[x.id], x)
  BY <1>3, <1>8 DEF TrueOf
<1>12. ASSUME Within(x) PROVE x \in Transfers
  <2>1. x.received \in Offsets
    BY <1>5, <1>8, <1>10, <1>12, OffsetsAre DEF Within
  <2>2. x.bytes \in SUBSET Revisions
    BY <1>5, <1>8, <1>9
  <2>3. x = [id |-> x.id, revision |-> x.revision, chunks |-> x.chunks, width |-> x.width,
             received |-> x.received, bytes |-> x.bytes]
    BY <1>7, <1>8
  <2> QED
    BY <1>5, <1>8, <2>1, <2>2, <2>3 DEF Transfers
<1> QED
  BY <1>3, <1>5, <1>8, <1>9, <1>10, <1>11, <1>12 DEF y, PieceOf

\* A chunk out of order, or a texture that does not fit its models: the
\* transfer is given up.
LEMMA DataRefused ==
    ASSUME NEW n \in Nat, NEW terrain, NEW f, NEW s, NEW sn, NEW ms, NEW acks, NEW c, NEW l,
           Linked(n, terrain, f, s, sn, ms, acks, c, l), ms # <<>>,
           NEW t, t = Tail(ms), NEW m, m = Head(ms), m.kind = "data",
           m.id = c.transfer.id, m.revision = c.transfer.revision,
           NEW x, x = Piece(c.transfer, m),
           NEW e, e = WithTransfer(c, NoTransfer), NEW bs, bs = acks \o Ack(x, Refused)
    PROVE  Linked(n, terrain, f, s, sn, t, bs, e, l)
<1> DEFINE answer == [id |-> x.id, revision |-> x.revision, offset |-> Refused]
<1>1. /\ m \in ClientPackets /\ f \in FileTables /\ ms \in Seq(ClientPackets) /\ c \in Clients
      /\ Holds(f, c) /\ Live(c) /\ Atlas(c)
  BY FirstSays
<1>2. x.id \in Textures /\ x.revision \in Revisions \ {0} /\ TrueOf(f[x.id], x)
  <2>1. PieceOf(f, c, x)
    BY PieceFacts
  <2> QED
    BY <2>1 DEF PieceOf
<1>3. NoTransfer \in Transfers /\ NoTransfer.id = 0
  BY DEF Transfers, NoTransfer
<1>4. /\ e \in Clients /\ e.transfer = NoTransfer /\ e.held = c.held /\ e.desired = c.desired
      /\ e.current = c.current /\ Live(e) /\ Atlas(e)
  BY <1>1, <1>3, TransferOnly
<1>5. Holds(f, e)
  BY <1>1, <1>3, <1>4 DEF Holds
<1>6. answer \in Acks
  BY <1>2 DEF Acks
<1>7. Answers(f, answer, e)
  <2>1. f[x.id].chunks \in Nat
    BY <1>1, <1>2, FileFields
  <2>2. f[x.id].chunks # Refused
    BY <2>1 DEF Refused
  <2> QED
    BY <1>2, <2>2 DEF Answers, TrueOf
<1>8. bs = acks \o <<answer>>
  BY DEF Ack
<1>9. e.transfer.id # e.current /\ \A i \in TerrainsAsked(t) : e.transfer.id # t[i].id
  BY <1>1, <1>4, NothingGuards
<1>10. Takes(f, m, t, acks, c, bs, e)
  <2>1. IsTexturePacket(m) /\ m.kind # "terrain"
    BY DEF IsTexturePacket
  <2> HIDE DEF answer
  <2> QED
    BY <1>4, <1>5, <1>6, <1>7, <1>8, <1>9, <2>1 DEF Takes
<1> QED
  BY <1>10, ReceiveKeeps

\* A chunk in order that is not the last.
LEMMA DataTaken ==
    ASSUME NEW n \in Nat, NEW terrain, NEW f, NEW s, NEW sn, NEW ms, NEW acks, NEW c, NEW l,
           Linked(n, terrain, f, s, sn, ms, acks, c, l), ms # <<>>,
           NEW t, t = Tail(ms), NEW m, m = Head(ms), m.kind = "data",
           m.id = c.transfer.id, m.revision = c.transfer.revision,
           NEW x, x = Piece(c.transfer, m), Partial(x),
           NEW e, e = WithTransfer(c, x), NEW bs, bs = acks \o Ack(x, x.received)
    PROVE  Linked(n, terrain, f, s, sn, t, bs, e, l)
<1> DEFINE answer == [id |-> x.id, revision |-> x.revision, offset |-> x.received]
<1>1. /\ m \in ClientPackets /\ f \in FileTables /\ ms \in Seq(ClientPackets) /\ c \in Clients
      /\ Holds(f, c) /\ Live(c) /\ Atlas(c) /\ Guarded(f, ms, c)
  BY FirstSays
<1>2. /\ x.id = c.transfer.id /\ x.revision = c.transfer.revision /\ x.width = c.transfer.width
      /\ x.id \in Textures /\ x.revision \in Revisions \ {0}
      /\ x.chunks \in Sizes /\ x.chunks \in Nat \ {0} /\ x.received \in Nat \ {0}
      /\ x.bytes = {x.revision} /\ TrueOf(f[x.id], x) /\ x.revision > c.held[x.id].revision
  <2>1. PieceOf(f, c, x)
    BY PieceFacts
  <2> QED
    BY <2>1 DEF PieceOf
<1>0. x \in Transfers
  <2>1. Within(x)
    BY DEF Within, Partial
  <2>2. PieceOf(f, c, x)
    BY PieceFacts
  <2> QED
    BY <2>1, <2>2 DEF PieceOf
<1>3. /\ e \in Clients /\ e.transfer = x /\ e.held = c.held /\ e.desired = c.desired
      /\ e.current = c.current /\ Live(e) /\ Atlas(e)
  BY <1>0, <1>1, <1>2, TransferOnly
<1>4. Holds(f, e)
  <2>1. x.received < x.chunks
    BY <1>2 DEF Partial
  <2>2. /\ TrueOf(f[e.transfer.id], e.transfer)
        /\ e.transfer.revision > e.held[e.transfer.id].revision
        /\ e.transfer.received < e.transfer.chunks
        /\ e.transfer.bytes \subseteq {e.transfer.revision}
    BY <1>2, <1>3, <2>1
  <2>3. \A v \in Textures :
            /\ c.held[v].revision <= f[v].revision
            /\ c.held[v].revision = f[v].revision => c.held[v].width = f[v].width
            /\ c.held[v] # Missing => c.held[v].bytes = {c.held[v].revision}
    BY <1>1 DEF Holds
  <2>4. e.held = c.held
    BY <1>3
  <2> QED
    BY ONLY <2>2, <2>3, <2>4 DEF Holds
<1>5. answer \in Acks
  BY <1>2, OffsetsAre DEF Acks, Partial
<1>6. Answers(f, answer, e)
  BY <1>2 DEF Answers, TrueOf, Partial
<1>7. bs = acks \o <<answer>>
  BY DEF Ack
<1>8. /\ e.transfer.id = e.current => Past(f, t, e.transfer, 0)
      /\ \A i \in TerrainsAsked(t) : e.transfer.id = t[i].id => Past(f, t, e.transfer, i)
  BY ZenonT(60), <1>1, <1>2, <1>3, SameGuards
<1>9. Takes(f, m, t, acks, c, bs, e)
  <2>1. IsTexturePacket(m) /\ m.kind # "terrain"
    BY DEF IsTexturePacket
  <2> HIDE DEF answer
  <2> QED
    BY <1>3, <1>4, <1>5, <1>6, <1>7, <1>8, <2>1 DEF Takes
<1> QED
  BY <1>9, ReceiveKeeps

\* The last chunk of a texture that fits: it is put in place.
LEMMA DataWhole ==
    ASSUME NEW n \in Nat, NEW terrain, NEW f, NEW s, NEW sn, NEW ms, NEW acks, NEW c, NEW l,
           Linked(n, terrain, f, s, sn, ms, acks, c, l), ms # <<>>,
           NEW t, t = Tail(ms), NEW m, m = Head(ms), m.kind = "data",
           m.id = c.transfer.id, m.revision = c.transfer.revision,
           NEW x, x = Piece(c.transfer, m), Within(x), Fits(c, x.id, x.width),
           NEW e, e = Installed(WithTransfer(c, NoTransfer), x),
           NEW bs, bs = acks \o Ack(x, x.chunks)
    PROVE  Linked(n, terrain, f, s, sn, t, bs, e, l)
<1> DEFINE answer == [id |-> x.id, revision |-> x.revision, offset |-> x.chunks]
           z == WithTransfer(c, NoTransfer)
           h == [revision |-> x.revision, width |-> x.width, bytes |-> x.bytes]
<1>1. /\ m \in ClientPackets /\ f \in FileTables /\ ms \in Seq(ClientPackets) /\ c \in Clients
      /\ Holds(f, c) /\ Live(c) /\ Atlas(c) /\ Guarded(f, ms, c) /\ 1 \in DOMAIN ms /\ ms[1] = m
  BY FirstSays
<1>2. /\ x.id = c.transfer.id /\ x.revision = c.transfer.revision /\ x.width = c.transfer.width
      /\ x.id \in Textures /\ x.revision \in Revisions \ {0} /\ x.revision \in Nat
      /\ x.chunks \in Sizes /\ x.chunks \in Nat \ {0} /\ x.received \in Nat \ {0}
      /\ x.bytes = {x.revision} /\ TrueOf(f[x.id], x) /\ x.revision > c.held[x.id].revision
  <2>1. PieceOf(f, c, x)
    BY PieceFacts
  <2> QED
    BY <2>1 DEF PieceOf
<1>0. x \in Transfers
  <2>1. Within(x)
    BY DEF Within, Partial
  <2>2. PieceOf(f, c, x)
    BY PieceFacts
  <2> QED
    BY <2>1, <2>2 DEF PieceOf
<1>3. NoTransfer \in Transfers /\ NoTransfer.id = 0 /\ x.id # 0
  BY <1>2, WidthsAre DEF Transfers, NoTransfer
<1>4. /\ z \in Clients /\ z.transfer = NoTransfer /\ z.held = c.held /\ z.desired = c.desired
      /\ z.current = c.current /\ z.received = c.received /\ Live(z) /\ Atlas(z)
  BY <1>1, <1>3, TransferOnly
<1>5. x.id = c.current => x.width = TerrainWidth
  <2> SUFFICES ASSUME x.id = c.current, x.width # TerrainWidth PROVE FALSE
    OBVIOUS
  <2>1. Past(f, ms, c.transfer, 0) /\ c.transfer.width # TerrainWidth
    BY <1>1, <1>2 DEF Guarded
  <2>2. \A j \in DOMAIN ms :
            j > 0 /\ ms[j].kind = "data" /\ ms[j].id = c.transfer.id =>
                ms[j].revision # c.transfer.revision
    BY <2>1 DEF Past
  <2>3. ms[1].revision # c.transfer.revision
    BY <1>1, <2>2
  <2> QED
    BY <1>1, <2>3
<1>6. Fits(z, x.id, x.width)
  BY <1>4 DEF Fits
<1> HIDE DEF z, h, answer
<1>7. /\ e \in Clients /\ e.transfer = NoTransfer /\ e.desired = c.desired
      /\ e.held = [c.held EXCEPT ![x.id] = h] /\ Live(e) /\ Atlas(e)
  <2>1. /\ z \in Clients /\ x \in Transfers /\ x.id # 0 /\ x.bytes = {x.revision}
        /\ Live(z) /\ Atlas(z) /\ Fits(z, x.id, x.width)
        /\ x.id = z.current => x.width = TerrainWidth
        /\ e = Installed(z, x)
    BY <1>0, <1>2, <1>3, <1>4, <1>5, <1>6 DEF z
  <2>2. /\ e \in Clients /\ e.transfer = z.transfer /\ e.desired = z.desired
        /\ e.held = WithHeld(z, x) /\ Live(e) /\ Atlas(e)
    BY ONLY <2>1, InstalledFacts
  <2> QED
    BY <1>4, <2>2 DEF h, WithHeld
<1>8. /\ e.held[x.id] = h /\ \A u \in Textures \ {x.id} : e.held[u] = c.held[u]
      /\ h.revision = x.revision /\ h.width = x.width /\ h.bytes = {h.revision}
  <2>1. c.held \in [Textures -> Holdings]
    BY <1>1, ClientFields
  <2>2. h.revision = x.revision /\ h.width = x.width /\ h.bytes = {h.revision}
    BY <1>2 DEF h
  <2> QED
    BY <1>2, <1>7, <2>1, <2>2
<1>9. f[x.id].revision \in Nat /\ c.held[x.id].revision \in Nat
  BY <1>1, <1>2, FileFields, TransferFields
<1>10. Holds(f, e)
  <2> SUFFICES ASSUME NEW u \in Textures
               PROVE  /\ e.held[u].revision <= f[u].revision
                      /\ e.held[u].revision = f[u].revision => e.held[u].width = f[u].width
                      /\ e.held[u] # Missing => e.held[u].bytes = {e.held[u].revision}
    BY <1>3, <1>7 DEF Holds
  <2>1. CASE u = x.id
    BY <1>2, <1>8, <2>1 DEF TrueOf
  <2>2. CASE u # x.id
    <3>1. /\ c.held[u].revision <= f[u].revision
          /\ c.held[u].revision = f[u].revision => c.held[u].width = f[u].width
          /\ c.held[u] # Missing => c.held[u].bytes = {c.held[u].revision}
      BY <1>1 DEF Holds
    <3>2. e.held[u] = c.held[u]
      BY <1>8, <2>2
    <3> QED
      BY <3>1, <3>2
  <2> QED
    BY <2>1, <2>2
<1>11. \A u \in Textures :
          c.held[u].revision = f[u].revision => e.held[u].revision = f[u].revision
  <2> SUFFICES ASSUME NEW u \in Textures, c.held[u].revision = f[u].revision
               PROVE  e.held[u].revision = f[u].revision
    OBVIOUS
  <2>1. u # x.id
    BY SMTT(30), <1>2, <1>9 DEF TrueOf
  <2> QED
    BY <1>8, <2>1
<1>12. answer \in Acks /\ Answers(f, answer, e)
  <2>1. x.chunks \in Offsets /\ x.revision \in Revisions
    BY <1>2, OffsetsAre
  <2>2. answer \in Acks
    BY <1>2, <2>1 DEF Acks, answer
  <2>3. Answers(f, answer, e)
    BY <1>2, <1>8 DEF Answers, TrueOf, answer
  <2> QED
    BY <2>2, <2>3
<1>13. bs = acks \o <<answer>>
  BY DEF Ack, answer
<1>14. e.transfer.id # e.current /\ \A i \in TerrainsAsked(t) : e.transfer.id # t[i].id
  <2>1. ms \in Seq(ClientPackets) /\ e \in Clients /\ e.transfer = NoTransfer
    BY <1>1, <1>7
  <2> QED
    BY ONLY <2>1, ms # <<>>, t = Tail(ms), NothingGuards
<1>15. Takes(f, m, t, acks, c, bs, e)
  <2>1. IsTexturePacket(m) /\ m.kind # "terrain"
    BY DEF IsTexturePacket
  <2> QED
    BY <1>7, <1>10, <1>11, <1>12, <1>13, <1>14, <2>1 DEF Takes
<1> QED
  BY <1>15, ReceiveKeeps

\* The server's choice of the terrain arrives.
WithDesired(c, t) == [c EXCEPT !.desired = t]

\* A change of the desired terrain alone.
LEMMA DesiredOnly ==
    ASSUME NEW c \in Clients, NEW t \in Terrains, NEW z, z = WithDesired(c, t)
    PROVE  /\ z \in Clients
           /\ z.held = c.held /\ z.transfer = c.transfer /\ z.desired = t
           /\ z.current = c.current /\ z.received = c.received /\ z.built = c.built
<1>1. c = [held |-> c.held, transfer |-> c.transfer, desired |-> c.desired,
           current |-> c.current, received |-> c.received, built |-> c.built]
  BY ClientFields
<1>2. z = [held |-> c.held, transfer |-> c.transfer, desired |-> t,
           current |-> c.current, received |-> c.received, built |-> c.built]
  BY <1>1 DEF WithDesired
<1>3. z \in Clients
  BY <1>2, ClientFields DEF Clients
<1> QED
  BY <1>2, <1>3

\* A terrain packet.
LEMMA ReceiveTerrain ==
    ASSUME NEW n \in Nat, NEW terrain, NEW f, NEW s, NEW sn, NEW ms, NEW acks, NEW c, NEW l,
           Linked(n, terrain, f, s, sn, ms, acks, c, l), ms # <<>>,
           NEW t, t = Tail(ms), NEW m, m = Head(ms), m.kind = "terrain",
           NEW e, e = TerrainApplied(WithDesired(c, m.id))
    PROVE  Linked(n, terrain, f, s, sn, t, acks, e, l)
<1> DEFINE z == WithDesired(c, m.id)
<1>1. /\ m \in ClientPackets /\ f \in FileTables /\ ms \in Seq(ClientPackets) /\ c \in Clients
      /\ Holds(f, c) /\ Live(c) /\ Atlas(c) /\ Guarded(f, ms, c) /\ 1 \in DOMAIN ms /\ ms[1] = m
  BY FirstSays
<1>2. m.id \in Terrains
  BY <1>1, PacketKinds
<1> HIDE DEF z
<1>5. z \in Clients
  BY <1>1, <1>2, DesiredOnly DEF z
<1>6. /\ z.held = c.held /\ z.transfer = c.transfer /\ z.desired = m.id
      /\ z.current = c.current /\ z.received = c.received /\ z.built = c.built
  BY <1>1, <1>2, DesiredOnly DEF z
<1>7. \A u : Gpu(z, u) = Gpu(c, u) /\ Usable(z, u) = Usable(c, u)
  BY <1>6, SameGpu
<1>8. Usable(z, z.current)
  BY <1>1, <1>6, <1>7 DEF Atlas
<1>9. \A k \in Models : z.received[k].texture = Builtin => z.received[k].extent <= TerrainWidth
  BY <1>1, <1>6 DEF Atlas
<1>10. \A k \in Models :
           /\ z.received[k].texture # Builtin /\ z.built[k] # NoGpu =>
                  z.built[k] = Gpu(z, z.received[k].texture)
           /\ z.received[k] = NoModel => z.built[k] = NoGpu
  BY <1>1, <1>6, <1>7 DEF Live
<1>11. /\ e \in Clients
       /\ e.held = z.held /\ e.transfer = z.transfer /\ e.received = z.received
       /\ e.desired = z.desired /\ e.current \in {z.current, z.desired}
       /\ Live(e) /\ Atlas(e)
  <2>1. e = TerrainApplied(z)
    BY DEF z
  <2> QED
    BY ONLY <1>5, <1>8, <1>9, <1>10, <2>1, TerrainAppliedFacts
<1>12. Holds(f, e)
  BY SMTT(30), <1>1, <1>6, <1>11 DEF Holds
<1>13. /\ c.transfer.id = c.current => Past(f, t, c.transfer, 0)
       /\ \A i \in TerrainsAsked(t) : c.transfer.id = t[i].id => Past(f, t, c.transfer, i)
  BY <1>1, SameGuards
<1>14. c.transfer.id = m.id => Past(f, t, c.transfer, 0)
  <2> SUFFICES ASSUME c.transfer.id = m.id PROVE Past(f, t, c.transfer, 0)
    OBVIOUS
  <2>1. 1 \in TerrainsAsked(ms)
    BY <1>1 DEF TerrainsAsked
  <2>2. Past(f, ms, c.transfer, 0 + 1)
    BY <1>1, <2>1 DEF Guarded
  <2>3. 0 \in Nat
    OBVIOUS
  <2> QED
    BY <1>1, <2>2, <2>3, PastTail
<1>15. /\ e.transfer.id = e.current => Past(f, t, e.transfer, 0)
       /\ \A i \in TerrainsAsked(t) : e.transfer.id = t[i].id => Past(f, t, e.transfer, i)
  BY <1>6, <1>11, <1>13, <1>14
<1>16. Takes(f, m, t, acks, c, acks, e)
  BY <1>6, <1>11, <1>12, <1>15 DEF Takes
<1> QED
  BY <1>16, ReceiveKeeps

\* A definition of a model arrives.
LEMMA ReceiveModel ==
    ASSUME NEW n \in Nat, NEW terrain, NEW f, NEW s, NEW sn, NEW ms, NEW acks, NEW c, NEW l,
           Linked(n, terrain, f, s, sn, ms, acks, c, l), ms # <<>>,
           NEW t, t = Tail(ms), NEW m, m = Head(ms), m.kind = "model",
           NEW e, e = ModelApplied(c, m.id, m.definition)
    PROVE  Linked(n, terrain, f, s, sn, t, acks, e, l)
<1>1. /\ m \in ClientPackets /\ f \in FileTables /\ ms \in Seq(ClientPackets) /\ c \in Clients
      /\ Holds(f, c) /\ Live(c) /\ Atlas(c) /\ Guarded(f, ms, c)
  BY FirstSays
<1>2. m.id \in Models /\ m.definition \in Defined
  BY <1>1, PacketKinds
<1>3. /\ e \in Clients /\ e.held = c.held /\ e.transfer = c.transfer
      /\ e.desired = c.desired /\ e.current = c.current
  BY <1>1, <1>2, ModelAppliedFacts
<1>4. Live(e) /\ Atlas(e)
  BY <1>1, <1>2, ModelDrawn
<1>5. Holds(f, e)
  BY <1>1, <1>3 DEF Holds
<1>6. /\ e.transfer.id = e.current => Past(f, t, e.transfer, 0)
      /\ \A i \in TerrainsAsked(t) : e.transfer.id = t[i].id => Past(f, t, e.transfer, i)
  BY <1>1, <1>3, SameGuards
<1>7. Takes(f, m, t, acks, c, acks, e)
  BY <1>3, <1>4, <1>5, <1>6 DEF Takes
<1> QED
  BY <1>7, ReceiveKeeps

----------------------------------------------------------------------------
(* The server's steps: an answer is read, a transfer given up, a file      *)
(* replaced.                                                               *)

\* The parts of what the server serves and their types.
LEMMA ServingFields ==
    ASSUME NEW s \in Servings
    PROVE  /\ s.waiting \in BOOLEAN /\ s.id \in Textures \cup {0} /\ s.revision \in Revisions
           /\ s.offset \in Offsets /\ s.offset \in Nat /\ s.revision \in Nat
           /\ s = [waiting |-> s.waiting, id |-> s.id, revision |-> s.revision, offset |-> s.offset]
<1>1. /\ s.waiting \in BOOLEAN /\ s.id \in Textures \cup {0} /\ s.revision \in Revisions
      /\ s.offset \in Offsets
      /\ s = [waiting |-> s.waiting, id |-> s.id, revision |-> s.revision, offset |-> s.offset]
  BY DEF Servings
<1>2. s.offset \in Nat
  BY <1>1, OffsetsAre
<1>3. s.revision \in Nat
  BY <1>1 DEF Revisions
<1> QED
  BY <1>1, <1>2, <1>3

\* An answer that has arrived leaves room, waited for or not.
LEMMA LessThanWaiting ==
    ASSUME NEW a \in Nat, NEW b \in Nat, NEW d, NEW n \in Nat, NEW w, w \in {0, 1}, NEW v, v \in {0, 1},
           a + b <= n + w, d = b - 1
    PROVE  a + d <= n + v
  OBVIOUS

\* The server reads an answer, and serves the player as z, sn2 and l2 say.
LEMMA AnswerKeeps ==
    ASSUME NEW n \in Nat, NEW terrain, NEW f, NEW s, NEW sn, NEW ms, NEW acks, NEW c, NEW l,
           Linked(n, terrain, f, s, sn, ms, acks, c, l), acks # <<>>,
           NEW z \in Servings, NEW sn2 \in [Textures -> Revisions],
           NEW l2 \in SUBSET (Textures \X Revisions),
           Serves(f, z, sn2), Delivered(f, sn2, l2, c)
    PROVE  Linked(n, terrain, f, z, sn2, ms, Tail(acks), c, l2)
<1> DEFINE bs == Tail(acks)
<1>1. /\ Typed(f, s, sn, ms, acks, c, l) /\ ServerSide(n, f, s, sn, ms, acks)
      /\ ClientSide(f, sn, acks, c, l) /\ Drawn(f, ms, c) /\ Wants(terrain, ms, c)
  BY DEF Linked, Ends
<1>2. acks \in Seq(Acks) /\ ms \in Seq(ClientPackets) /\ s \in Servings
  BY <1>1 DEF Typed
<1>3. /\ bs \in Seq(Acks) /\ Len(acks) \in Nat \ {0} /\ Len(bs) = Len(acks) - 1
      /\ DOMAIN acks = 1 .. Len(acks) /\ DOMAIN bs = 1 .. (Len(acks) - 1)
      /\ \A i \in 1 .. (Len(acks) - 1) : bs[i] = acks[i + 1]
  BY <1>2, TailIs
<1> HIDE DEF bs
<1>4. \A i \in DOMAIN bs : Answers(f, bs[i], c)
  <2> SUFFICES ASSUME NEW i \in DOMAIN bs PROVE Answers(f, bs[i], c)
    OBVIOUS
  <2>1. i + 1 \in DOMAIN acks /\ bs[i] = acks[i + 1]
    BY <1>3
  <2> QED
    BY <1>1, <2>1 DEF ClientSide
<1>5. UnderWay(n, z, ms, bs)
  <2>1. Cardinality(TexturePackets(ms)) + Len(acks) <= n + (IF s.waiting THEN 1 ELSE 0)
    BY <1>1 DEF ServerSide, UnderWay
  <2>2. Cardinality(TexturePackets(ms)) \in Nat
    BY <1>2, TextureCount
  <2>3. /\ (IF s.waiting THEN 1 ELSE 0) \in {0, 1}
        /\ (IF z.waiting THEN 1 ELSE 0) \in {0, 1}
    OBVIOUS
  <2>4. Cardinality(TexturePackets(ms)) + Len(bs) <= n + (IF z.waiting THEN 1 ELSE 0)
    BY <1>3, <2>1, <2>2, <2>3, LessThanWaiting
  <2> QED
    BY <2>4 DEF UnderWay
<1>6. Typed(f, z, sn2, ms, bs, c, l2)
  BY <1>1, <1>3 DEF Typed
<1>7. ServerSide(n, f, z, sn2, ms, bs)
  BY <1>1, <1>5 DEF ServerSide
<1>8. ClientSide(f, sn2, bs, c, l2)
  BY <1>1, <1>4 DEF ClientSide
<1> QED
  BY <1>1, <1>6, <1>7, <1>8 DEF Linked, Ends, bs

\* What the first answer and the server's state say.
LEMMA FirstAnswer ==
    ASSUME NEW n, NEW terrain, NEW f, NEW s, NEW sn, NEW ms, NEW acks, NEW c, NEW l,
           Linked(n, terrain, f, s, sn, ms, acks, c, l), acks # <<>>, NEW a, a = Head(acks)
    PROVE  /\ a \in Acks /\ Answers(f, a, c) /\ a.id \in Textures /\ a.revision \in Revisions
           /\ a.revision \in Nat
           /\ f \in FileTables /\ s \in Servings /\ sn \in [Textures -> Revisions]
           /\ l \in SUBSET (Textures \X Revisions)
           /\ Serves(f, s, sn) /\ Delivered(f, sn, l, c)
<1>1. /\ Typed(f, s, sn, ms, acks, c, l) /\ ServerSide(n, f, s, sn, ms, acks)
      /\ ClientSide(f, sn, acks, c, l)
  BY DEF Linked, Ends
<1>2. /\ f \in FileTables /\ s \in Servings /\ sn \in [Textures -> Revisions]
      /\ l \in SUBSET (Textures \X Revisions) /\ acks \in Seq(Acks)
  BY <1>1 DEF Typed
<1>3. a \in Acks /\ 1 \in DOMAIN acks /\ acks[1] = a
  BY <1>2, TailIs
<1>4. a.id \in Textures /\ a.revision \in Revisions
  BY <1>3 DEF Acks
<1>5. a.revision \in Nat
  BY <1>4 DEF Revisions
<1> QED
  BY <1>1, <1>2, <1>3, <1>4, <1>5 DEF ServerSide, ClientSide

Stopped(s) == [s EXCEPT !.waiting = FALSE, !.id = 0]
Paused(s)  == [s EXCEPT !.waiting = FALSE]
Given(sn, t, r) == [sn EXCEPT ![t] = r]

\* A transfer that ends, or that goes on with the next piece.
LEMMA StoppedFields ==
    ASSUME NEW s \in Servings
    PROVE  /\ Stopped(s) \in Servings /\ Stopped(s).waiting = FALSE /\ Stopped(s).id = 0
           /\ Paused(s) \in Servings /\ Paused(s).waiting = FALSE /\ Paused(s).id = s.id
           /\ Paused(s).revision = s.revision /\ Paused(s).offset = s.offset
<1>1. Stopped(s) \in Servings
  BY DEF Stopped, Servings
<1>2. Stopped(s).waiting = FALSE /\ Stopped(s).id = 0
  BY DEF Stopped, Servings
<1>3. Paused(s) \in Servings
  BY DEF Paused, Servings
<1>4. /\ Paused(s).waiting = FALSE /\ Paused(s).id = s.id
      /\ Paused(s).revision = s.revision /\ Paused(s).offset = s.offset
  BY DEF Paused, Servings
<1> QED
  BY <1>1, <1>2, <1>3, <1>4

\* A revision counts as sent.
LEMMA GivenFields ==
    ASSUME NEW sn \in [Textures -> Revisions], NEW t \in Textures, NEW r \in Revisions,
           NEW g, g = Given(sn, t, r)
    PROVE  /\ g \in [Textures -> Revisions] /\ g[t] = r
           /\ \A u \in Textures \ {t} : g[u] = sn[u]
  BY DEF Given

\* Nothing is served, and of one texture a revision counts as sent that is not
\* newer than the file.
LEMMA StoppedServes ==
    ASSUME NEW f \in FileTables, NEW s, NEW sn \in [Textures -> Revisions], Serves(f, s, sn),
           NEW t \in Textures, NEW r \in Revisions, r <= f[t].revision,
           NEW z, z.waiting = FALSE, z.id = 0, NEW g, g = Given(sn, t, r)
    PROVE  Serves(f, z, g)
<1>1. \A u \in Textures : sn[u] <= f[u].revision
  BY DEF Serves
<1>2. /\ g \in [Textures -> Revisions] /\ g[t] = r
      /\ \A u \in Textures \ {t} : g[u] = sn[u]
  BY GivenFields
<1>3. \A u \in Textures : g[u] <= f[u].revision
  BY <1>1, <1>2
<1> QED
  BY <1>3 DEF Serves

\* The client refused the file.
LEMMA AnswerRefuses ==
    ASSUME NEW n \in Nat, NEW terrain, NEW f, NEW s, NEW sn, NEW ms, NEW acks, NEW c, NEW l,
           Linked(n, terrain, f, s, sn, ms, acks, c, l), acks # <<>>, NEW a, a = Head(acks)
    PROVE  Linked(n, terrain, f, Stopped(s), Given(sn, a.id, a.revision), ms, Tail(acks), c,
                  l \cup {<<a.id, a.revision>>})
<1> DEFINE l2 == l \cup {<<a.id, a.revision>>}
           sn2 == Given(sn, a.id, a.revision)
<1>1. /\ a.id \in Textures /\ a.revision \in Revisions /\ a.revision <= f[a.id].revision
      /\ f \in FileTables /\ s \in Servings /\ sn \in [Textures -> Revisions]
      /\ l \in SUBSET (Textures \X Revisions) /\ Serves(f, s, sn) /\ Delivered(f, sn, l, c)
  BY FirstAnswer DEF Answers
<1> HIDE DEF sn2
<1>2. /\ sn2 \in [Textures -> Revisions] /\ sn2[a.id] = a.revision
      /\ \A u \in Textures \ {a.id} : sn2[u] = sn[u]
  <2>1. /\ sn \in [Textures -> Revisions] /\ a.id \in Textures /\ a.revision \in Revisions
        /\ sn2 = Given(sn, a.id, a.revision)
    BY <1>1 DEF sn2
  <2> QED
    BY ONLY <2>1, GivenFields
<1>3. l2 \in SUBSET (Textures \X Revisions)
  BY <1>1
<1>4. Stopped(s) \in Servings /\ Stopped(s).waiting = FALSE /\ Stopped(s).id = 0
  BY <1>1, StoppedFields
<1>5. Serves(f, Stopped(s), sn2)
  BY ZenonT(60), <1>1, <1>4, StoppedServes DEF sn2
<1>6. Delivered(f, sn2, l2, c)
  <2> SUFFICES ASSUME NEW t \in Textures, f[t] # NoFile, sn2[t] = f[t].revision,
                      <<t, f[t].revision>> \notin l2
               PROVE  c.held[t].revision = f[t].revision
    BY DEF Delivered
  <2>1. t # a.id
    BY <1>2
  <2>2. sn[t] = f[t].revision /\ <<t, f[t].revision>> \notin l
    BY <1>2, <2>1
  <2> QED
    BY <1>1, <2>2 DEF Delivered
<1> HIDE DEF l2
<1>7. Linked(n, terrain, f, Stopped(s), sn2, ms, Tail(acks), c, l2)
  BY <1>2, <1>3, <1>4, <1>5, <1>6, AnswerKeeps
<1> QED
  BY <1>7 DEF sn2, l2

\* The client has the whole of the present file.
LEMMA AnswerCompletes ==
    ASSUME NEW n \in Nat, NEW terrain, NEW f, NEW s, NEW sn, NEW ms, NEW acks, NEW c, NEW l,
           Linked(n, terrain, f, s, sn, ms, acks, c, l), acks # <<>>, NEW a, a = Head(acks),
           a.revision = f[a.id].revision, a.offset = f[a.id].chunks
    PROVE  Linked(n, terrain, f, Stopped(s), Given(sn, a.id, a.revision), ms, Tail(acks), c, l)
<1> DEFINE sn2 == Given(sn, a.id, a.revision)
<1>1. /\ a.id \in Textures /\ a.revision \in Revisions /\ a.revision <= f[a.id].revision
      /\ f \in FileTables /\ s \in Servings /\ sn \in [Textures -> Revisions]
      /\ l \in SUBSET (Textures \X Revisions) /\ Serves(f, s, sn) /\ Delivered(f, sn, l, c)
      /\ c.held[a.id].revision = f[a.id].revision
  BY FirstAnswer DEF Answers
<1> HIDE DEF sn2
<1>2. /\ sn2 \in [Textures -> Revisions] /\ sn2[a.id] = a.revision
      /\ \A u \in Textures \ {a.id} : sn2[u] = sn[u]
  <2>1. /\ sn \in [Textures -> Revisions] /\ a.id \in Textures /\ a.revision \in Revisions
        /\ sn2 = Given(sn, a.id, a.revision)
    BY <1>1 DEF sn2
  <2> QED
    BY ONLY <2>1, GivenFields
<1>3. Stopped(s) \in Servings /\ Stopped(s).waiting = FALSE /\ Stopped(s).id = 0
  BY <1>1, StoppedFields
<1>4. Serves(f, Stopped(s), sn2)
  BY ZenonT(60), <1>1, <1>3, StoppedServes DEF sn2
<1>5. Delivered(f, sn2, l, c)
  <2> QED
    BY <1>1, <1>2 DEF Delivered
<1>6. Linked(n, terrain, f, Stopped(s), sn2, ms, Tail(acks), c, l)
  BY <1>1, <1>2, <1>3, <1>4, <1>5, AnswerKeeps
<1> QED
  BY <1>6 DEF sn2

\* The client has a part, or the whole of an old file.
LEMMA AnswerConfirms ==
    ASSUME NEW n \in Nat, NEW terrain, NEW f, NEW s, NEW sn, NEW ms, NEW acks, NEW c, NEW l,
           Linked(n, terrain, f, s, sn, ms, acks, c, l), acks # <<>>, NEW a, a = Head(acks),
           a.id = s.id, a.revision = s.revision, a.offset = s.offset,
           ~(a.revision = f[a.id].revision /\ a.offset = f[a.id].chunks)
    PROVE  Linked(n, terrain, f, Paused(s), sn, ms, Tail(acks), c, l)
<1>1. /\ f \in FileTables /\ s \in Servings /\ sn \in [Textures -> Revisions] /\ s.id \in Textures
      /\ l \in SUBSET (Textures \X Revisions) /\ Serves(f, s, sn) /\ Delivered(f, sn, l, c)
  BY FirstAnswer
<1>2. /\ Paused(s) \in Servings /\ Paused(s).waiting = FALSE /\ Paused(s).id = s.id
      /\ Paused(s).revision = s.revision /\ Paused(s).offset = s.offset
  BY <1>1, StoppedFields
<1>3. s.offset \in Nat /\ f[s.id].chunks \in Nat
  BY <1>1, ServingFields, FileFields
<1>4. s.revision = f[s.id].revision => s.offset < f[s.id].chunks
  <2>1. s.id # 0
    BY <1>1, WidthsAre
  <2>2. s.revision = f[s.id].revision => s.offset <= f[s.id].chunks /\ s.offset # f[s.id].chunks
    BY <1>1, <2>1 DEF Serves
  <2> QED
    BY <1>3, <2>2
<1>5. Serves(f, Paused(s), sn)
  BY <1>1, <1>2, <1>4 DEF Serves
<1> QED
  BY <1>1, <1>2, <1>5, AnswerKeeps

\* The answer is not the one awaited.
LEMMA AnswerIgnored ==
    ASSUME NEW n \in Nat, NEW terrain, NEW f, NEW s, NEW sn, NEW ms, NEW acks, NEW c, NEW l,
           Linked(n, terrain, f, s, sn, ms, acks, c, l), acks # <<>>
    PROVE  Linked(n, terrain, f, s, sn, ms, Tail(acks), c, l)
  BY FirstAnswer, AnswerKeeps

----------------------------------------------------------------------------
(* A file is replaced.                                                     *)

Replaced(f, u, chunks, width) ==
    [f EXCEPT ![u] = [revision |-> @.revision + 1, chunks |-> chunks, width |-> width]]

\* Of what was at most the present revision, nothing is now the present one
\* but what was it and still is.
Newer(f, g) ==
    /\ g \in FileTables
    /\ \A v \in Textures : \A r \in Nat :
          r <= f[v].revision => /\ r <= g[v].revision
                                /\ r = g[v].revision => g[v] = f[v]
                                /\ r < f[v].revision => r < g[v].revision

\* ServerTextures_Define replaces a file by a newer one.
LEMMA ReplacedIsNewer ==
    ASSUME NEW f \in FileTables, NEW u \in Textures, NEW k \in Sizes, NEW w \in Widths,
           f[u].revision < MaxRevision, NEW g, g = Replaced(f, u, k, w)
    PROVE  /\ Newer(f, g) /\ g[u].width = w
           /\ \A v \in Textures \ {u} : g[v] = f[v]
<1> DEFINE r == f[u].revision + 1
           x == [revision |-> r, chunks |-> k, width |-> w]
<1>1. f[u].revision \in Nat /\ MaxRevision \in Nat
  BY FileFields
<1>2. r \in Revisions \ {0} /\ r \in Nat /\ f[u].revision < r
  BY <1>1 DEF Revisions
<1> HIDE DEF r
<1>3. x \in Files
  BY <1>2 DEF Files
<1>4. g = [f EXCEPT ![u] = x]
  BY DEF Replaced, r
<1>5. x.revision = r /\ x.width = w
  OBVIOUS
<1> HIDE DEF x
<1>6. g \in FileTables /\ g[u] = x /\ \A v \in Textures \ {u} : g[v] = f[v]
  BY <1>3, <1>4 DEF FileTables
<1>7. \A v \in Textures : \A i \in Nat :
          i <= f[v].revision => /\ i <= g[v].revision
                                /\ i = g[v].revision => g[v] = f[v]
                                /\ i < f[v].revision => i < g[v].revision
  <2> SUFFICES ASSUME NEW v \in Textures, NEW i \in Nat, i <= f[v].revision
               PROVE  /\ i <= g[v].revision
                      /\ i = g[v].revision => g[v] = f[v]
                      /\ i < f[v].revision => i < g[v].revision
    OBVIOUS
  <2>1. CASE v = u
    <3>1. g[v].revision = r
      BY <1>5, <1>6, <2>1
    <3>2. i < r
      BY <1>1, <1>2, <2>1
    <3> QED
      BY <1>2, <3>1, <3>2
  <2>2. CASE v # u
    BY <1>6, <2>2
  <2> QED
    BY <2>1, <2>2
<1> QED
  BY <1>5, <1>6, <1>7 DEF Newer

\* What is past stays past.
LEMMA PastNewer ==
    ASSUME NEW f, NEW g, Newer(f, g), NEW ms, NEW x, x.id \in Textures, x.revision \in Nat,
           NEW i, Past(f, ms, x, i), f[x.id].revision \in Nat
    PROVE  Past(g, ms, x, i)
<1>1. x.revision < f[x.id].revision => x.revision <= f[x.id].revision
  OBVIOUS
<1>2. x.revision < f[x.id].revision => x.revision < g[x.id].revision
  BY <1>1 DEF Newer
<1> QED
  BY <1>2 DEF Past

\* What was true of a file is true of it, or of one that was replaced.
LEMMA TrueNewer ==
    ASSUME NEW f, NEW g, Newer(f, g), NEW v \in Textures, NEW x, x.revision \in Nat,
           TrueOf(f[v], x)
    PROVE  TrueOf(g[v], x)
<1>1. x.revision <= f[v].revision
  BY DEF TrueOf
<1>2. /\ x.revision <= g[v].revision
      /\ x.revision = g[v].revision => g[v] = f[v]
  BY <1>1 DEF Newer
<1> QED
  BY <1>2 DEF TrueOf

\* A connection is in order when a file has been replaced.
LEMMA EndsNewer ==
    ASSUME NEW n, NEW f, NEW s, NEW sn, NEW ms, NEW acks, NEW c, NEW l,
           Ends(n, f, s, sn, ms, acks, c, l), NEW g, Newer(f, g)
    PROVE  Ends(n, g, s, sn, ms, acks, c, l)
<1>1. /\ Typed(f, s, sn, ms, acks, c, l) /\ ServerSide(n, f, s, sn, ms, acks)
      /\ ClientSide(f, sn, acks, c, l) /\ Drawn(f, ms, c)
  BY DEF Ends
<1>2. /\ f \in FileTables /\ s \in Servings /\ sn \in [Textures -> Revisions]
      /\ ms \in Seq(ClientPackets) /\ acks \in Seq(Acks) /\ c \in Clients
  BY <1>1 DEF Typed
<1>3. \A i \in DOMAIN ms : ms[i] \in ClientPackets
  BY <1>2
<1>4. \A i \in DOMAIN acks : acks[i] \in Acks
  BY <1>2
<1>5. \A v \in Textures : f[v].revision \in Nat
  BY <1>2, FileFields
<1>6. \A t \in Textures : sn[t] \in Nat
  BY <1>2 DEF Revisions
<1>7. Typed(g, s, sn, ms, acks, c, l)
  BY <1>1 DEF Typed, Newer
<1>8. Serves(g, s, sn)
  <2>1. Serves(f, s, sn) /\ s.id \in Textures \cup {0} /\ s.revision \in Nat
    BY <1>1, <1>2, ServingFields DEF ServerSide
  <2>2. \A t \in Textures : sn[t] <= g[t].revision
    BY <1>6, <2>1 DEF Serves, Newer
  <2>3. ASSUME s.id # 0
        PROVE  /\ s.revision <= g[s.id].revision
               /\ s.revision = g[s.id].revision => g[s.id] = f[s.id]
    BY <2>1, <2>3 DEF Serves, Newer
  <2> QED
    BY <2>1, <2>2, <2>3 DEF Serves
<1>9. \A i \in DOMAIN ms : Says(g, ms[i])
  <2> SUFFICES ASSUME NEW i \in DOMAIN ms PROVE Says(g, ms[i])
    OBVIOUS
  <2>1. Says(f, ms[i]) /\ ms[i] \in ClientPackets
    BY <1>1, <1>3 DEF ServerSide
  <2>2. ms[i].kind = "begin" => ms[i].id \in Textures /\ ms[i].revision \in Nat
    BY <2>1, PacketKinds DEF Revisions
  <2>3. ms[i].kind = "begin" => TrueOf(g[ms[i].id], ms[i])
    BY ZenonT(60), <2>1, <2>2, TrueNewer DEF Says
  <2> QED
    BY <2>1, <2>3 DEF Says
<1>10. Holds(g, c)
  <2>1. Holds(f, c)
    BY <1>1 DEF ClientSide
  <2>2. /\ c.transfer.id \in Textures \cup {0} /\ c.transfer.revision \in Nat
        /\ \A t \in Textures : c.held[t].revision \in Nat
    BY <1>2, TransferFields
  <2>3. ASSUME c.transfer.id # 0
        PROVE  TrueOf(g[c.transfer.id], c.transfer)
    <3>1. TrueOf(f[c.transfer.id], c.transfer) /\ c.transfer.id \in Textures
      BY <2>1, <2>2, <2>3 DEF Holds
    <3> QED
      BY <2>2, <3>1 DEF TrueOf, Newer
  <2>4. \A t \in Textures : /\ c.held[t].revision <= g[t].revision
                            /\ c.held[t].revision = g[t].revision => g[t] = f[t]
    BY <2>1, <2>2 DEF Holds, Newer
  <2> QED
    BY <2>1, <2>3, <2>4 DEF Holds
<1>11. \A i \in DOMAIN acks : Answers(g, acks[i], c)
  <2> SUFFICES ASSUME NEW i \in DOMAIN acks PROVE Answers(g, acks[i], c)
    OBVIOUS
  <2>1. Answers(f, acks[i], c) /\ acks[i].id \in Textures /\ acks[i].revision \in Nat
    BY <1>1, <1>4 DEF ClientSide, Acks, Revisions
  <2>2. /\ acks[i].revision <= g[acks[i].id].revision
        /\ acks[i].revision = g[acks[i].id].revision => g[acks[i].id] = f[acks[i].id]
    BY <2>1 DEF Answers, Newer
  <2> QED
    BY <2>1, <2>2 DEF Answers
<1>12. Delivered(g, sn, l, c)
  <2>1. Delivered(f, sn, l, c) /\ Serves(f, s, sn)
    BY <1>1 DEF ClientSide, ServerSide
  <2>2. \A t \in Textures : sn[t] = g[t].revision => g[t] = f[t]
    BY <1>6, <2>1 DEF Serves, Newer
  <2> QED
    BY <2>1, <2>2 DEF Delivered
<1>13. Guarded(g, ms, c)
  <2>1. Guarded(f, ms, c)
    BY <1>1 DEF Drawn
  <2>2. /\ c.transfer.id \in Textures \cup {0} /\ c.transfer.revision \in Nat
        /\ c.transfer.id # c.current \/ c.transfer.id \in Textures
    BY <1>2, TransferFields
  <2>3. c.transfer.id = c.current => Past(g, ms, c.transfer, 0)
    BY <1>5, <2>1, <2>2, PastNewer DEF Guarded
  <2>4. ASSUME NEW i \in TerrainsAsked(ms), c.transfer.id = ms[i].id
        PROVE  Past(g, ms, c.transfer, i)
    <3>1. ms[i].id \in Terrains
      BY <1>3, <2>4, PacketKinds DEF TerrainsAsked
    <3>2. c.transfer.id \in Textures
      BY <2>2, <2>4, <3>1, TerrainsAre
    <3>3. Past(f, ms, c.transfer, i)
      BY <2>1, <2>4 DEF Guarded
    <3> QED
      BY <1>5, <2>2, <3>2, <3>3, PastNewer
  <2>5. ASSUME NEW i \in TerrainsAsked(ms), NEW k \in 1 .. (i - 1),
               ms[k].kind = "begin", ms[k].id = ms[i].id
        PROVE  Past(g, ms, ms[k], i)
    <3>1. k \in DOMAIN ms
      BY <1>2 DEF TerrainsAsked
    <3>2. ms[k].id \in Textures /\ ms[k].revision \in Nat
      BY <1>3, <2>5, <3>1, PacketKinds DEF Revisions
    <3>3. Past(f, ms, ms[k], i)
      BY <2>1, <2>5 DEF Guarded
    <3> QED
      BY <1>5, <3>2, <3>3, PastNewer
  <2> QED
    BY <2>3, <2>4, <2>5 DEF Guarded
<1> QED
  BY <1>1, <1>7, <1>8, <1>9, <1>10, <1>11, <1>12, <1>13 DEF Ends, ServerSide, ClientSide, Drawn

----------------------------------------------------------------------------
(* Time passes, a transfer is given up, a player comes or goes.            *)

\* A bound that grows bounds all the more.
LEMMA MoreTimeouts ==
    ASSUME NEW a \in Nat, NEW b \in Nat, NEW n \in Nat, NEW w, w \in {0, 1}, NEW v, v \in {0, 1},
           a + b <= n + w, NEW k \in Nat, n + w <= k + v
    PROVE  a + b <= k + v
  OBVIOUS

\* What the server serves and takes for sent may change, when as much may be
\* under way as before.
LEMMA ServedAnew ==
    ASSUME NEW n \in Nat, NEW f, NEW s, NEW sn, NEW ms, NEW acks, NEW c, NEW l,
           Ends(n, f, s, sn, ms, acks, c, l),
           NEW k \in Nat, NEW z \in Servings, NEW sn2 \in [Textures -> Revisions],
           NEW l2 \in SUBSET (Textures \X Revisions),
           n + (IF s.waiting THEN 1 ELSE 0) <= k + (IF z.waiting THEN 1 ELSE 0),
           Serves(f, z, sn2), Delivered(f, sn2, l2, c)
    PROVE  Ends(k, f, z, sn2, ms, acks, c, l2)
<1>1. /\ Typed(f, s, sn, ms, acks, c, l) /\ ServerSide(n, f, s, sn, ms, acks)
      /\ ClientSide(f, sn, acks, c, l) /\ Drawn(f, ms, c)
  BY DEF Ends
<1>2. UnderWay(k, z, ms, acks)
  <2>1. Cardinality(TexturePackets(ms)) + Len(acks) <= n + (IF s.waiting THEN 1 ELSE 0)
    BY <1>1 DEF ServerSide, UnderWay
  <2>2. Cardinality(TexturePackets(ms)) \in Nat /\ Len(acks) \in Nat
    BY <1>1, TextureCount DEF Typed
  <2>3. /\ (IF s.waiting THEN 1 ELSE 0) \in {0, 1}
        /\ (IF z.waiting THEN 1 ELSE 0) \in {0, 1}
    OBVIOUS
  <2>4. Cardinality(TexturePackets(ms)) + Len(acks) <= k + (IF z.waiting THEN 1 ELSE 0)
    BY <2>1, <2>2, <2>3, MoreTimeouts
  <2> QED
    BY <2>4 DEF UnderWay
<1>3. Typed(f, z, sn2, ms, acks, c, l2)
  BY <1>1 DEF Typed
<1>4. ServerSide(k, f, z, sn2, ms, acks)
  BY <1>1, <1>2 DEF ServerSide
<1>5. ClientSide(f, sn2, acks, c, l2)
  BY <1>1 DEF ClientSide
<1> QED
  BY <1>1, <1>3, <1>4, <1>5 DEF Ends

\* Nothing is served.
LEMMA IdleServes ==
    /\ Idle \in Servings /\ Idle.waiting = FALSE /\ Idle.id = 0
    /\ \A f, s, sn : Serves(f, s, sn) => Serves(f, Idle, sn)
<1>1. Idle.waiting = FALSE /\ Idle.id = 0
  BY DEF Idle
<1>2. 0 \in Revisions /\ 0 \in Offsets
  BY OffsetsAre DEF Revisions
<1>3. Idle \in Servings
  BY <1>2 DEF Idle, Servings
<1>4. \A f, s, sn : Serves(f, s, sn) => Serves(f, Idle, sn)
  BY <1>1 DEF Serves
<1> QED
  BY <1>1, <1>3, <1>4

\* A client that was reset, and nothing on its way.
LEMMA FreshIs ==
    /\ Fresh \in Clients /\ Fresh.transfer = NoTransfer /\ Live(Fresh) /\ Atlas(Fresh)
    /\ Fresh.desired = Builtin /\ Fresh.current = Builtin
    /\ \A t \in Textures : Fresh.held[t] = Missing
<1>1. /\ Fresh.transfer = NoTransfer /\ Fresh.desired = Builtin /\ Fresh.current = Builtin
      /\ \A t \in Textures : Fresh.held[t] = Missing
      /\ \A m \in Models : Fresh.received[m] = NoModel /\ Fresh.built[m] = NoGpu
  BY DEF Fresh
<1>2. Fresh \in Clients
  BY DEF Fresh, Clients, Holdings, Transfers, Terrains, Defined
<1>3. Live(Fresh)
  BY <1>1 DEF Live
<1>4. Atlas(Fresh)
  <2>1. \A m \in Models : Fresh.received[m].texture # Builtin
    BY <1>1 DEF NoModel, Builtin
  <2> QED
    BY <1>1, <2>1 DEF Atlas, Usable
<1> QED
  BY <1>1, <1>2, <1>3, <1>4

Unsent == [t \in Textures |-> 0]

\* Empty queues.
LEMMA NothingUnderWay ==
    /\ DOMAIN <<>> = {} /\ Len(<<>>) = 0 /\ <<>> \in Seq(ClientPackets) /\ <<>> \in Seq(Acks)
    /\ TexturePackets(<<>>) = {} /\ TerrainsAsked(<<>>) = {} /\ Cardinality({}) = 0
<1>1. DOMAIN <<>> = {} /\ Len(<<>>) = 0 /\ <<>> \in Seq(ClientPackets) /\ <<>> \in Seq(Acks)
  OBVIOUS
<1>2. Cardinality({}) = 0
  BY FS_EmptySet
<1> QED
  BY <1>1, <1>2 DEF TexturePackets, TerrainsAsked

\* A player without a seat.
LEMMA AwayEnds ==
    ASSUME NEW n \in Nat, NEW f \in FileTables, NEW l, l = {}
    PROVE  Ends(n, f, Idle, Unsent, <<>>, <<>>, Fresh, l)
<1>1. Unsent \in [Textures -> Revisions] /\ \A t \in Textures : Unsent[t] = 0
  BY DEF Unsent, Revisions
<1>2. \A t \in Textures : f[t].revision \in Nat /\ (f[t] # NoFile <=> f[t].revision # 0)
  BY FileFields
<1>3. Typed(f, Idle, Unsent, <<>>, <<>>, Fresh, l)
  BY <1>1, FreshIs, IdleServes, NothingUnderWay DEF Typed
<1>4. Serves(f, Idle, Unsent)
  BY <1>1, <1>2, IdleServes DEF Serves
<1>5. ServerSide(n, f, Idle, Unsent, <<>>, <<>>)
  <2>1. UnderWay(n, Idle, <<>>, <<>>)
    <3>1. (IF Idle.waiting THEN 1 ELSE 0) = 0
      BY IdleServes
    <3>2. Cardinality(TexturePackets(<<>>)) = 0 /\ Len(<<>>) = 0
      <4>1. TexturePackets(<<>>) = {} /\ Cardinality({}) = 0
        BY NothingUnderWay
      <4> QED
        BY <4>1
    <3> QED
      BY <3>1, <3>2 DEF UnderWay
  <2> QED
    BY <1>4, <2>1, NothingUnderWay DEF ServerSide
<1>6. Holds(f, Fresh)
  <2>1. Fresh.transfer.id = 0
    BY FreshIs DEF NoTransfer
  <2>2. \A t \in Textures : Fresh.held[t].revision = 0 /\ Fresh.held[t].width = 0
    <3>1. Missing.revision = 0 /\ Missing.width = 0
      BY DEF Missing
    <3> QED
      BY <3>1, FreshIs
  <2>3. \A t \in Textures : f[t].revision = 0 => f[t].width = 0
    <3> SUFFICES ASSUME NEW t \in Textures, f[t].revision = 0 PROVE f[t].width = 0
      OBVIOUS
    <3>1. f[t] = NoFile
      BY <1>2
    <3> QED
      BY <3>1 DEF NoFile
  <2> QED
    BY <1>2, <2>1, <2>2, <2>3, FreshIs DEF Holds
<1>7. Delivered(f, Unsent, l, Fresh)
  BY <1>1, <1>2 DEF Delivered
<1>8. ClientSide(f, Unsent, <<>>, Fresh, l)
  BY <1>6, <1>7, NothingUnderWay DEF ClientSide
<1>9. Guarded(f, <<>>, Fresh)
  <2>1. Fresh.transfer.id # Fresh.current
    BY FreshIs DEF NoTransfer, Builtin
  <2> QED
    BY <2>1, NothingUnderWay DEF Guarded
<1>10. Drawn(f, <<>>, Fresh)
  BY <1>9, FreshIs DEF Drawn
<1> QED
  BY <1>3, <1>5, <1>8, <1>10 DEF Ends

\* A player that joins is told the terrain and the models.
LEMMA JoinEnds ==
    ASSUME NEW n \in Nat, NEW f, NEW s, NEW sn, NEW acks, NEW c, NEW l,
           Ends(n, f, s, sn, <<>>, acks, c, l), acks = <<>>, c = Fresh,
           models \in [Models -> Defined], terrainId \in Terrains,
           NEW ms, ms = <<Terrain(terrainId)>> \o Definitions
    PROVE  Linked(n, terrainId, f, s, sn, ms, acks, c, l)
<1>1. Ends(n, f, s, sn, <<>>, acks, c, l) /\ acks = <<>> /\ c = Fresh
  OBVIOUS
<1>2. /\ Typed(f, s, sn, <<>>, acks, c, l) /\ ServerSide(n, f, s, sn, <<>>, acks)
      /\ ClientSide(f, sn, acks, c, l) /\ Drawn(f, <<>>, c)
  BY <1>1 DEF Ends
<1>3. /\ ms \in Seq(ClientPackets) /\ DOMAIN ms = 1 .. Len(ms)
      /\ 1 \in DOMAIN ms /\ ms[1] = Terrain(terrainId)
      /\ \A i \in DOMAIN ms \ {1} : ms[i].kind = "model"
  BY WelcomeIs
<1>4. Terrain(terrainId).kind = "terrain" /\ Terrain(terrainId).id = terrainId
  BY DEF Terrain
<1>5. \A i \in DOMAIN ms : ms[i].kind \in {"terrain", "model"}
  BY <1>3, <1>4
<1>6. TerrainsAsked(ms) = {1}
  BY <1>3, <1>4 DEF TerrainsAsked
<1>7. TexturePackets(ms) = {}
  BY <1>5 DEF TexturePackets, IsTexturePacket
<1>8. TexturePackets(<<>>) = {}
  BY NothingUnderWay
<1>9. UnderWay(n, s, ms, acks)
  BY <1>2, <1>7, <1>8 DEF ServerSide, UnderWay
<1>10. \A i \in DOMAIN ms : Says(f, ms[i])
  BY <1>5 DEF Says
<1>11. ServerSide(n, f, s, sn, ms, acks)
  BY <1>2, <1>9, <1>10 DEF ServerSide
<1>12. Guarded(f, ms, c)
  <2>1. c.transfer.id = 0 /\ c.current = Builtin
    BY <1>1, FreshIs DEF NoTransfer
  <2>2. terrainId # 0
    BY TerrainsAre
  <2>3. \A k \in 1 .. (1 - 1) : FALSE
    OBVIOUS
  <2> QED
    BY <1>3, <1>4, <1>6, <2>1, <2>2, <2>3 DEF Guarded, Builtin
<1>13. Typed(f, s, sn, ms, acks, c, l)
  BY <1>2, <1>3 DEF Typed
<1>14. Drawn(f, ms, c)
  BY <1>2, <1>12 DEF Drawn
<1>15. Ends(n, f, s, sn, ms, acks, c, l)
  BY <1>2, <1>11, <1>13, <1>14 DEF Ends
<1>16. Wants(terrainId, ms, c)
  <2>1. TerrainsAsked(ms) # {} /\ 1 \in TerrainsAsked(ms) /\ \A j \in TerrainsAsked(ms) : j <= 1
    BY <1>6
  <2>2. ms[1].id = terrainId
    BY <1>3, <1>4
  <2> QED
    BY <2>1, <2>2 DEF Wants
<1> QED
  BY <1>15, <1>16 DEF Linked

----------------------------------------------------------------------------
(* What a visit of the server's loop does.                                 *)

Onward(s) == [s EXCEPT !.offset = @ + 1, !.waiting = TRUE]
Started(t, x) == [waiting |-> TRUE, id |-> t, revision |-> x.revision, offset |-> 0]

\* The next piece of a file.
LEMMA OnwardFields ==
    ASSUME NEW s \in Servings, s.offset + 1 \in Offsets
    PROVE  /\ Onward(s) \in Servings /\ Onward(s).waiting = TRUE /\ Onward(s).id = s.id
           /\ Onward(s).revision = s.revision /\ Onward(s).offset = s.offset + 1
<1>1. Onward(s).offset = s.offset + 1 /\ Onward(s).waiting = TRUE
  BY DEF Onward, Servings
<1>2. Onward(s).id = s.id /\ Onward(s).revision = s.revision
  BY DEF Onward, Servings
<1>3. Onward(s) \in Servings
  BY DEF Onward, Servings
<1> QED
  BY <1>1, <1>2, <1>3

\* The next piece of a file that is still there.
LEMMA PieceSent ==
    ASSUME NEW n \in Nat, NEW terrain, NEW f, NEW s, NEW sn, NEW ms, NEW acks, NEW c, NEW l,
           Linked(n, terrain, f, s, sn, ms, acks, c, l), ~s.waiting, s.id # 0,
           s.revision = f[s.id].revision
    PROVE  Linked(n, terrain, f, Onward(s), sn, Append(ms, Data(s, f[s.id].revision)), acks, c, l)
<1> DEFINE m == Data(s, f[s.id].revision)
           z == Onward(s)
<1>1. f \in FileTables /\ s \in Servings /\ Serves(f, s, sn)
  BY DEF Linked, Ends, Typed, ServerSide
<1>2. /\ s.id \in Textures /\ s.revision \in Revisions /\ s.offset \in Offsets /\ s.offset \in Nat
      /\ s = [waiting |-> s.waiting, id |-> s.id, revision |-> s.revision, offset |-> s.offset]
  BY <1>1, ServingFields
<1>3. f[s.id] # NoFile /\ s.offset < f[s.id].chunks
  BY <1>1 DEF Serves
<1>4. f[s.id].chunks \in Sizes /\ f[s.id].chunks \in Nat
  BY <1>1, <1>2, <1>3, FileFields
<1>5. s.offset + 1 <= f[s.id].chunks /\ s.offset + 1 \in Nat
  BY <1>2, <1>3, <1>4
<1>6. s.offset + 1 \in Offsets
  BY <1>4, <1>5, OffsetsAre
<1>8. z \in Servings /\ z.waiting /\ z.id = s.id /\ z.revision = s.revision /\ z.offset = s.offset + 1
  BY <1>1, <1>6, OnwardFields
<1>9. /\ m \in ClientPackets /\ m.kind = "data" /\ m.id = s.id /\ m.revision = s.revision
      /\ m.from = s.revision
  BY <1>2 DEF Data, ClientPackets
<1> HIDE DEF m, z
<1>10. Serves(f, z, sn)
  BY <1>1, <1>3, <1>5, <1>8 DEF Serves
<1>11. Says(f, m)
  BY <1>9 DEF Says
<1>12. IsTexturePacket(m)
  BY <1>9 DEF IsTexturePacket
<1>13. Linked(n, terrain, f, z, sn, Append(ms, m), acks, c, l)
  BY <1>8, <1>9, <1>10, <1>11, <1>12, SendKeeps
<1> QED
  BY <1>13 DEF m, z

\* A file is announced.
LEMMA BeginSent ==
    ASSUME NEW n \in Nat, NEW terrain, NEW f, NEW s, NEW sn, NEW ms, NEW acks, NEW c, NEW l,
           Linked(n, terrain, f, s, sn, ms, acks, c, l), ~s.waiting,
           NEW t \in Textures, f[t] # NoFile
    PROVE  Linked(n, terrain, f, Started(t, f[t]), sn, Append(ms, Begin(t, f[t])), acks, c, l)
<1> DEFINE m == Begin(t, f[t])
           z == Started(t, f[t])
<1>1. f \in FileTables /\ Serves(f, s, sn)
  BY DEF Linked, Ends, Typed, ServerSide
<1>2. /\ f[t].revision \in Revisions \ {0} /\ f[t].chunks \in Sizes
      /\ f[t].width \in Widths /\ f[t].chunks \in Nat \ {0} /\ f[t].revision \in Nat
  BY <1>1, FileFields
<1>3. t # 0
  BY WidthsAre
<1>4. z.waiting /\ z.id = t /\ z.revision = f[t].revision /\ z.offset = 0
  BY DEF Started
<1>5. z \in Servings
  BY <1>2, OffsetsAre DEF Started, Servings
<1>6. /\ m \in ClientPackets /\ m.kind = "begin" /\ m.id = t /\ m.revision = f[t].revision
      /\ m.chunks = f[t].chunks /\ m.width = f[t].width
  BY <1>2 DEF Begin, ClientPackets
<1> HIDE DEF m, z
<1>7. Serves(f, z, sn)
  BY <1>1, <1>2, <1>3, <1>4 DEF Serves
<1>8. Says(f, m)
  BY <1>2, <1>6 DEF Says, TrueOf
<1>9. IsTexturePacket(m)
  BY <1>6 DEF IsTexturePacket
<1>10. Linked(n, terrain, f, z, sn, Append(ms, m), acks, c, l)
  BY <1>4, <1>5, <1>6, <1>7, <1>8, <1>9, SendKeeps
<1> QED
  BY <1>10 DEF m, z

\* A transfer that timed out counts as made, and as lapsed.
LEMMA GivenUp ==
    ASSUME NEW n \in Nat, NEW terrain, NEW f, NEW s, NEW sn, NEW ms, NEW acks, NEW c, NEW l,
           Linked(n, terrain, f, s, sn, ms, acks, c, l), s.waiting
    PROVE  Linked(n + 1, terrain, f, Idle, Given(sn, s.id, s.revision), ms, acks, c,
                  l \cup {<<s.id, s.revision>>})
<1> DEFINE l2 == l \cup {<<s.id, s.revision>>}
           sn2 == Given(sn, s.id, s.revision)
<1>1. Typed(f, s, sn, ms, acks, c, l) /\ Serves(f, s, sn) /\ Delivered(f, sn, l, c)
  BY DEF Linked, Ends, ServerSide, ClientSide
<1>2. /\ f \in FileTables /\ s \in Servings /\ sn \in [Textures -> Revisions]
      /\ l \in SUBSET (Textures \X Revisions)
  BY <1>1 DEF Typed
<1>3. /\ s.id \in Textures /\ s.revision \in Revisions /\ s.revision <= f[s.id].revision
  BY <1>1, <1>2, ServingFields DEF Serves
<1>4. sn2 = Given(sn, s.id, s.revision)
  OBVIOUS
<1> HIDE DEF sn2
<1>5. /\ sn2 \in [Textures -> Revisions] /\ sn2[s.id] = s.revision
      /\ \A u \in Textures \ {s.id} : sn2[u] = sn[u]
  BY ONLY <1>2, <1>3, <1>4, GivenFields
<1>6. l2 \in SUBSET (Textures \X Revisions)
  BY <1>2, <1>3
<1>7. Idle \in Servings /\ Idle.waiting = FALSE /\ Idle.id = 0
  BY IdleServes
<1>8. Serves(f, Idle, sn2)
  <2>1. \A u \in Textures : sn2[u] <= f[u].revision
    BY <1>1, <1>3, <1>5 DEF Serves
  <2> QED
    BY <1>7, <2>1 DEF Serves
<1>9. Delivered(f, sn2, l2, c)
  <2> SUFFICES ASSUME NEW t \in Textures, f[t] # NoFile, sn2[t] = f[t].revision,
                      <<t, f[t].revision>> \notin l2
               PROVE  c.held[t].revision = f[t].revision
    BY DEF Delivered
  <2>1. t # s.id
    BY <1>5
  <2>2. sn[t] = f[t].revision /\ <<t, f[t].revision>> \notin l
    BY <1>5, <2>1
  <2> QED
    BY <1>1, <2>2 DEF Delivered
<1> HIDE DEF l2
<1>10. n + (IF s.waiting THEN 1 ELSE 0) <= (n + 1) + (IF Idle.waiting THEN 1 ELSE 0)
  BY <1>7
<1>11. n + 1 \in Nat
  OBVIOUS
<1>12. Ends(n, f, s, sn, ms, acks, c, l) /\ Wants(terrain, ms, c)
  BY DEF Linked
<1>13. Ends(n + 1, f, Idle, sn2, ms, acks, c, l2)
  BY <1>5, <1>6, <1>7, <1>8, <1>9, <1>10, <1>11, <1>12, ServedAnew
<1> QED
  BY <1>12, <1>13 DEF Linked, sn2, l2

\* A transfer of a file that is no longer there is dropped.
LEMMA StaleDropped ==
    ASSUME NEW n \in Nat, NEW terrain, NEW s, NEW sn, NEW ms, NEW acks, NEW c, NEW l,
           Linked(n, terrain, file, s, sn, ms, acks, c, l), ~s.waiting,
           NEW z, z = StillCurrent(s)
    PROVE  /\ Linked(n, terrain, file, z, sn, ms, acks, c, l) /\ ~z.waiting
           /\ z.id # 0 => z.revision = file[z.id].revision
<1>1. CASE ~(s.id # 0 /\ s.revision # file[s.id].revision)
  <2>1. z = s
    BY <1>1 DEF StillCurrent
  <2> QED
    BY <1>1, <2>1
<1>2. CASE s.id # 0 /\ s.revision # file[s.id].revision
  <2>1. /\ Typed(file, s, sn, ms, acks, c, l) /\ Serves(file, s, sn)
        /\ Delivered(file, sn, l, c)
    BY DEF Linked, Ends, ServerSide, ClientSide
  <2>2. /\ file \in FileTables /\ s \in Servings /\ sn \in [Textures -> Revisions]
        /\ l \in SUBSET (Textures \X Revisions)
    BY <2>1 DEF Typed
  <2>3. z = [s EXCEPT !.id = 0]
    BY <1>2 DEF StillCurrent
  <2>4. z \in Servings /\ z.id = 0 /\ z.waiting = s.waiting
    BY <2>2, <2>3 DEF Servings
  <2>5. Serves(file, z, sn)
    BY <2>1, <2>4 DEF Serves
  <2>6. n + (IF s.waiting THEN 1 ELSE 0) <= n + (IF z.waiting THEN 1 ELSE 0)
    BY <2>4
  <2>7. Ends(n, file, s, sn, ms, acks, c, l) /\ Wants(terrain, ms, c)
    BY DEF Linked
  <2>8. Ends(n, file, z, sn, ms, acks, c, l)
    BY <2>1, <2>2, <2>4, <2>5, <2>6, <2>7, ServedAnew
  <2> QED
    BY <2>4, <2>7, <2>8 DEF Linked
<1> QED
  BY <1>1, <1>2

----------------------------------------------------------------------------
(* From connections to the whole system.                                   *)

At(g, p, v) == [g EXCEPT ![p] = v]

\* Nothing but time passes.
LEMMA EndsLater ==
    ASSUME NEW n \in Nat, NEW k \in Nat, n <= k,
           NEW f, NEW s, NEW sn, NEW ms, NEW acks, NEW c, NEW l,
           Ends(n, f, s, sn, ms, acks, c, l)
    PROVE  Ends(k, f, s, sn, ms, acks, c, l)
<1>1. /\ s \in Servings /\ sn \in [Textures -> Revisions] /\ l \in SUBSET (Textures \X Revisions)
      /\ Serves(f, s, sn) /\ Delivered(f, sn, l, c)
  BY DEF Ends, Typed, ServerSide, ClientSide
<1>2. n + (IF s.waiting THEN 1 ELSE 0) <= k + (IF s.waiting THEN 1 ELSE 0)
  BY <1>1
<1> QED
  BY <1>1, <1>2, ServedAnew

\* The values of one player are what they were.
Kept(q) ==
    /\ seated'[q] = seated[q] /\ serving'[q] = serving[q] /\ sent'[q] = sent[q]
    /\ toClient'[q] = toClient[q] /\ toServer'[q] = toServer[q]
    /\ client'[q] = client[q] /\ lapsed'[q] = lapsed[q]

\* A connection nothing was done to is in order.
LEMMA KeptConnection ==
    ASSUME NEW q \in Players, ConnectionOf(q), Kept(q), file' = file, terrainId' = terrainId,
           timeouts \in Nat, timeouts' \in Nat, timeouts <= timeouts'
    PROVE  ConnectionOf(q)'
<1>1. /\ Ends(timeouts, file, serving[q], sent[q], toClient[q], toServer[q], client[q], lapsed[q])
      /\ seated[q] => Wants(terrainId, toClient[q], client[q])
      /\ ~seated[q] => toClient[q] = <<>> /\ toServer[q] = <<>> /\ client[q] = Fresh
  BY DEF ConnectionOf, Connection
<1>2. Ends(timeouts', file, serving[q], sent[q], toClient[q], toServer[q], client[q], lapsed[q])
  BY <1>1, EndsLater
<1> QED
  BY <1>1, <1>2 DEF ConnectionOf, Connection, Kept

\* A step of one player, p.
LEMMA OnePlayer ==
    ASSUME EachConnection, NEW p \in Players,
           file' = file, terrainId' = terrainId, models' = models, acts' = acts,
           timeouts' \in Nat, timeouts <= timeouts',
           Shapes', \A q \in Players \ {p} : Kept(q), ConnectionOf(p)'
    PROVE  EachConnection'
<1>1. ServerOK'
  BY DEF EachConnection, ServerOK, TerrainFileIsAtlas
<1>2. ASSUME NEW q \in Players PROVE ConnectionOf(q)'
  <2>1. CASE q = p
    BY <2>1
  <2>2. CASE q # p
    BY <2>2, KeptConnection DEF EachConnection, ServerOK
  <2> QED
    BY <2>1, <2>2
<1> QED
  BY <1>1, <1>2 DEF EachConnection

\* What the invariant says of one player.
LEMMA Seat ==
    ASSUME EachConnection, NEW p \in Players
    PROVE  /\ timeouts \in Nat /\ Shapes
           /\ Ends(timeouts, file, serving[p], sent[p], toClient[p], toServer[p], client[p], lapsed[p])
           /\ seated[p] => Linked(timeouts, terrainId, file, serving[p], sent[p], toClient[p],
                                  toServer[p], client[p], lapsed[p])
           /\ ~seated[p] => toClient[p] = <<>> /\ toServer[p] = <<>> /\ client[p] = Fresh
  BY DEF EachConnection, ServerOK, ConnectionOf, Connection, Linked

\* A player with a seat whose connection is in order.
LEMMA StillSeated ==
    ASSUME NEW p \in Players, seated'[p],
           Linked(timeouts', terrainId', file', serving'[p], sent'[p], toClient'[p],
                  toServer'[p], client'[p], lapsed'[p])
    PROVE  ConnectionOf(p)'
  BY DEF ConnectionOf, Connection, Linked

\* A visit of the server's loop.
Visited(p, n, l, z) ==
    \E w, ms : /\ Linked(n, terrainId, file, w, z, ms, toServer[p], client[p], l)
               /\ serving' = At(serving, p, w) /\ sent' = At(sent, p, z)
               /\ toClient' = At(toClient, p, ms)

\* It announces a file, sends a piece of one, or does nothing.
LEMMA VisitKeeps ==
    ASSUME EachConnection, NEW p \in Players, NEW n \in Nat, NEW l, NEW s, NEW sn,
           Linked(n, terrainId, file, s, sn, toClient[p], toServer[p], client[p], l),
           ~s.waiting, s.id # 0 => s.revision = file[s.id].revision,
           Visit(p, s, sn)
    PROVE  Visited(p, n, l, sn)
<1> DEFINE due  == Due(sn)
           next == FirstDue(due)
           Becomes(w, ms) == /\ Linked(n, terrainId, file, w, sn, ms, toServer[p], client[p], l)
                             /\ serving' = At(serving, p, w) /\ toClient' = At(toClient, p, ms)
<1>1. sent' = At(sent, p, sn)
  BY DEF Visit, At
<1>2. CASE /\ s.id # 0
           /\ serving' = [serving EXCEPT ![p] = [s EXCEPT !.offset = @ + 1, !.waiting = TRUE]]
           /\ toClient' = [toClient EXCEPT ![p] = Append(@, Data(s, file[s.id].revision))]
  <2>1. Linked(n, terrainId, file, Onward(s), sn,
               Append(toClient[p], Data(s, file[s.id].revision)), toServer[p], client[p], l)
    BY <1>2, PieceSent
  <2>2. /\ serving' = At(serving, p, Onward(s))
        /\ toClient' = At(toClient, p, Append(toClient[p], Data(s, file[s.id].revision)))
    BY <1>2, Seat DEF At, Onward, Shapes
  <2> QED
    BY <1>1, <2>1, <2>2 DEF Visited
<1>3. CASE /\ s.id = 0 /\ due # {}
           /\ serving' = [serving EXCEPT ![p] = [waiting |-> TRUE, id |-> next,
                                                 revision |-> file[next].revision, offset |-> 0]]
           /\ toClient' = [toClient EXCEPT ![p] = Append(@, Begin(next, file[next]))]
  <2>1. due \in SUBSET Textures /\ \A t \in due : file[t] # NoFile
    BY DEF Due
  <2>2. next \in due
    BY <1>3, <2>1, FirstDueIs
  <2>3. next \in Textures /\ file[next] # NoFile
    BY <2>1, <2>2
  <2>4. /\ serving' = At(serving, p, Started(next, file[next]))
        /\ toClient' = At(toClient, p, Append(toClient[p], Begin(next, file[next])))
    BY <1>3, Seat DEF At, Started, Shapes
  <2> HIDE DEF next
  <2>5. Linked(n, terrainId, file, Started(next, file[next]), sn,
               Append(toClient[p], Begin(next, file[next])), toServer[p], client[p], l)
    BY <2>3, BeginSent
  <2> QED
    BY <1>1, <2>4, <2>5 DEF Visited
<1>4. CASE /\ s.id = 0 /\ due = {}
           /\ serving' = [serving EXCEPT ![p] = s]
           /\ UNCHANGED toClient
  <2>1. toClient' = At(toClient, p, toClient[p])
    BY <1>4, Seat DEF At, Shapes
  <2>2. serving' = At(serving, p, s)
    BY <1>4 DEF At
  <2> QED
    BY <1>1, <2>1, <2>2 DEF Visited
<1> QED
  BY <1>2, <1>3, <1>4 DEF Visit

\* A step that leaves one player's connection in order, and the others alone.
LEMMA OneConnection ==
    ASSUME EachConnection, NEW p \in Players, seated[p],
           NEW w, NEW sn, NEW ms, NEW acks, NEW c, NEW l,
           Linked(timeouts', terrainId, file, w, sn, ms, acks, c, l),
           serving' = At(serving, p, w), sent' = At(sent, p, sn), toClient' = At(toClient, p, ms),
           toServer' = At(toServer, p, acks), client' = At(client, p, c), lapsed' = At(lapsed, p, l),
           timeouts' \in Nat, timeouts <= timeouts', UNCHANGED <<serverVars, seated, acts>>
    PROVE  EachConnection'
<1>1. /\ file' = file /\ terrainId' = terrainId /\ models' = models /\ seated' = seated
      /\ acts' = acts
  BY DEF serverVars
<1>2. /\ w \in Servings /\ sn \in [Textures -> Revisions] /\ ms \in Seq(ClientPackets)
      /\ acks \in Seq(Acks) /\ c \in Clients /\ l \in SUBSET (Textures \X Revisions)
  BY DEF Linked, Ends, Typed
<1>3. Shapes
  BY Seat
<1>4. /\ serving' \in [Players -> Servings] /\ serving'[p] = w
      /\ \A q \in Players \ {p} : serving'[q] = serving[q]
  BY <1>2, <1>3 DEF Shapes, At
<1>5. /\ sent' \in [Players -> [Textures -> Revisions]] /\ sent'[p] = sn
      /\ \A q \in Players \ {p} : sent'[q] = sent[q]
  BY <1>2, <1>3 DEF Shapes, At
<1>6. /\ toClient' \in [Players -> Seq(ClientPackets)] /\ toClient'[p] = ms
      /\ \A q \in Players \ {p} : toClient'[q] = toClient[q]
  BY <1>2, <1>3 DEF Shapes, At
<1>7. /\ toServer' \in [Players -> Seq(Acks)] /\ toServer'[p] = acks
      /\ \A q \in Players \ {p} : toServer'[q] = toServer[q]
  BY <1>2, <1>3 DEF Shapes, At
<1>8. /\ client' \in [Players -> Clients] /\ client'[p] = c
      /\ \A q \in Players \ {p} : client'[q] = client[q]
  BY <1>2, <1>3 DEF Shapes, At
<1>9. /\ lapsed' \in [Players -> SUBSET (Textures \X Revisions)] /\ lapsed'[p] = l
      /\ \A q \in Players \ {p} : lapsed'[q] = lapsed[q]
  BY <1>2, <1>3 DEF Shapes, At
<1>10. Shapes'
  BY <1>1, <1>3, <1>4, <1>5, <1>6, <1>7, <1>8, <1>9 DEF Shapes
<1>11. \A q \in Players \ {p} : Kept(q)
  BY <1>1, <1>4, <1>5, <1>6, <1>7, <1>8, <1>9 DEF Kept
<1>12. Linked(timeouts', terrainId', file', serving'[p], sent'[p], toClient'[p], toServer'[p],
              client'[p], lapsed'[p])
  BY <1>1, <1>4, <1>5, <1>6, <1>7, <1>8, <1>9
<1>13. ConnectionOf(p)'
  BY <1>1, <1>12, StillSeated
<1> QED
  BY <1>1, <1>10, <1>11, <1>13, OnePlayer

\* What a step leaves alone.
LEMMA AtSame ==
    ASSUME EachConnection, NEW p \in Players
    PROVE  /\ At(serving, p, serving[p]) = serving /\ At(sent, p, sent[p]) = sent
           /\ At(toClient, p, toClient[p]) = toClient /\ At(toServer, p, toServer[p]) = toServer
           /\ At(client, p, client[p]) = client /\ At(lapsed, p, lapsed[p]) = lapsed
  BY Seat DEF Shapes, At

\* A visit of the loop as a step of the system.
LEMMA VisitStep ==
    ASSUME EachConnection, NEW p \in Players, seated[p], NEW l, NEW sn,
           Visited(p, timeouts', l, sn), lapsed' = At(lapsed, p, l),
           timeouts' \in Nat, timeouts <= timeouts',
           UNCHANGED <<serverVars, seated, toServer, client, acts>>
    PROVE  EachConnection'
<1>1. PICK w, ms : /\ Linked(timeouts', terrainId, file, w, sn, ms, toServer[p], client[p], l)
                   /\ serving' = At(serving, p, w) /\ sent' = At(sent, p, sn)
                   /\ toClient' = At(toClient, p, ms)
  BY DEF Visited
<1>2. toServer' = At(toServer, p, toServer[p]) /\ client' = At(client, p, client[p])
  BY AtSame
<1> QED
  BY <1>1, <1>2, OneConnection

\* ServerTextures_Update, of a player that owes no answer.
LEMMA ServeTextureStep ==
    ASSUME EachConnection, NEW p \in Players, ServeTexture(p)
    PROVE  EachConnection'
<1> DEFINE z == StillCurrent(serving[p])
<1>1. /\ seated[p] /\ ~serving[p].waiting /\ Visit(p, z, sent[p])
      /\ UNCHANGED <<serverVars, seated, toServer, client, lapsed, acts, timeouts>>
  BY DEF ServeTexture, MayServe
<1>2. /\ timeouts \in Nat
      /\ Linked(timeouts, terrainId, file, serving[p], sent[p], toClient[p], toServer[p],
                client[p], lapsed[p])
  BY <1>1, Seat
<1> HIDE DEF z
<1>3. /\ Linked(timeouts, terrainId, file, z, sent[p], toClient[p], toServer[p], client[p], lapsed[p])
      /\ ~z.waiting
      /\ z.id # 0 => z.revision = file[z.id].revision
  BY <1>1, <1>2, StaleDropped DEF z
<1>4. Visited(p, timeouts, lapsed[p], sent[p])
  BY <1>1, <1>2, <1>3, VisitKeeps
<1>5. lapsed' = At(lapsed, p, lapsed[p]) /\ timeouts' = timeouts
  BY <1>1, AtSame
<1>6. Visited(p, timeouts', lapsed[p], sent[p])
  BY <1>4, <1>5
<1> QED
  BY <1>1, <1>2, <1>5, <1>6, VisitStep

\* ServerTextures_Update, of a player that did not answer in time.
LEMMA TimeOutStep ==
    ASSUME EachConnection, NEW p \in Players, TimeOut(p)
    PROVE  EachConnection'
<1> DEFINE s  == serving[p]
           sn == Given(sent[p], s.id, s.revision)
           l  == lapsed[p] \cup {<<s.id, s.revision>>}
<1>1. /\ seated[p] /\ s.waiting /\ timeouts' = timeouts + 1
      /\ Visit(p, Idle, [sent[p] EXCEPT ![s.id] = s.revision])
      /\ lapsed' = [lapsed EXCEPT ![p] = @ \cup {<<s.id, s.revision>>}]
      /\ UNCHANGED <<serverVars, seated, toServer, client, acts>>
  BY DEF TimeOut
<1>2. /\ timeouts \in Nat /\ Shapes
      /\ Linked(timeouts, terrainId, file, s, sent[p], toClient[p], toServer[p], client[p], lapsed[p])
  BY <1>1, Seat
<1>3. Visit(p, Idle, sn)
  BY <1>1 DEF Given
<1>4. lapsed' = At(lapsed, p, l)
  BY <1>1, <1>2 DEF At, Shapes
<1>5. Linked(timeouts + 1, terrainId, file, Idle, sn, toClient[p], toServer[p], client[p], l)
  BY <1>1, <1>2, GivenUp
<1>6. timeouts + 1 \in Nat /\ timeouts <= timeouts + 1
  BY <1>2
<1> HIDE DEF sn, l
<1>7. ~Idle.waiting /\ Idle.id = 0
  BY IdleServes
<1>8. Visited(p, timeouts + 1, l, sn)
  BY <1>3, <1>5, <1>6, <1>7, VisitKeeps
<1>9. Visited(p, timeouts', l, sn) /\ timeouts' \in Nat /\ timeouts <= timeouts'
  BY <1>1, <1>6, <1>8
<1> QED
  BY <1>1, <1>4, <1>9, VisitStep

\* ServerTextures_HandleAck, with its four outcomes.
LEMMA HandleAckStep ==
    ASSUME EachConnection, NEW p \in Players, HandleAck(p)
    PROVE  EachConnection'
<1> DEFINE a == Head(toServer[p])
           s == serving[p]
           awaited   == s.waiting /\ a.id = s.id /\ a.revision = s.revision
           refused   == awaited /\ a.offset = Refused
           confirmed == awaited /\ a.offset = s.offset
           As(w, sn, l) == /\ Linked(timeouts, terrainId, file, w, sn, toClient[p],
                                     Tail(toServer[p]), client[p], l)
                           /\ serving' = At(serving, p, w) /\ sent' = At(sent, p, sn)
                           /\ lapsed' = At(lapsed, p, l)
<1>1. /\ toServer[p] # <<>>
      /\ toServer' = [toServer EXCEPT ![p] = Tail(@)]
      /\ UNCHANGED <<serverVars, seated, toClient, client, acts, timeouts>>
  BY DEF HandleAck
<1>2. seated[p] /\ timeouts \in Nat /\ Shapes
  BY <1>1, Seat
<1>3. Linked(timeouts, terrainId, file, s, sent[p], toClient[p], toServer[p], client[p], lapsed[p])
  BY <1>2, Seat
<1>4. /\ toServer' = At(toServer, p, Tail(toServer[p]))
      /\ toClient' = At(toClient, p, toClient[p]) /\ client' = At(client, p, client[p])
  <2>1. toServer' = At(toServer, p, Tail(toServer[p]))
    BY <1>1, <1>2 DEF At, Shapes
  <2> QED
    BY <1>1, <2>1, AtSame
<1>5. s \in Servings /\ sent[p] \in [Textures -> Revisions]
  BY <1>3 DEF Linked, Ends, Typed
<1>6. ASSUME NEW w, NEW sn, NEW l, As(w, sn, l)
       PROVE  EachConnection'
  <2>1. /\ Linked(timeouts', terrainId, file, w, sn, toClient[p], Tail(toServer[p]), client[p], l)
        /\ timeouts' \in Nat /\ timeouts <= timeouts'
    BY <1>1, <1>2, <1>6
  <2> QED
    BY <1>1, <1>2, <1>4, <1>6, <2>1, OneConnection
<1> HIDE DEF As
<1>7. CASE /\ refused
           /\ sent' = [sent EXCEPT ![p] = SentOnRefusal(p, a)]
           /\ serving' = [serving EXCEPT ![p].waiting = FALSE, ![p].id = 0]
           /\ lapsed' = [lapsed EXCEPT ![p] = @ \cup {<<a.id, a.revision>>}]
  <2>1. sent' = At(sent, p, Given(sent[p], a.id, a.revision))
    BY <1>7 DEF At, Given, SentOnRefusal
  <2>2. serving' = At(serving, p, Stopped(s))
    BY <1>2, <1>7 DEF At, Stopped, Shapes
  <2>3. lapsed' = At(lapsed, p, lapsed[p] \cup {<<a.id, a.revision>>})
    BY <1>2, <1>7 DEF At, Shapes
  <2>4. As(Stopped(s), Given(sent[p], a.id, a.revision), lapsed[p] \cup {<<a.id, a.revision>>})
    BY <1>1, <1>2, <1>3, <2>1, <2>2, <2>3, AnswerRefuses DEF As
  <2> QED
    BY <1>6, <2>4
<1>8. CASE /\ confirmed /\ CompletedBy(a)
           /\ sent' = [sent EXCEPT ![p][a.id] = a.revision]
           /\ serving' = [serving EXCEPT ![p].waiting = FALSE, ![p].id = 0]
           /\ UNCHANGED lapsed
  <2>1. sent' = At(sent, p, Given(sent[p], a.id, a.revision))
    BY <1>2, <1>8 DEF At, Given, Shapes
  <2>2. serving' = At(serving, p, Stopped(s))
    BY <1>2, <1>8 DEF At, Stopped, Shapes
  <2>3. lapsed' = At(lapsed, p, lapsed[p])
    BY <1>8, AtSame
  <2>4. a.revision = file[a.id].revision /\ a.offset = file[a.id].chunks
    BY <1>8 DEF CompletedBy
  <2>5. As(Stopped(s), Given(sent[p], a.id, a.revision), lapsed[p])
    BY <1>1, <1>2, <1>3, <2>1, <2>2, <2>3, <2>4, AnswerCompletes DEF As
  <2> QED
    BY <1>6, <2>5
<1>9. CASE /\ confirmed /\ ~CompletedBy(a)
           /\ serving' = [serving EXCEPT ![p].waiting = FALSE]
           /\ UNCHANGED <<sent, lapsed>>
  <2>1. serving' = At(serving, p, Paused(s))
    BY <1>2, <1>9 DEF At, Paused, Shapes
  <2>2. sent' = At(sent, p, sent[p]) /\ lapsed' = At(lapsed, p, lapsed[p])
    BY <1>9, AtSame
  <2>3. ~(a.revision = file[a.id].revision /\ a.offset = file[a.id].chunks)
    BY <1>9 DEF CompletedBy
  <2>4. As(Paused(s), sent[p], lapsed[p])
    BY <1>1, <1>2, <1>3, <1>9, <2>1, <2>2, <2>3, AnswerConfirms DEF As
  <2> QED
    BY <1>6, <2>4
<1>10. CASE UNCHANGED <<sent, serving, lapsed>>
  <2>1. /\ sent' = At(sent, p, sent[p]) /\ lapsed' = At(lapsed, p, lapsed[p])
        /\ serving' = At(serving, p, s)
    BY <1>10, AtSame
  <2>2. As(s, sent[p], lapsed[p])
    BY <1>1, <1>2, <1>3, <2>1, AnswerIgnored DEF As
  <2> QED
    BY <1>6, <2>2
<1> QED
  BY <1>7, <1>8, <1>9, <1>10 DEF HandleAck

\* A packet that is taken leaves the connection in order.
Received(p) ==
    \E e, bs : /\ Linked(timeouts, terrainId, file, serving[p], sent[p], Tail(toClient[p]), bs, e,
                         lapsed[p])
               /\ client' = At(client, p, e) /\ toServer' = At(toServer, p, bs)

\* ... as a step of the system.
LEMMA ReceivedStep ==
    ASSUME EachConnection, NEW p \in Players, toClient[p] # <<>>, Received(p),
           toClient' = [toClient EXCEPT ![p] = Tail(@)],
           UNCHANGED <<serverVars, playerVars, lapsed, acts, timeouts>>
    PROVE  EachConnection'
<1>1. PICK e, bs :
          /\ Linked(timeouts, terrainId, file, serving[p], sent[p], Tail(toClient[p]), bs, e,
                    lapsed[p])
          /\ client' = At(client, p, e) /\ toServer' = At(toServer, p, bs)
  BY DEF Received
<1>2. seated[p] /\ timeouts \in Nat /\ Shapes
  BY Seat
<1>3. /\ seated' = seated /\ serving' = serving /\ sent' = sent /\ lapsed' = lapsed
      /\ timeouts' = timeouts
  BY DEF playerVars
<1>4. toClient' = At(toClient, p, Tail(toClient[p]))
  BY <1>2 DEF At, Shapes
<1>5. /\ serving' = At(serving, p, serving[p]) /\ sent' = At(sent, p, sent[p])
      /\ lapsed' = At(lapsed, p, lapsed[p])
  BY <1>3, AtSame
<1>6. /\ Linked(timeouts', terrainId, file, serving[p], sent[p], Tail(toClient[p]), bs, e,
                lapsed[p])
      /\ timeouts' \in Nat /\ timeouts <= timeouts'
  BY <1>1, <1>2, <1>3
<1> QED
  BY <1>1, <1>2, <1>3, <1>4, <1>5, <1>6, OneConnection

\* Who is sent packets has a seat.
LEMMA Receiver ==
    ASSUME EachConnection, NEW p \in Players, toClient[p] # <<>>
    PROVE  /\ timeouts \in Nat /\ Shapes /\ client[p] \in Clients /\ toServer[p] \in Seq(Acks)
           /\ Linked(timeouts, terrainId, file, serving[p], sent[p], toClient[p], toServer[p],
                     client[p], lapsed[p])
<1>1. seated[p] /\ timeouts \in Nat /\ Shapes
  BY Seat
<1>2. client[p] \in Clients /\ toServer[p] \in Seq(Acks)
  BY <1>1 DEF Shapes
<1> QED
  BY <1>1, <1>2, Seat

\* ClientTextures_HandleBegin.
LEMMA HandleBeginStep ==
    ASSUME EachConnection, NEW p \in Players, toClient[p] # <<>>, HandleBegin(p)
    PROVE  Received(p)
<1> DEFINE b == Head(toClient[p])
           c == client[p]
           e == WithTransfer(c, Announced(c, b))
           bs == toServer[p] \o Ack(b, AnswerTo(c, b))
<1>1. /\ timeouts \in Nat /\ Shapes /\ b.kind = "begin"
      /\ Linked(timeouts, terrainId, file, serving[p], sent[p], toClient[p], toServer[p],
                c, lapsed[p])
  BY Receiver DEF HandleBegin
<1>2. client' = At(client, p, e)
  BY <1>1 DEF HandleBegin, At, WithTransfer, Announced, Shapes
<1>3. toServer' = At(toServer, p, bs)
  BY <1>1 DEF HandleBegin, At, AnswerTo, Shapes
<1>4. Linked(timeouts, terrainId, file, serving[p], sent[p], Tail(toClient[p]), bs, e, lapsed[p])
  BY <1>1, ReceiveBegin
<1> QED
  BY <1>2, <1>3, <1>4 DEF Received

\* ClientTextures_HandleTerrain.
LEMMA HandleTerrainStep ==
    ASSUME EachConnection, NEW p \in Players, toClient[p] # <<>>, HandleTerrain(p)
    PROVE  Received(p)
<1> DEFINE m == Head(toClient[p])
           c == client[p]
           e == TerrainApplied(WithDesired(c, m.id))
<1>1. /\ timeouts \in Nat /\ Shapes /\ m.kind = "terrain"
      /\ Linked(timeouts, terrainId, file, serving[p], sent[p], toClient[p], toServer[p],
                c, lapsed[p])
  BY Receiver DEF HandleTerrain
<1>2. client' = At(client, p, e)
  BY <1>1 DEF HandleTerrain, At, WithDesired, Shapes
<1>3. toServer' = At(toServer, p, toServer[p])
  BY AtSame DEF HandleTerrain
<1>4. Linked(timeouts, terrainId, file, serving[p], sent[p], Tail(toClient[p]), toServer[p], e,
             lapsed[p])
  BY <1>1, ReceiveTerrain
<1> QED
  BY <1>2, <1>3, <1>4 DEF Received

\* Packet_HandleDefineEntityModel and Packet_HandleRemoveEntityModel.
LEMMA HandleModelStep ==
    ASSUME EachConnection, NEW p \in Players, toClient[p] # <<>>, HandleModel(p)
    PROVE  Received(p)
<1> DEFINE m == Head(toClient[p])
           c == client[p]
           e == ModelApplied(c, m.id, m.definition)
<1>1. /\ timeouts \in Nat /\ Shapes /\ m.kind = "model"
      /\ Linked(timeouts, terrainId, file, serving[p], sent[p], toClient[p], toServer[p],
                c, lapsed[p])
  BY Receiver DEF HandleModel
<1>2. client' = At(client, p, e)
  BY <1>1 DEF HandleModel, At, Shapes
<1>3. toServer' = At(toServer, p, toServer[p])
  BY AtSame DEF HandleModel
<1>4. Linked(timeouts, terrainId, file, serving[p], sent[p], Tail(toClient[p]), toServer[p], e,
             lapsed[p])
  BY <1>1, ReceiveModel
<1> QED
  BY <1>2, <1>3, <1>4 DEF Received

\* ClientTextures_HandleData, with its five outcomes.
LEMMA HandleDataStep ==
    ASSUME EachConnection, NEW p \in Players, toClient[p] # <<>>, HandleData(p)
    PROVE  Received(p)
<1> DEFINE d == Head(toClient[p])
           c == client[p]
           x == Piece(c.transfer, d)
           ends == WithTransfer(c, NoTransfer)
           expected == d.id = c.transfer.id /\ d.revision = c.transfer.revision
           inOrder  == d.offset = c.transfer.received /\ x.received <= x.chunks
           whole    == x.received = x.chunks
           Becomes(e, answer) == /\ client' = At(client, p, e)
                                 /\ toServer' = At(toServer, p, toServer[p] \o answer)
<1>1. /\ timeouts \in Nat /\ Shapes /\ d.kind = "data" /\ toServer[p] \in Seq(Acks)
      /\ Linked(timeouts, terrainId, file, serving[p], sent[p], toClient[p], toServer[p],
                c, lapsed[p])
  BY Receiver DEF HandleData
<1>2. \/ ~expected /\ Becomes(c, <<>>)
      \/ expected /\ ~inOrder /\ Becomes(ends, Ack(x, Refused))
      \/ expected /\ inOrder /\ ~whole /\ Becomes(WithTransfer(c, x), Ack(x, x.received))
      \/ expected /\ inOrder /\ whole /\ Fits(c, x.id, x.width)
            /\ Becomes(Installed(ends, x), Ack(x, x.chunks))
      \/ expected /\ inOrder /\ whole /\ ~Fits(c, x.id, x.width)
            /\ Becomes(ends, Ack(x, Refused))
  BY <1>1 DEF HandleData, At, Piece, WithTransfer, Shapes
<1> HIDE DEF x, ends
<1>3. CASE ~expected /\ Becomes(c, <<>>)
  <2>1. toServer[p] \o <<>> = toServer[p]
    BY <1>1
  <2>2. Linked(timeouts, terrainId, file, serving[p], sent[p], Tail(toClient[p]), toServer[p], c,
               lapsed[p])
    BY <1>1, DataIgnored
  <2> QED
    BY <1>3, <2>1, <2>2 DEF Received
<1>4. CASE expected /\ Becomes(ends, Ack(x, Refused))
  <2>1. Linked(timeouts, terrainId, file, serving[p], sent[p], Tail(toClient[p]),
               toServer[p] \o Ack(x, Refused), ends, lapsed[p])
    BY <1>1, <1>4, DataRefused DEF x, ends
  <2> QED
    BY <1>4, <2>1 DEF Received
<1>5. CASE expected /\ inOrder /\ ~whole /\ Becomes(WithTransfer(c, x), Ack(x, x.received))
  <2>1. Partial(x)
    BY <1>5 DEF Partial
  <2>2. Linked(timeouts, terrainId, file, serving[p], sent[p], Tail(toClient[p]),
               toServer[p] \o Ack(x, x.received), WithTransfer(c, x), lapsed[p])
    BY <1>1, <1>5, <2>1, DataTaken DEF x
  <2> QED
    BY <1>5, <2>2 DEF Received
<1>6. CASE /\ expected /\ inOrder /\ whole /\ Fits(c, x.id, x.width)
           /\ Becomes(Installed(ends, x), Ack(x, x.chunks))
  <2>1. Within(x)
    BY <1>6 DEF Within
  <2>2. Linked(timeouts, terrainId, file, serving[p], sent[p], Tail(toClient[p]),
               toServer[p] \o Ack(x, x.chunks), Installed(ends, x), lapsed[p])
    BY <1>1, <1>6, <2>1, DataWhole DEF x, ends
  <2> QED
    BY <1>6, <2>2 DEF Received
<1> QED
  BY <1>2, <1>3, <1>4, <1>5, <1>6

\* Whatever packet comes first.
LEMMA ClientReceiveStep ==
    ASSUME EachConnection, NEW p \in Players, ClientReceive(p)
    PROVE  EachConnection'
<1>1. /\ toClient[p] # <<>> /\ toClient' = [toClient EXCEPT ![p] = Tail(@)]
      /\ UNCHANGED <<serverVars, playerVars, lapsed, acts, timeouts>>
  BY DEF ClientReceive
<1>2. Received(p)
  BY <1>1, HandleBeginStep, HandleDataStep, HandleTerrainStep, HandleModelStep DEF ClientReceive
<1> QED
  BY <1>1, <1>2, ReceivedStep

\* ServerPacket_HandleIdentification.
LEMMA JoinStep ==
    ASSUME EachConnection, NEW p \in Players, Join(p)
    PROVE  EachConnection'
<1> DEFINE ms == <<Terrain(terrainId)>> \o Definitions
<1>1. /\ ~seated[p] /\ seated' = [seated EXCEPT ![p] = TRUE]
      /\ toClient' = [toClient EXCEPT ![p] = ms]
      /\ UNCHANGED <<serverVars, serving, sent, toServer, client, lapsed, acts, timeouts>>
  BY DEF Join
<1>2. /\ file' = file /\ terrainId' = terrainId /\ models' = models /\ serving' = serving
      /\ sent' = sent /\ toServer' = toServer /\ client' = client /\ lapsed' = lapsed
      /\ acts' = acts /\ timeouts' = timeouts
  BY <1>1 DEF serverVars
<1>3. models \in [Models -> Defined] /\ terrainId \in Terrains /\ timeouts \in Nat /\ Shapes
  BY DEF EachConnection, ServerOK
<1>4. /\ Ends(timeouts, file, serving[p], sent[p], <<>>, toServer[p], client[p], lapsed[p])
      /\ toServer[p] = <<>> /\ client[p] = Fresh
  BY <1>1, Seat
<1> HIDE DEF ms
<1>5. Linked(timeouts, terrainId, file, serving[p], sent[p], ms, toServer[p], client[p], lapsed[p])
  BY <1>3, <1>4, JoinEnds DEF ms
<1>6. ms \in Seq(ClientPackets)
  BY <1>5 DEF Linked, Ends, Typed
<1>7. /\ toClient' \in [Players -> Seq(ClientPackets)] /\ toClient'[p] = ms
      /\ \A q \in Players \ {p} : toClient'[q] = toClient[q]
  BY <1>1, <1>3, <1>6 DEF Shapes
<1>8. /\ seated' \in [Players -> BOOLEAN] /\ seated'[p]
      /\ \A q \in Players \ {p} : seated'[q] = seated[q]
  BY <1>1, <1>3 DEF Shapes
<1>9. Shapes'
  BY <1>2, <1>3, <1>7, <1>8 DEF Shapes
<1>10. \A q \in Players \ {p} : Kept(q)
  BY <1>2, <1>7, <1>8 DEF Kept
<1>11. Linked(timeouts', terrainId', file', serving'[p], sent'[p], toClient'[p], toServer'[p],
              client'[p], lapsed'[p])
  BY <1>2, <1>5, <1>7
<1>12. ConnectionOf(p)'
  BY <1>8, <1>11, StillSeated
<1>13. timeouts' \in Nat /\ timeouts <= timeouts'
  BY <1>2, <1>3
<1> QED
  BY <1>2, <1>9, <1>10, <1>12, <1>13, OnePlayer

\* A connection ends.
LEMMA HangUpStep ==
    ASSUME EachConnection, NEW p \in Players, HangUp(p)
    PROVE  EachConnection'
<1>1. /\ seated' = [seated EXCEPT ![p] = FALSE]
      /\ serving' = [serving EXCEPT ![p] = Idle]
      /\ sent' = [sent EXCEPT ![p] = Unsent]
      /\ toClient' = [toClient EXCEPT ![p] = <<>>]
      /\ toServer' = [toServer EXCEPT ![p] = <<>>]
      /\ client' = [client EXCEPT ![p] = Fresh]
      /\ lapsed' = [lapsed EXCEPT ![p] = {}]
      /\ UNCHANGED <<serverVars, acts, timeouts>>
  BY DEF HangUp, Unsent
<1>2. /\ file' = file /\ terrainId' = terrainId /\ models' = models
      /\ acts' = acts /\ timeouts' = timeouts
  BY <1>1 DEF serverVars
<1>3. file \in FileTables /\ timeouts \in Nat /\ Shapes
  BY DEF EachConnection, ServerOK
<1>4. Ends(timeouts, file, Idle, Unsent, <<>>, <<>>, Fresh, {})
  BY <1>3, AwayEnds
<1>5. /\ Unsent \in [Textures -> Revisions] /\ Idle \in Servings /\ Fresh \in Clients
      /\ <<>> \in Seq(ClientPackets) /\ <<>> \in Seq(Acks)
  BY IdleServes, FreshIs, NothingUnderWay DEF Unsent, Revisions
<1>6. /\ seated' \in [Players -> BOOLEAN] /\ ~seated'[p]
      /\ \A q \in Players \ {p} : seated'[q] = seated[q]
  BY <1>1, <1>3 DEF Shapes
<1>7. /\ serving' \in [Players -> Servings] /\ serving'[p] = Idle
      /\ \A q \in Players \ {p} : serving'[q] = serving[q]
  BY <1>1, <1>3, <1>5 DEF Shapes
<1>8. /\ sent' \in [Players -> [Textures -> Revisions]] /\ sent'[p] = Unsent
      /\ \A q \in Players \ {p} : sent'[q] = sent[q]
  BY <1>1, <1>3, <1>5 DEF Shapes
<1>9. /\ toClient' \in [Players -> Seq(ClientPackets)] /\ toClient'[p] = <<>>
      /\ \A q \in Players \ {p} : toClient'[q] = toClient[q]
  BY <1>1, <1>3, <1>5 DEF Shapes
<1>10. /\ toServer' \in [Players -> Seq(Acks)] /\ toServer'[p] = <<>>
       /\ \A q \in Players \ {p} : toServer'[q] = toServer[q]
  BY <1>1, <1>3, <1>5 DEF Shapes
<1>11. /\ client' \in [Players -> Clients] /\ client'[p] = Fresh
       /\ \A q \in Players \ {p} : client'[q] = client[q]
  BY <1>1, <1>3, <1>5 DEF Shapes
<1>12. /\ lapsed' \in [Players -> SUBSET (Textures \X Revisions)] /\ lapsed'[p] = {}
       /\ \A q \in Players \ {p} : lapsed'[q] = lapsed[q]
  BY <1>1, <1>3 DEF Shapes
<1>13. Shapes'
  BY <1>6, <1>7, <1>8, <1>9, <1>10, <1>11, <1>12 DEF Shapes
<1>14. \A q \in Players \ {p} : Kept(q)
  BY <1>6, <1>7, <1>8, <1>9, <1>10, <1>11, <1>12 DEF Kept
<1>15. ConnectionOf(p)'
  BY <1>2, <1>4, <1>6, <1>7, <1>8, <1>9, <1>10, <1>11, <1>12 DEF ConnectionOf, Connection
<1>16. timeouts' \in Nat /\ timeouts <= timeouts'
  BY <1>2, <1>3
<1> QED
  BY <1>2, <1>13, <1>14, <1>15, <1>16, OnePlayer

\* Whoever has a seat is sent a packet that belongs to no transfer.
LEMMA BroadcastKeeps ==
    ASSUME EachConnection, ServerOK', NEW m \in ClientPackets, m.kind \in {"terrain", "model"},
           m.kind = "terrain" /\ m.id # Builtin => file[m.id].width = TerrainWidth,
           IF m.kind = "terrain" THEN m.id = terrainId' ELSE terrainId' = terrainId,
           Broadcast(m), UNCHANGED <<file, playerVars, toServer, client, lapsed, timeouts>>
    PROVE  EachConnection'
<1>1. /\ file' = file /\ seated' = seated /\ serving' = serving /\ sent' = sent
      /\ toServer' = toServer /\ client' = client /\ lapsed' = lapsed /\ timeouts' = timeouts
  BY DEF playerVars
<1>2. timeouts \in Nat /\ Shapes
  BY DEF EachConnection, ServerOK
<1>3. \A q \in Players :
          toClient'[q] = IF seated[q] THEN Append(toClient[q], m) ELSE toClient[q]
  BY DEF Broadcast
<1>4. toClient' \in [Players -> Seq(ClientPackets)]
  <2>1. \A q \in Players : /\ toClient[q] \in Seq(ClientPackets)
                           /\ Append(toClient[q], m) \in Seq(ClientPackets)
    BY <1>2 DEF Shapes
  <2> QED
    BY <2>1 DEF Broadcast
<1>5. Shapes'
  BY <1>1, <1>2, <1>4 DEF Shapes
<1>6. Says(file, m) /\ ~IsTexturePacket(m) /\ m.kind # "data"
  BY DEF Says, IsTexturePacket
<1>7. ASSUME NEW q \in Players PROVE ConnectionOf(q)'
  <2>1. CASE seated[q]
    <3>1. /\ Linked(timeouts, terrainId, file, serving[q], sent[q], toClient[q], toServer[q],
                    client[q], lapsed[q])
      BY <2>1, Seat
    <3>2. Serves(file, serving[q], sent[q]) /\ serving[q] \in Servings
      BY <3>1 DEF Linked, Ends, ServerSide, Typed
    <3>3. Linked(timeouts, terrainId', file, serving[q], sent[q], Append(toClient[q], m),
                 toServer[q], client[q], lapsed[q])
      BY <1>2, <1>6, <3>1, <3>2, SendKeeps
    <3>4. toClient'[q] = Append(toClient[q], m) /\ seated'[q]
      BY <1>1, <1>3, <2>1
    <3>5. Linked(timeouts', terrainId', file', serving'[q], sent'[q], toClient'[q], toServer'[q],
                 client'[q], lapsed'[q])
      BY <1>1, <3>3, <3>4
    <3> QED
      BY <3>4, <3>5, StillSeated
  <2>2. CASE ~seated[q]
    <3>1. toClient'[q] = toClient[q] /\ ~seated'[q]
      BY <1>1, <1>3, <2>2
    <3>2. /\ Ends(timeouts, file, serving[q], sent[q], toClient[q], toServer[q], client[q],
                  lapsed[q])
          /\ toClient[q] = <<>> /\ toServer[q] = <<>> /\ client[q] = Fresh
      BY <2>2, Seat
    <3> QED
      BY <1>1, <3>1, <3>2 DEF ConnectionOf, Connection
  <2> QED
    BY <2>1, <2>2
<1> QED
  BY <1>5, <1>7 DEF EachConnection

----------------------------------------------------------------------------
(* The scripts.                                                            *)

\* ServerTextures_Define.
LEMMA DefinesTextureStep ==
    ASSUME EachConnection, NEW t \in Textures, NEW k \in Sizes, NEW w \in Widths,
           ScriptDefinesTexture(t, k, w)
    PROVE  EachConnection'
<1>1. /\ file[t].revision < MaxRevision /\ Replaceable(t, w)
      /\ file' = Replaced(file, t, k, w)
      /\ UNCHANGED <<terrainId, models, playerVars, toClient, toServer, client, lapsed, acts,
                     timeouts>>
  BY DEF ScriptDefinesTexture, Replaced
<1>2. /\ terrainId' = terrainId /\ models' = models /\ seated' = seated /\ serving' = serving
      /\ sent' = sent /\ toClient' = toClient /\ toServer' = toServer /\ client' = client
      /\ lapsed' = lapsed /\ acts' = acts /\ timeouts' = timeouts
  BY <1>1 DEF playerVars
<1>3. file \in FileTables /\ terrainId \in Terrains /\ TerrainFileIsAtlas /\ Shapes
  BY DEF EachConnection, ServerOK
<1>4. /\ Newer(file, file') /\ file'[t].width = w
      /\ \A v \in Textures \ {t} : file'[v] = file[v]
  BY <1>1, <1>3, ReplacedIsNewer
<1>5. file' \in FileTables
  BY <1>4 DEF Newer
<1>6. TerrainFileIsAtlas'
  <2> SUFFICES ASSUME terrainId # Builtin PROVE file'[terrainId].width = TerrainWidth
    BY <1>2 DEF TerrainFileIsAtlas
  <2>1. terrainId \in Textures /\ file[terrainId].width = TerrainWidth
    BY <1>3 DEF Terrains, TerrainFileIsAtlas
  <2>2. CASE terrainId = t
    BY <1>1, <1>4, <2>2 DEF Replaceable
  <2>3. CASE terrainId # t
    BY <1>4, <2>1, <2>3
  <2> QED
    BY <2>2, <2>3
<1>7. ServerOK'
  BY <1>2, <1>5, <1>6 DEF EachConnection, ServerOK
<1>8. Shapes'
  BY <1>2, <1>3 DEF Shapes
<1>9. ASSUME NEW q \in Players PROVE ConnectionOf(q)'
  <2>1. Ends(timeouts, file, serving[q], sent[q], toClient[q], toServer[q], client[q], lapsed[q])
    BY Seat
  <2>2. Ends(timeouts, file', serving[q], sent[q], toClient[q], toServer[q], client[q], lapsed[q])
    BY <1>4, <2>1, EndsNewer
  <2>3. /\ seated[q] => Wants(terrainId, toClient[q], client[q])
        /\ ~seated[q] => toClient[q] = <<>> /\ toServer[q] = <<>> /\ client[q] = Fresh
    BY DEF EachConnection, ConnectionOf, Connection
  <2> QED
    BY <1>2, <2>2, <2>3 DEF ConnectionOf, Connection
<1> QED
  BY <1>7, <1>8, <1>9 DEF EachConnection

\* ServerTextures_SetTerrain.
LEMMA SetsTerrainStep ==
    ASSUME EachConnection, NEW t \in Terrains, ScriptSetsTerrain(t)
    PROVE  EachConnection'
<1> DEFINE m == Terrain(t)
<1>1. /\ t # Builtin => file[t].width = TerrainWidth
      /\ terrainId' = t /\ Broadcast(m) /\ acts' = acts + 1
      /\ UNCHANGED <<file, models, playerVars, toServer, client, lapsed, timeouts>>
  BY DEF ScriptSetsTerrain
<1>2. m \in ClientPackets /\ m.kind = "terrain" /\ m.id = t
  BY DEF Terrain, ClientPackets
<1> HIDE DEF m
<1>3. ServerOK'
  BY <1>1 DEF EachConnection, ServerOK, TerrainFileIsAtlas
<1> QED
  BY <1>1, <1>2, <1>3, BroadcastKeeps

\* A model is defined or removed.
LEMMA ModelStep ==
    ASSUME EachConnection, NEW k \in Models, NEW d \in Defined,
           models' = [models EXCEPT ![k] = d], Broadcast(DefineModel(k, d)), acts' = acts + 1,
           UNCHANGED <<file, terrainId, playerVars, toServer, client, lapsed, timeouts>>
    PROVE  EachConnection'
<1> DEFINE m == DefineModel(k, d)
<1>1. m \in ClientPackets /\ m.kind = "model"
  BY DEF DefineModel, ClientPackets
<1>2. Broadcast(m)
  OBVIOUS
<1> HIDE DEF m
<1>3. ServerOK'
  BY DEF EachConnection, ServerOK, TerrainFileIsAtlas
<1> QED
  BY <1>1, <1>2, <1>3, BroadcastKeeps

\* Whatever scripts do.
LEMMA ScriptSteps ==
    ASSUME EachConnection, ScriptStep
    PROVE  EachConnection'
<1>1. ASSUME NEW t \in Textures, NEW k \in Sizes, NEW w \in Widths, ScriptDefinesTexture(t, k, w)
      PROVE  EachConnection'
  BY <1>1, DefinesTextureStep
<1>2. ASSUME NEW t \in Terrains, ScriptSetsTerrain(t)
      PROVE  EachConnection'
  BY <1>2, SetsTerrainStep
<1>3. ASSUME NEW k \in Models, NEW t \in Terrains, NEW x \in Extents, ScriptDefinesModel(k, t, x)
      PROVE  EachConnection'
  <2> DEFINE d == [texture |-> t, extent |-> x]
  <2>1. d \in Defined
    BY DEF Defined
  <2>2. /\ models' = [models EXCEPT ![k] = d] /\ Broadcast(DefineModel(k, d)) /\ acts' = acts + 1
        /\ UNCHANGED <<file, terrainId, playerVars, toServer, client, lapsed, timeouts>>
    BY <1>3 DEF ScriptDefinesModel
  <2> QED
    BY <2>1, <2>2, ModelStep
<1>4. ASSUME NEW k \in Models, ScriptRemovesModel(k)
      PROVE  EachConnection'
  <2>1. NoModel \in Defined
    BY DEF Defined
  <2>2. /\ models' = [models EXCEPT ![k] = NoModel] /\ Broadcast(DefineModel(k, NoModel))
        /\ acts' = acts + 1
        /\ UNCHANGED <<file, terrainId, playerVars, toServer, client, lapsed, timeouts>>
    BY <1>4 DEF ScriptRemovesModel
  <2> QED
    BY <2>1, <2>2, ModelStep
<1> QED
  BY <1>1, <1>2, <1>3, <1>4 DEF ScriptStep, Terrains

----------------------------------------------------------------------------
(* The theorems.                                                           *)

\* Nobody is there at first.
LEMMA InitialConnections == Init => EachConnection
<1> SUFFICES ASSUME Init PROVE EachConnection
  OBVIOUS
<1>1. /\ Unsent \in [Textures -> Revisions] /\ Idle \in Servings /\ Fresh \in Clients
      /\ <<>> \in Seq(ClientPackets) /\ <<>> \in Seq(Acks)
  BY IdleServes, FreshIs, NothingUnderWay DEF Unsent, Revisions
<1>2. file \in FileTables
  BY DEF Init, FileTables, Files
<1>3. ServerOK
  BY <1>2 DEF Init, ServerOK, TerrainFileIsAtlas, Terrains, Defined
<1>4. /\ seated = [p \in Players |-> FALSE] /\ serving = [p \in Players |-> Idle]
      /\ sent = [p \in Players |-> Unsent] /\ toClient = [p \in Players |-> <<>>]
      /\ toServer = [p \in Players |-> <<>>] /\ client = [p \in Players |-> Fresh]
      /\ lapsed = [p \in Players |-> {}] /\ timeouts = 0
  BY DEF Init, Unsent
<1>5. Shapes
  BY <1>1, <1>4 DEF Shapes
<1>6. ASSUME NEW p \in Players PROVE ConnectionOf(p)
  <2>1. Ends(0, file, Idle, Unsent, <<>>, <<>>, Fresh, {})
    BY <1>2, AwayEnds
  <2> QED
    BY <1>4, <2>1 DEF ConnectionOf, Connection
<1> QED
  BY <1>3, <1>5, <1>6 DEF EachConnection

\* Every step keeps every connection in order.
LEMMA ConnectionsStay == EachConnection /\ [Next]_vars => EachConnection'
<1> SUFFICES ASSUME EachConnection, [Next]_vars PROVE EachConnection'
  OBVIOUS
<1>1. CASE UNCHANGED vars
  <2>1. /\ file' = file /\ terrainId' = terrainId /\ models' = models /\ seated' = seated
        /\ serving' = serving /\ sent' = sent /\ toClient' = toClient /\ toServer' = toServer
        /\ client' = client /\ lapsed' = lapsed /\ acts' = acts /\ timeouts' = timeouts
    BY <1>1 DEF vars, serverVars, playerVars
  <2> QED
    BY <2>1 DEF EachConnection, ServerOK, Shapes, TerrainFileIsAtlas, ConnectionOf
<1>2. CASE ScriptStep
  BY <1>2, ScriptSteps
<1>3. ASSUME NEW p \in Players, PlayerStep(p) PROVE EachConnection'
  BY <1>3, JoinStep, HangUpStep, ServeTextureStep, TimeOutStep, HandleAckStep, ClientReceiveStep
     DEF PlayerStep
<1> QED
  BY <1>1, <1>2, <1>3 DEF Next

\* So they are always in order.
LEMMA Always == Spec => []EachConnection
  BY InitialConnections, ConnectionsStay, PTL DEF Spec

\* TransferInvariant, for any number of players, textures, models, revisions
\* and timeouts: one packet of a texture is under way, both ends mean the same
\* file by the same revision, and a texture is put together from one file
\* (ServerTextures_Update, ClientTextures_HandleBegin and HandleData).
THEOREM TransferInvariantHolds == Spec => []TransferInvariant
  BY Always, ConnectionsMean, PTL

\* DeliveredIsHeld: what ServerTextures_HandleAck takes for delivered, the
\* client has, unless it refused that revision or did not answer in time.
THEOREM DeliveredIsHeldHolds == Spec => []DeliveredIsHeld
  BY Always, ConnectionsMean, PTL

\* ModelsDrawLiveTextures: no revision of a texture, and no change of the
\* terrain, leaves a model with a texture object that was unloaded
\* (EntityModel_RefreshTextures and its callers).
THEOREM ModelsDrawLiveTexturesHolds == Spec => []ModelsDrawLiveTextures
  BY Always, ConnectionsMean, PTL

\* A client whose packets all arrived and that has the terrain's file shows it.
LEMMA TerrainIsShown ==
    EachConnection => TerrainAgrees
<1> SUFFICES ASSUME EachConnection, NEW p \in Players, seated[p], toClient[p] = <<>>,
                    terrainId # Builtin =>
                        /\ sent[p][terrainId] = file[terrainId].revision
                        /\ <<terrainId, file[terrainId].revision>> \notin lapsed[p]
             PROVE  client[p].current = terrainId
  BY DEF TerrainAgrees
<1>1. /\ TransferInvariant /\ DeliveredIsHeld /\ TerrainFileIsAtlas /\ TerrainIsOnItsWay
  BY ConnectionsMean
<1>2. file \in FileTables /\ terrainId \in Terrains
  BY DEF EachConnection, ServerOK
<1>3. TerrainsAsked(toClient[p]) = {}
  BY NothingUnderWay
<1>4. client[p].desired = terrainId
  BY <1>1, <1>3 DEF TerrainIsOnItsWay
<1>5. Usable(client[p], client[p].desired)
  <2>1. CASE terrainId = Builtin
    BY <1>4, <2>1 DEF Usable
  <2>2. CASE terrainId # Builtin
    <3>1. terrainId \in Textures /\ file[terrainId].width = TerrainWidth
      BY <1>1, <1>2, <2>2 DEF Terrains, TerrainFileIsAtlas
    <3>2. file[terrainId] # NoFile
      <4>1. TerrainWidth # 0 /\ NoFile.width = 0
        BY WidthsAre DEF NoFile
      <4> QED
        BY <3>1, <4>1
    <3>3. client[p].held[terrainId].revision = file[terrainId].revision
      BY <1>1, <2>2, <3>1, <3>2 DEF DeliveredIsHeld
    <3>4. client[p].held[terrainId].width = file[terrainId].width
      BY <1>1, <3>1, <3>3 DEF TransferInvariant, EndsAgree
    <3> QED
      BY <1>4, <3>1, <3>4 DEF Usable
  <2> QED
    BY <2>1, <2>2
<1> QED
  BY <1>1, <1>4, <1>5 DEF TerrainIsOnItsWay

\* TerrainInvariant: the terrain's texture always has the size of the atlas,
\* although ServerTextures_Define may replace the file during its transfer,
\* and a client that was sent it shows the terrain the scripts chose
\* (ApplyTerrain of the client's textures.c).
THEOREM TerrainInvariantHolds == Spec => []TerrainInvariant
<1>1. EachConnection => TerrainInvariant
  BY ConnectionsMean, TerrainIsShown DEF TerrainInvariant
<1> QED
  BY <1>1, Always, PTL
=============================================================================
