----------------------------- MODULE ChunkLight -----------------------------
(***************************************************************************)
(* Light in the chunks a client holds, in a vertical slice of the world:   *)
(* block light and sunlight spread and recede across chunk borders while   *)
(* chunks arrive and leave, blocks change and definitions are replaced.    *)
(* The queues of cells are walked to their end within one call, and what   *)
(* they leave behind does not depend on their order, so each walk is one   *)
(* closure over cells.                                                     *)
(***************************************************************************)
EXTENDS Integers, FiniteSets, FiniteSetsExt

CONSTANTS
    Side,         \* width and height of a chunk
    Width,        \* chunks in a row
    Height,       \* chunks in a column
    MaxLight,     \* 15 in the code, one less than the side of a chunk
    Default,      \* the block definitions of a client
    Definitions,  \* the sets of block definitions a server may send
    Worlds,       \* initial contents of the world, a block per cell
    Edits,        \* cell and block of each edit a player may make
    MaxEdits,     \* bound of the model
    MaxUnloads,   \* bound of the model
    MaxRelights   \* bound of the model

Chunks == {<<x, y>> : x \in 0 .. Width - 1, y \in 0 .. Height - 1}
Cells  == {<<x, y>> : x \in 0 .. Width * Side - 1, y \in 0 .. Height * Side - 1}
Faces  == {"left", "right", "top", "bottom"}
Banks  == {"light", "sunlight"}

Home(c)    == <<c[1] \div Side, c[2] \div Side>>
IsTopRow(c) == c[2] = Height * Side - 1

ASSUME SizesAssumption ==
    /\ Side \in Nat \ {0} /\ Width \in Nat \ {0} /\ Height \in Nat \ {0}
    /\ MaxLight \in 1 .. (Side - 1)

Blocks == DOMAIN Default

\* What is transparent is not opaque and lets light through all its faces.
Kinds == {kind \in [emits : BOOLEAN, blocks : BOOLEAN, clear : BOOLEAN, passes : SUBSET Faces] :
             kind.clear => ~kind.blocks /\ kind.passes = Faces}

\* Every id has a definition.
ASSUME BlocksAssumption ==
    /\ Default \in Definitions /\ Definitions \subseteq [Blocks -> Kinds]
    /\ Worlds \subseteq [Cells -> Blocks]
    /\ \A e \in Edits : e.block \in Blocks

\* The sky is above the world: its top row is air and stays so.
ASSUME SkyAssumption ==
    /\ \A e \in Edits : e.at \in Cells /\ ~IsTopRow(e.at)
    /\ \A w \in Worlds, d \in Definitions : \A c \in Cells : IsTopRow(c) => d[w[c]].clear

VARIABLES
    definition,  \* per block: emits, blocks, clear (renders transparent), passes
    data,        \* per cell, the block, at the server and in a held chunk
    mask,        \* cells whose bit is set in the skyMask of their chunk
    present,     \* chunks in world.chunks
    ready,       \* isBlockDataReady
    lit,         \* isLightGenerated
    built,       \* isBuilt
    dirty,       \* isLightDirty
    queue,       \* generateChunksQueue, those with isGenerating
    level,       \* per bank and cell, lightData and sunlightData
    incomplete,  \* per bank, the pairs of chunk and face with the bit set
    held,        \* history: chunks that have been lit so far
    missed,      \* history: why light may be wrong, see Missed
    overlooked,  \* history: cells whose block changed in a chunk that had its
                 \* blocks and waited to be lit again: only the block is written
    old,         \* history: <<k, n>> when the light of n in the mesh of k has
                 \* changed and is to be shown by building k again
    edits, unloads, relights

chunkVars == <<present, ready, lit, built, dirty, queue>>
lightVars == <<level, incomplete>>
history   == <<held, missed, overlooked, old>>
counters  == <<edits, unloads, relights>>
vars == <<definition, data, mask, chunkVars, lightVars, history, counters>>

Step(p, face) ==
    CASE face = "left"  -> <<p[1] - 1, p[2]>>
      [] face = "right" -> <<p[1] + 1, p[2]>>
      [] face = "top"   -> <<p[1], p[2] + 1>>
      [] OTHER          -> <<p[1], p[2] - 1>>

Opposite(face) ==
    CASE face = "left" -> "right" [] face = "right"  -> "left"
      [] face = "top"  -> "bottom" [] OTHER          -> "top"

Beside  == [k \in Chunks |-> {Step(k, f) : f \in Faces} \cap Chunks]
Around  == [k \in Chunks |-> {n \in Chunks : n[1] - k[1] \in -1 .. 1 /\ n[2] - k[2] \in -1 .. 1}]
CellsOf == [k \in Chunks |-> {c \in Cells : Home(c) = k}]
Next4   == [c \in Cells |-> {Step(c, f) : f \in Faces} \cap Cells]

\* The cells of a chunk at one of its faces.
Row(k, face) == {c \in CellsOf[k] : Home(Step(c, face)) # k}

\* AddFace: a face at the border of a chunk takes the light behind that border.
Shown == [k \in Chunks |-> [n \in Beside[k] \cup {k} |->
    IF n = k THEN CellsOf[k] ELSE {c \in CellsOf[n] : \E f \in Faces : Home(Step(c, f)) = k}]]

----------------------------------------------------------------------------
(* The walks.  g is what they work on: definition and data as they are     *)
(* now, open (the chunks with block data ready), level and incomplete, and *)
(* changed (the chunks a level was set in).                                *)

Of(g, c) == g.definition[g.data[c]]
BlocksLight(g, c) == Of(g, c).blocks
Passes(g, c, face) == Of(g, c).emits \/ face \in Of(g, c).passes

\* Sunlight goes down through transparent blocks without loss.
Loss(g, bank, c, face) == IF bank = "sunlight" /\ face = "bottom" /\ Of(g, c).clear THEN 0 ELSE 1

IsOpen(g, c) == Home(c) \in g.open

\* Light of a cell enters the next one through this face of it.
Reaches(g, c, face) == Passes(g, c, face) /\ ~BlocksLight(g, Step(c, face))
Enters(g, c, face) ==
    Step(c, face) \in Cells /\ IsOpen(g, Step(c, face)) /\ Reaches(g, c, face)

\* The light that arrives there.
Offer(g, bank, c, face) == g.level[bank][c] - Loss(g, bank, Step(c, face), face)

\* The levels above its own that some of these cells offer a cell.
Raising(g, bank, nodes, n) ==
    {l \in (g.level[bank][n] + 1) .. MaxLight :
        \E f \in Faces : LET c == Step(n, Opposite(f)) IN
            c \in nodes /\ Enters(g, c, f) /\ l = Offer(g, bank, c, f)}

CutOffNever(g, cells, always) == {}

\* Faces of held chunks across which these cells would have gone on.
CutOff(g, cells, always) ==
    {i \in g.open \X Faces :
        LET next == Step(i[1], i[2])
        IN  /\ next \in Chunks \ g.open
            /\ \E c \in cells : /\ Home(c) = i[1]
                               /\ Home(Step(c, i[2])) = next
                               /\ (always \/ Passes(g, c, i[2]))}

\* All nodes in the queue spread their light, and those they raise are the queue.
Round(g, bank, nodes) ==
    LET raised == {n \in UNION {Next4[c] : c \in nodes} : Raising(g, bank, nodes, n) # {}}
    IN  [g |-> [g EXCEPT !.level[bank] = [c \in Cells |->
                                             IF c \in raised THEN Max(Raising(g, bank, nodes, c))
                                             ELSE @[c]],
                         !.incomplete[bank] = @ \cup CutOff(g, nodes, FALSE),
                         !.changed = @ \cup {Home(c) : c \in raised}],
         nodes |-> raised]

\* Twice the level and the row of the nodes fall together in every round.
Rounds == 2 * MaxLight + Height * Side

Chunk_SpreadLight(g, bank, nodes) ==
    LET walk[n \in 0 .. Rounds] ==
            IF n = 0 THEN [g |-> g, nodes |-> nodes]
            ELSE LET before == walk[n - 1]
                 IN  IF before.nodes = {} THEN before
                     ELSE Round(before.g, bank, before.nodes)
    IN  walk[Rounds].g

DimmedOnly(g, bank, c) ==
    {n \in Next4[c] : IsOpen(g, n) /\ g.level[bank][n] \in 1 .. (g.level[bank][c] - 1)}

\* What goes dark with a cell: the dimmer cells around it, and the column below.
Dimmed(g, bank, c) ==
    {n \in Next4[c] :
        /\ IsOpen(g, n)
        /\ g.level[bank][n] # 0
        /\ \/ g.level[bank][n] < g.level[bank][c]
           \/ bank = "sunlight" /\ n = Step(c, "bottom") /\ g.level[bank][c] # 0}

\* Each round but the last darkens a cell.
Darkened(g, bank, at) ==
    LET walk[n \in 0 .. Cardinality(Cells)] ==
            IF n = 0 THEN [dark |-> {at}, nodes |-> {at}]
            ELSE LET before == walk[n - 1]
                     more == (UNION {Dimmed(g, bank, c) : c \in before.nodes}) \ before.dark
                 IN  [dark |-> before.dark \cup more, nodes |-> more]
    IN  walk[Cardinality(Cells)].dark

\* Chunk_UpdateLight from one cell, and the spread from the lit cells around
\* what went dark.
Chunk_Remove(g, bank, at) ==
    LET dark == Darkened(g, bank, at)
        edge == {n \in UNION {Next4[c] : c \in dark} :
                    n \notin dark /\ IsOpen(g, n) /\ g.level[bank][n] # 0 /\ ~BlocksLight(g, n)}
        now == [g EXCEPT !.level[bank] = [c \in Cells |-> IF c \in dark THEN 0 ELSE @[c]],
                         !.incomplete[bank] = @ \cup CutOff(g, dark, TRUE),
                         !.changed = @ \cup {Home(c) : c \in {d \in dark : g.level[bank][d] # 0}}]
    IN  Chunk_SpreadLight(now, bank, edge)

\* Chunk_SetLightLevel of the cells of a function, and the spread from them.
Lighted(g, bank, levels) ==
    Chunk_SpreadLight(
        [g EXCEPT !.level[bank] = [c \in Cells |-> IF c \in DOMAIN levels THEN levels[c] ELSE @[c]],
                  !.changed = @ \cup {Home(c) : c \in {s \in DOMAIN levels :
                                                       g.level[bank][s] # levels[s]}}],
        bank, DOMAIN levels)

Chunk_DoLightSources(g, k) ==
    Lighted(g, "light", [c \in {c \in CellsOf[k] : Of(g, c).emits} |-> MaxLight])

Chunk_DoSunlight(g, k, lightGenerated) ==
    LET above == Step(k, "top")
        top == {c \in Row(k, "top") : c \in mask /\ ~BlocksLight(g, c)}
    IN  IF above \in lightGenerated
        THEN Chunk_SpreadLight(g, "sunlight", {c \in Row(above, "bottom") : g.level["sunlight"][c] # 0})
        ELSE Lighted(g, "sunlight",
                     [c \in top |-> IF Of(g, c).clear THEN MaxLight ELSE MaxLight - 1])

Chunk_ReconcileLightBank(g, k, face, bank) ==
    LET next == Step(k, face)
        bits == {<<k, face>>, <<next, Opposite(face)>>}
    IN  IF bits \cap g.incomplete[bank] = {} THEN g
        ELSE Chunk_SpreadLight(
                 [g EXCEPT !.incomplete[bank] = @ \ bits], bank,
                 {c \in Row(k, face) \cup Row(next, Opposite(face)) : g.level[bank][c] # 0})

Chunk_ReconcileFace(g, k, face) ==
    IF Step(k, face) \notin g.open THEN g
    ELSE Chunk_ReconcileLightBank(Chunk_ReconcileLightBank(g, k, face, "light"),
                                  k, face, "sunlight")

Chunk_ReconcileLighting(g, k) ==
    LET left   == Chunk_ReconcileFace(g, k, "left")
        right  == Chunk_ReconcileFace(left, k, "right")
        top    == Chunk_ReconcileFace(right, k, "top")
    IN  Chunk_ReconcileFace(top, k, "bottom")

----------------------------------------------------------------------------
(* Chunks.                                                                 *)

\* The data of the walks in the current state.
Now == [definition |-> definition, data |-> data, open |-> ready, level |-> level,
        incomplete |-> incomplete, changed |-> {}]

\* The chunks Chunk_Generate lights: k and those above it that are held and not
\* lit yet, without a gap.
ToLight(k) ==
    {n \in Chunks : /\ n[1] = k[1] /\ n[2] >= k[2]
                    /\ \A y \in k[2] .. n[2] : <<k[1], y>> \in present \ lit}

LightUp(acc, k) ==
    LET sun == Chunk_DoSunlight(acc.g, k, acc.lit)
        all == Chunk_DoLightSources(sun, k)
    IN  [g |-> Chunk_ReconcileLighting(all, k), lit |-> acc.lit \cup {k}]

\* From the top: done[y] has the chunks of the y uppermost rows.
Chunk_Generate(k) ==
    LET chain == ToLight(k)
        done[y \in 0 .. Height] ==
            IF y = 0 THEN [g |-> [Now EXCEPT !.open = @ \cup chain], lit |-> lit]
            ELSE LET before == done[y - 1]
                     next == <<k[1], Height - y>>
                 IN  IF next \in chain THEN LightUp(before, next) ELSE before
    IN  done[Height]

\* What light may be too bright for, kept to say when it must not be:
\*   mask    a chunk was lit by a sky mask that was not true, or is no longer
\*   unseen  a block changed in a chunk that was lit once and is not there, or
\*           is back and waits to be lit
\*   cut     a block changed while another chunk was in that condition, under a
\*           chunk never held, whose light a mask stands for, or by a lamp that
\*           is opaque: Chunk_UpdateLight does not spread their light again
Missed == {"mask", "unseen", "cut"}

Under(k) == {n \in Chunks : n[1] = k[1] /\ n[2] < k[2]}

\* All chunks that ever were lit are, and none has an opaque lamp.
Whole ==
    /\ held \subseteq lit
    /\ \A c \in Cells : Home(c) \in held => ~(Of(Now, c).emits /\ BlocksLight(Now, c))

\* No sky mask is needed.
Roofed == \A k \in held : Step(k, "top") \in Chunks => Step(k, "top") \in held

ClearAbove(c) ==
    \A y \in 0 .. Height * Side - 1 : y > c[2] => definition[data[<<c[1], y>>]].clear

MaskLies(k) ==
    /\ Step(k, "top") \notin present
    /\ \E c \in Row(k, "top") : c \in mask /\ ~ClearAbove(c)

Init ==
    /\ definition = Default
    /\ data \in Worlds
    /\ mask = {c \in Cells : /\ c \in Row(Home(c), "top")
                             /\ \A y \in 0 .. Height * Side - 1 :
                                   y > c[2] => ~definition[data[<<c[1], y>>]].blocks}
    /\ present = {} /\ ready = {} /\ lit = {} /\ built = {} /\ dirty = {} /\ queue = {}
    /\ level = [b \in Banks |-> [c \in Cells |-> 0]]
    /\ incomplete = [b \in Banks |-> {}]
    /\ held = {} /\ missed = {} /\ overlooked = {} /\ old = {}
    /\ edits = 0 /\ unloads = 0 /\ relights = 0

\* World_AddChunk, and the block data and mask of the packet.
World_AddChunk(k) ==
    /\ k \notin present
    /\ present' = present \cup {k}
    /\ queue' = queue \cup {k}
    /\ UNCHANGED <<definition, data, mask, ready, lit, built, dirty, lightVars, history, counters>>

\* World_RemoveChunk: what is next to it may have light to give when it returns.
World_RemoveChunk(k) ==
    /\ k \in present
    /\ unloads < MaxUnloads
    /\ unloads' = unloads + 1
    /\ present' = present \ {k} /\ ready' = ready \ {k} /\ lit' = lit \ {k}
    /\ built' = built \ {k} /\ dirty' = dirty \ {k} /\ queue' = queue \ {k}
    /\ level' = [b \in Banks |-> [c \in Cells |-> IF Home(c) = k THEN 0 ELSE level[b][c]]]
    /\ incomplete' =
          [b \in Banks |->
              {i \in incomplete[b] : i[1] # k} \cup
              {i \in present \X Faces : Step(i[1], i[2]) = k}]
    /\ overlooked' = overlooked \ CellsOf[k]
    /\ old' = {p \in old : k \notin {p[1], p[2]}}
    /\ UNCHANGED <<definition, data, mask, held, missed, edits, relights>>

RequeuedStale(k, stale) == stale \cap built
RequeuedNew(k, stale) == IF k \in built THEN {} ELSE Beside[k] \cap present
RequeuedAlways(k, stale) == (Beside[k] \cap present) \cup (stale \cap built)

\* A first mesh may hide faces of the chunks beside it; changed light is shown
\* by building again.
Requeued(k, stale) == RequeuedNew(k, stale) \cup (stale \cap built)

\* The meshes of these chunks and the chunks in them whose light changes.
Outdated(meshes) ==
    {p \in meshes \X Chunks :
        /\ p[2] \in Beside[p[1]] \cup {p[1]}
        /\ \E b \in Banks, c \in Shown[p[1]][p[2]] : level'[b][c] # level[b][c]}

\* The mesh shows the light there is now, of the chunk and of those around it.
\* Of what the turn changes the other meshes are to show their own light, and
\* that of a neighbour that has no mesh yet.
ChunkMeshGeneration_Build(k, dirtied) ==
    /\ built' = built \cup {k}
    /\ dirty' = dirtied \ {k}
    /\ old' = {p \in old : p[1] # k} \cup
              {p \in Outdated(built \ {k}) : p[2] = p[1] \/ p[2] \notin built}

\* World_ReadChunksQueues: light the chunk, build its mesh, and queue every
\* chunk whose mesh shows light that has changed.
World_ReadChunksQueues(k) ==
    /\ k \in queue
    /\ \E made \in {Chunk_Generate(k)} :
          LET stale == (dirty \cup made.g.changed) \ {k}
          IN  /\ ready' = made.g.open
              /\ lit' = made.lit
              /\ level' = made.g.level
              /\ incomplete' = made.g.incomplete
              /\ ChunkMeshGeneration_Build(k, dirty \cup made.g.changed)
              /\ queue' = (queue \ {k}) \cup Requeued(k, stale)
              /\ held' = held \cup made.lit
              /\ missed' = missed \cup
                    (IF \E n \in made.lit \ lit : MaskLies(n) THEN {"mask"} ELSE {})
    /\ UNCHANGED <<definition, data, mask, present, overlooked, counters>>

\* Chunk_SetBlock, after the block is written.
Chunk_SetBlock(g, at) ==
    LET sun == Chunk_Remove(g, "sunlight", at)
    IN  IF Of(g, at).emits THEN Lighted(sun, "light", [c \in {at} |-> MaxLight])
        ELSE Chunk_Remove(sun, "light", at)

\* A block of the world changes; World_SetBlock if the client holds its chunk.
\* In a chunk that is not lit only the block is written: of light that has come
\* in from a lit neighbour nothing is removed, and nothing is sent on.  An edit
\* of a lit chunk is to be shown by the meshes of all chunks around it.
World_SetBlock(at, b) ==
    /\ data[at] # b
    /\ edits < MaxEdits
    /\ edits' = edits + 1
    /\ data' = [data EXCEPT ![at] = b]
    /\ LET k == Home(at)
       IN  \/ /\ k \in lit
              /\ \E set \in {Chunk_SetBlock([Now EXCEPT !.data = data'], at)} :
                    /\ level' = set.level
                    /\ incomplete' = set.incomplete
                    /\ dirty' = dirty \cup set.changed
              /\ old' = old \cup {p \in Outdated(built) : p[2] = p[1] \/ p[1] \in Around[k]}
              /\ queue' = queue \cup (Around[k] \cap present)
              /\ overlooked' = overlooked \ {at}
              /\ missed' = missed \cup (IF Whole /\ Roofed THEN {} ELSE {"cut"})
           \/ /\ k \notin lit
              /\ overlooked' = overlooked \cup (IF k \in ready THEN {at} ELSE {})
              /\ missed' = missed \cup (IF k \in held THEN {"unseen"} ELSE {})
                                 \cup (IF Under(k) \cap held # {} THEN {"mask"} ELSE {})
              /\ UNCHANGED <<lightVars, dirty, queue, old>>
    /\ UNCHANGED <<definition, mask, present, ready, lit, built, held, unloads, relights>>

\* Block_FlushDefinitionChanges with a change that matters to light:
\* World_InvalidateBlockDefinitions(true).
World_InvalidateBlockDefinitions(d) ==
    /\ d # definition
    /\ relights < MaxRelights
    /\ relights' = relights + 1
    /\ definition' = d
    /\ level' = [b \in Banks |-> [c \in Cells |-> 0]]
    /\ incomplete' = [b \in Banks |-> {}]
    /\ lit' = {}
    /\ dirty' = present
    /\ queue' = present
    /\ overlooked' = {}
    /\ old' = old \cup Outdated(built)
    /\ UNCHANGED <<data, mask, present, ready, built, held, missed, edits, unloads>>

Next ==
    \/ \E k \in Chunks : World_AddChunk(k) \/ World_RemoveChunk(k) \/ World_ReadChunksQueues(k)
    \/ \E e \in Edits : World_SetBlock(e.at, e.block)
    \/ \E d \in Definitions : World_InvalidateBlockDefinitions(d)

Spec == Init /\ [][Next]_vars

----------------------------------------------------------------------------
(* Properties.                                                             *)

\* The type of every variable; light is only in chunks with their blocks.
TypeOK ==
    /\ definition \in Definitions
    /\ data \in [Cells -> Blocks]
    /\ mask \subseteq Cells
    /\ present \subseteq Chunks /\ ready \subseteq present /\ lit \subseteq ready
    /\ lit \subseteq held /\ held \subseteq Chunks
    /\ built \subseteq present /\ dirty \subseteq present /\ queue \subseteq present
    /\ \A b \in Banks, c \in Cells :
          level[b][c] \in 0 .. (IF Home(c) \in ready THEN MaxLight ELSE 0)
    /\ incomplete \in [Banks -> SUBSET (Chunks \X Faces)]
    /\ missed \subseteq Missed
    /\ overlooked \subseteq Cells /\ old \subseteq built \X present
    /\ edits \in Nat /\ unloads \in Nat /\ relights \in Nat

Lamp(c) == Of(Now, c).emits

\* Nothing is too dark: in and between lit chunks light has gone wherever it
\* goes, whatever the order chunks came, left and changed in; a lamp shines
\* and the top row of the world has the sky.  Around an opaque lamp nothing is
\* promised: Chunk_UpdateLight does not spread its light again; and between a
\* cell that was overlooked and those beside it nothing is, until it is edited
\* again, its chunk returns or all light is made anew.
LitEnough ==
    \A c \in {c \in Cells : Home(c) \in lit} :
        /\ Lamp(c) => level["light"][c] = MaxLight
        /\ IsTopRow(c) => level["sunlight"][c] = MaxLight
        /\ \A b \in Banks, f \in Faces :
              ~BlocksLight(Now, c) /\ Enters(Now, c, f) /\ Home(Step(c, f)) \in lit
              /\ {c, Step(c, f)} \cap overlooked = {} =>
                 level[b][Step(c, f)] >= Offer(Now, b, c, f)

\* The same, with the types.
LightInvariant == TypeOK /\ LitEnough

\* A cell with light has it from the sky, its lamp, or a brighter neighbour; or
\* from its sky mask, under a chunk that was never held.
Supported(b, c) ==
    \/ b = "light" /\ Lamp(c)
    \/ b = "sunlight" /\ IsTopRow(c)
    \/ b = "sunlight" /\ c \in mask /\ Step(Home(c), "top") \in Chunks \ held
    \/ \E f \in Faces : LET n == Step(c, Opposite(f)) IN
          /\ n \in Cells /\ Home(n) \in lit /\ Reaches(Now, n, f)
          /\ level[b][n] - Loss(Now, b, c, f) >= level[b][c]

\* Nothing is too bright where all chunks that ever were lit are, however often
\* they left and in whatever order they came back, unless something was missed.
NotOverlit ==
    missed = {} /\ Whole =>
        \A b \in Banks, c \in Cells : level[b][c] # 0 => Supported(b, c)

\* A held chunk that is not lit or has no mesh is in the queue; and when the
\* queue has been worked off, turn by turn, every mesh shows the light of its
\* own chunk as it is, and at its borders the light of each neighbour as it was
\* when that got its mesh or later, with every edit around.  Not more: when a
\* third chunk's lighting, or a relight, changes a neighbour that has its mesh,
\* only the neighbour's own mesh is built again.
MeshesSettle ==
    /\ [](present \ (lit \cap built) \subseteq queue)
    /\ [][queue # {} /\ queue' = {} /\ UNCHANGED present => dirty' = {} /\ old' = {}]_vars

\* Working off the queue comes to an end: a chunk taken from it leaves one more
\* with a mesh, or one more lit, or all of that as it was and strictly fewer
\* chunks to do; building a chunk again never makes its neighbours and itself
\* queue in turn.
ToDo == queue \cup (dirty \cap built)

Working == queue # {} /\ UNCHANGED <<present, counters>>

QueueDrains ==
    [][Working =>
          \/ built \subseteq built' /\ built' # built
          \/ built' = built /\ lit \subseteq lit' /\ lit' # lit
          \/ built' = built /\ lit' = lit /\ ToDo' \subseteq ToDo /\ ToDo' # ToDo]_vars
=============================================================================
