# Midless: TLA+ specifications

Midless is a voxel game in C: a server that owns the world and runs Lua
scripts, and a client that shows a copy of it, over ENet, over websockets, or
with the server as a thread of the client. This directory models the parts of
it where threads, queues and replicated state meet, checks them with TLC, and
proves with TLAPS the safety of all of them but the generator. Paths below are
relative to `src/`.

1. [The system](#1-the-system)
2. [The modules](#2-the-modules)
3. [The runs](#3-the-runs)
4. [Bounds, symmetry, fairness](#4-bounds-symmetry-fairness)
5. [Proofs](#5-proofs)
6. [Where the code and its documentation differ](#6-where-the-code-and-its-documentation-differ)
7. [What is not modelled](#7-what-is-not-modelled)
8. [Plan](#8-plan)

## 1. The system

### Threads

| thread | runs | shares |
|---|---|---|
| ENet thread of the server (`Server_Do`, server.c) | connect, receive and disconnect events; sends the outgoing queue | the packet queue, `pendingPackets`, `disconnected`, under `serverNetworkMutex`; the outgoing queue under its own mutex |
| main loop of the server (main.c) | websocket poll, `ServerNetwork_ProcessIncomingPackets`, `ServerWorld_Update` | the same, and the loader's queues |
| chunk loader (`ChunkLoaderRun`, chunkmanager.c) | loads or generates one chunk at a time | `loadRequests`, `loadResults`, `loaderBusy`, under `loaderMutex` |
| network thread of the client | receives into two queues | those queues, under `networkQueueMutex` |
| main thread of the client | packets of the queues, input, drawing | the same |
| local server thread (localserver.c) | the main loop of the server, inside the client | everything of both |

### Components

* **Server sessions** (server `networkhandler.c`, `player.c`,
  `world/playermanager.c`, `main.c`). State: the `Player` objects, the queue of
  incoming packets with a limit of its own and one per player, the seats
  `serverWorld.players`. Operations: connect, receive, disconnect, serve one
  packet, join, update and unseat, shut down. The ENet thread allocates a
  player and the thread that is last to use it frees it: the thread that
  disconnects, if nothing is pending and it never identified; the packet loop,
  if it handled the last packet of such a player; else the player update.
  *Correct if* no thread uses a player another one freed, none is freed twice,
  all that disconnect are freed, and seats and entities match.
* **Chunk streaming** (`world/chunkmanager.c`, `world/chunk/chunk.c`, server
  `player.c`). State: the chunk table with subscribers and a modified flag,
  the loader's request, chunk in hand and results, one pending request per
  player, the chunk files. Operations: request, load or generate, publish,
  deliver, set a block, unload, save, shut down. *Correct if* a chunk is never
  in the loader's hands and in the table at once, every request is answered,
  subscribers are seated players, the clients show what the server has, and
  the world changes by edits only.
* **Entities** (`world/entitymanager.c`, `world/world.c`,
  `scripting/luaentities.c`). State: a table of slots with generation, owner,
  `announced`, `dirty`, `pendingRemoval`. Operations: add, teleport, set the
  model, remove, and the update, which steps entities (scripts run here), then
  destroys, announces and tells of moves. *Correct if* what a client will show
  once its stream is read is the table, although slots are used again.
* **Textures and models** (both `textures.c`, client `entity/entitymodel.c`,
  `world/world.c`). State: files with a revision at the server, one
  acknowledged transfer per player, what the server noted as sent; at the
  client, textures with a GPU handle, the transfer under way, the terrain
  wanted and the terrain shown, model definitions and the models built from
  them. *Correct if* a texture on the screen is one whole revision, nothing
  draws with an unloaded handle, the terrain is always an atlas of the right
  size, and transfers settle.
* **Client sessions** (client `networking/networkhandler.c`,
  `networking/client.c`, `localserver.c`, `gui/screens.c`). State: flags three
  kinds of threads share, two queues (gameplay and terrain) with limits and a
  time budget per frame, the network threads, the thread of the local server.
  Operations: log in, start the local server, receive, run a frame's packets,
  ask for a disconnect (the user, a handler or the network thread), carry it
  out (the main thread), quit. *Correct if* a queue's packets run in order,
  nothing of a session is left for the next one, a disconnect happens, and the
  chunks of a server are not written into the client's own world.
* **Scripting** (`scripting/*.c`). Bindings and callbacks that run inside all
  of the above: `set_block` and `set_blocks`, entities, textures, models, block
  definitions; handles to players and entities. *Correct if* what a callback
  does in the middle of another call leaves server and clients in step.
* **World generation** (`world/worldgen.c`, `world/worldgenfeatures.c`). State:
  the frozen definitions and a cache of feature origins. Operations: generate
  the blocks of one chunk (terrain, material rules, ores, structures,
  features), compute its sky mask. *Correct if* a chunk is its part of one
  world, whatever was generated before it, and a column sees the sky just
  when nothing opaque is above it.
* **Generator definitions** (`scripting/luaworldgen.c`, `world/worldgenfield.c`,
  `scripting/luaengine.c`). State: the graph of fields, the lists of biomes,
  ores, structures, rules and features, whether they are frozen, the file
  `worldgen.meta`. Operations: the `midless.*` calls of mods, the checks when
  the server starts, the evaluation of a field with its cache. *Correct if*
  only complete definitions are used, they no longer change, a world is never
  continued with others, and the cache does not show.
* **Light and mesh queue of the client** (client `chunk/chunklightning.c`,
  `chunk/chunk.c`, `world.c`). State: two levels per block, marks on the faces of
  chunks where a walk met a missing chunk, the queue of chunks to build.
  Operations: light a chunk when it arrives, join it with its neighbours, edits,
  removal, new block definitions, one turn of the queue. *Correct if* light is
  neither too dark nor too bright whatever the order of all that, and the
  queue ends with meshes that show it, as far as the code goes for that.
* **The run-length codec of chunks, block textures and shapes, interface,
  physics.** Pure algorithms or presentation.

The components meet in the `Player` object (seat, entity, requested chunk,
transfer), in `serverWorld`, and in one reliable ordered stream of packets per
client.

`PROJECT.json` lists under `hazards` what can go wrong in this code and is hard
to test, each with its line, and the property that covers it or the reason why
none does.

## 2. The modules

| module | models | abstract data |
|---|---|---|
| `PlayerLifecycle` | what the server promises of a connection, without threads or queues | |
| `ServerSession` | sessions; implements `PlayerLifecycle` | a packet is one of three kinds |
| `ChunkStreaming` | chunk manager, loader thread, files, crash and restart, the clients' copies | a chunk is one block; a position is a place with three sets of chunks |
| `EntityReplication` | entity table, update with callbacks, the clients' copies | position is a spot; type, rotation and held block left out |
| `TextureTransfer` | definition, transfer, terrain choice, models, at both ends | a file is a number of chunks and a width |
| `ClientSession` | client login to login: queues, threads, disconnects, local server | a packet is one of a few kinds; the world is one chunk |
| `WorldGen` | the generator of chunks, its cache, the sky mask | a vertical slice; fields, noise and rolls are functions of the position |
| `WorldFields` | the field language: shared nodes, evaluation with and without the cache | small integers; one operation for each of unary and binary |
| `WorldDefinitions` | what mods define, the checks, `worldgen.meta`, restarts; extends `WorldFields` | a definition keeps its blocks, fields and biome |
| `ChunkLight` | light, its walks over chunk borders, the queue of meshes | a vertical slice; a mesh is from whose light it is out of date |
| `MC...` | values of the constants for TLC | |
| `SequenceFacts` | lemmas about sequences that the proofs share | |
| `ServerSessionProofs` | theorems about `ServerSession`, and that it implements `PlayerLifecycle` but for fairness | |
| `ChunkStreamingProofs` | theorems about `ChunkStreaming`: first the lemmas on server and loader, then those on the clients | |
| `EntityReplicationProofs`, `TextureTransferProofs`, `ClientSessionProofs`, `WorldDefinitionsProofs`, `ChunkLightProofs` | theorems about the module each is named for | |

`PROJECT.json` maps every definition to the lines it stands for.

**ServerSession.** An action is one critical section of `serverNetworkMutex`, or
one stretch of code between two of them whose effects the other thread can see.
`Connect`, `Receive` and `Disconnect` are the three transport events, of the
ENet thread for ENet players and of the main thread for websocket players;
`Destroy(t)` is the `ServerPlayer_Destroy` a thread decided on under the lock
and does after it. The main thread goes through `StartProcessing`, then per
packet `TakePacket`, `CheckPacket` (the unlocked read of `disconnected`), a
handler, `FinishPacket`; then `VisitSlot` per seat and `UpdateEntities`. A player
is `unborn`, `live` or `freed`. Peers are slots ENet uses again.
`RequestStop .. WorldShutdown` is the end of `main`.

**ChunkStreaming.** The loader's steps are `LoaderTakes`, `LoaderCreates` (file
or generator, without the lock), `LoaderPublishes`. The main thread's update is
`TakeResults`, `Deliver` per result, `VisitChunk` per entry of the table (with the
entry that `hmdel` moves into the freed place), `RequestMissing` and
`SendMissing` per player. Between updates come joins, moves, block edits,
disconnections. A client has a FIFO stream of load, unload and set packets,
and changes its own copy before it sends an edit. `Crash` loses all but the
files, and may cut short the one being written (`TornFile`: a chunk is one block,
so what is missing is all of it, and reads as air). The orderly end is `StopServer`
(the loop has ended, the network thread is joined, what was received is dropped),
`RemovePlayer` for everybody still seated (step `"leaving"`), `StopLoader`, `LoaderJoined`,
`CloseChunk`, which saves, and `Closed`. Scripts may edit wherever the code calls
them (`ScriptMayRun`): while packets are served, in the `on_player_leave` callbacks of
`ServerWorld_RemovePlayer`, of the update and of the shutdown alike, and in the
`on_remove` callbacks of `ServerEntities_Shutdown`, after which the chunks are
saved. `ScriptSetBlocks` is the whole of `set_blocks`: each update, the
callback it may cause (which may call `set_block` and tells the clients at once),
the recheck, and the batch at the end. `undone` notes the chunks of which the batch
tells an older block than a callback had told before (section 6).

**EntityReplication.** The update's loops are `StepEntity` and `AnnounceEntity` with
a cursor; while a callback runs (`"calling"`, `"removing"`) scripts may spawn,
remove, move or change any entity. The elapsed time may be zero
(`ClockStands`), which skips entities for a round. Packets carry a slot number;
the model adds the generation the sender meant, which no client decision reads,
so that a property can tell an entity from the next one in its slot.

**TextureTransfer.** `ServeTexture` is a visit of `ServerTextures_Update` to one
player, `TimeOut` the branch after 15 s, `HandleAck` the acknowledgement with the
refusal (`offset` = 2^32 - 1). The client's handlers are `HandleBegin`,
`HandleData`, `HandleTerrain`, `HandleModel`, each with all it calls:
`TerrainApplied` and `Refreshed` are `ApplyTerrain` and
`EntityModel_RefreshTextures`. The bytes a client has put together are a set of
revisions, so that a torn texture shows as a set of two.

**ClientSession.** The main thread's `step` goes through a frame: `StartFrame` and
`TakePackets` are the two critical sections of `Network_ProcessIncomingPackets`,
`ExecuteGameplay` and `ExecuteTerrain` the part of `Network_ExecutePacket` under the
lock, `Handle...` the handler after it, so that a request may fall between the
two. `StartDisconnect .. FinishDisconnect` is `Network_PerformDisconnect`, in pieces
the network thread can come between; `JoinLocal` waits in `LocalServer_Stop`.
`NetStarts .. NetEnds` is `Client_Do` of one login. Screens that differ only in
drawing (game, pause, options) are one, and `world.loadChunks` is up exactly
there when the user acts. Every packet carries its session and number, which
no guard reads. `outbox` is the outgoing queue, which `NetFlushes` sends and
`NetClears` empties at the end of a thread; positions, edits and
acknowledgements stand for all that is sent, and a server heeds nobody before the
identification (`Heeded`). `defined` is the session whose definitions of blocks,
textures and models the client holds, `reset` the pending request to drop them.

**WorldGen.** `Load` is `ServerChunk_LoadFile` of a chunk without a file: `Terrain`,
`ApplyMaterialRules`, `GenerateOres`, `GenerateStructures` and `Worldgen_Features` one
over the other, then `Worldgen_SkyMask`, which generates the chunks above. The
painting operators take the cells as an argument, so that the property
`Seamless` can let them paint a whole world at once and compare: what it checks
is what the code does per chunk, that is how far it looks around (`Halo`, `Reach`,
`StructureCells`, the padding of features), what it skips, the order of rows,
the rules that stay within a chunk and the cache. The third axis, and with it
the turning of structures by quarters, is left out; a structure may be mirrored.

**WorldFields, WorldDefinitions.** `PushFieldNode` shares nodes; `Worldgen_Eval`
computes with the stamps of the code, `Pure` without remembering anything.
Every call of a script is an action (`CreateField`, `DefineBiome`, ...),
possible from load to stop and refused once frozen; `FreezeNewWorld`,
`FreezeKnownWorld` and `FreezeFails` are the outcomes of `Worldgen_Freeze`,
`CrashInSave` leaves the meta file cut short, `ModFails` is an error in a mod. The
fingerprint is taken to be injective; it has 32 bits in the code.

**ChunkLight.** Each walk (`Chunk_SpreadLight`, `Darkened`) works its queue off
within one call, so it is one closure over cells, written as a recursive function of
the number of its rounds. The guards of the walks, the `incomplete` marks,
`Chunk_ReconcileLighting` and the order of `World_ReadChunksQueues` are those of
the code. `World_SetBlock` has the two cases of the code: in a lit chunk the light
follows the edit, in one that is not lit only the block is written. The latter
matters to a chunk that has its blocks and waits to be lit again, after
`World_InvalidateBlockDefinitions`: light may already have come in from a lit neighbour,
as far as the old block let it, and nothing sends it on later. `overlooked` keeps
the cells so edited.

A mesh takes the light of its own cells and, for faces at the border of the chunk,
of the cells behind it (`Shown`, of `AddFace`). `dirty` is the flag of the code, which
speaks of a chunk's own light only; `old` says of which chunk's light a mesh shows
an older state that building it again is to make good. It is marked with what
the code sets out to show: a chunk's own light, that of a neighbour without a mesh
(which will queue those around it), after an edit the light of all chunks around,
and after new definitions everything. A turn that changes the light of a
neighbour that has its mesh marks that neighbour's mesh only, for only this one
is queued (section 6).

`held` and `missed` are histories too that no action reads: the chunks that
were lit at some time, and whether the code has given up exactness. It does so by
design where a chunk is lit by a sky mask that is not true, or was by one that
no longer is (`"mask"`: masks are made once and never again); where a block
changes in a chunk that was lit and is away or waits to be lit (`"unseen"`); and where a block
changes while chunks are away, below a chunk never held, or near an opaque lamp
(`"cut"`: a removal ends at what is missing, is not resumed later, and does not
spread the light of a mask or of an opaque lamp again).

## 3. The runs

All of them finish within five minutes on two workers. A property named
`...Invariant` is a conjunction of named formulas, a type invariant and the
relations section 5 speaks of among them; the right column names those that say
most of the program.

| run | properties | shows |
|---|---|---|
| `server_session` | `SessionInvariant`, `PendingIsExact`, `NoDanglingPlayer`, `GameplayHasSeat`, `PeersDistinctAtLoopTop`, `DisconnectedIsFreed`, `ImplementsLifecycle` | two ENet connections on one peer slot and a websocket one, two seats, full queues, refused joins, shutdown: packet counts are exact, no pointer to a freed player, seats and entities match (conjuncts of the invariant of the proofs), handlers run for seated players, no two players that may be sent to share a live peer. Whoever disconnects is freed, and the server implements `PlayerLifecycle`, its fairness included |
| `chunk_streaming` | `StreamingInvariant`, `ClientSeesWorld`, `ViewArrives`, `AbandonedChunksGo`, `ContentChangesOnlyByEdits`, `LoaderOwnsItsFile` | with moves, edits of players and scripts, batches, a crash or a restart: a chunk is at one place of the pipeline (`OutstandingOnce`), every request is on its way (`RequestIsOutstanding`), subscribers are seated (`SubscribersAreSeated`); the client's copy, once its stream is read, is the server's chunk; a player that stays gets its chunks and a chunk nobody is near leaves memory; the world changes by edits only, also those callbacks make while players leave or the server goes down, and each is saved |
| `entity_replication` | `EntitiesInvariant`, `ClientShowsTable`, `CalleeKeepsItsSlot` | the client's picture, once its stream is read, is the table; a player sees its own model (`OwnModelShown`); a callback's entity keeps its slot until the callback is over |
| `entity_replication_live` | `RemovedEntityGoes`, `ClientsConverge` | a removed entity gives its slot back; clients converge |
| `texture_transfer` | `TransferInvariant`, `DeliveredIsHeld`, `ModelsDrawLiveTextures`, `TerrainInvariant` | no torn texture (`TextureWhole`), one chunk under way (`OneChunkUnderWay`), nothing noted as delivered that was neither held nor refused, no stale handle, the terrain is an atlas (`TerrainIsAtlas`) and the wanted one whenever it can be (`TerrainAgrees`) |
| `texture_transfer_live` | `TexturesSettle` | every transfer ends |
| `texture_update` | `ModelsUpdateAutomatically` | a violation, see section 6 |
| `client_session` | `ClientInvariant`, `LoginIsQuiet`, `SessionsApart`, `DisconnectWritesNothing`, `DisconnectHappens` | two sessions, remote or local: packets of a queue in order (`QueuesInOrder`), exact count of texture bytes (`TextureBytesExact`), a connected client has somebody to send to (`SendsHaveAPeer`), nothing runs or is let in on the login screen; no packet, chunk or definition of a session reaches the next, and no server acts on what was meant for another, although the outgoing queue may hold it; and carrying out a disconnect writes no chunk. A disconnect that was asked for happens, the join of the local server included |
| `client_threads` | `OneNetworkThread` | a violation, see section 6 |
| `world_gen` | `Seamless`, `SkyMaskTruth`, `CacheInvariant` | six chunks on both sides of x = 0 loaded and unloaded in any order, under seven sets of definitions: each is its part of the world painted at once; its sky mask tells which columns see the sky; a cached list of origins is the list of that chunk (`CacheIsPure`) |
| `world_definitions` | `DefinitionsInvariant`, `EvalIsPure`, `OneWorld`, `OresKeepTheirBiome`, `DefinitionsKeep` | up to three calls of scripts over two starts: all chunks of a world come from one set of definitions and seed; what is used is defined (`BlocksDefined`); handles stay; an ore keeps its biome; a field evaluates to its meaning with any state of the cache |
| `chunk_light` | `LightInvariant`, `NotOverlit`, `MeshesSettle`, `QueueDrains` | four chunks with a cave, a torch that burns after new definitions, water, a slab: light goes wherever it can (`LitEnough`) but at an overlooked edit; where all chunks that ever were lit are, every light has a reason; a chunk without light or mesh is in the queue, and a queue worked off leaves no mesh that is marked `old` or `dirty`; and the queue works itself off |

Each property has a mutant of a modelled definition that breaks it, listed in
`PROJECT.json`: a forgotten purge, a count taken too late, a flag not cleared,
a packet not sent. The mutated forms stand beside the definitions they alter
and, but for `RequeuedNew`, are used by nothing else.

Deadlock is checked in every run but two, where the only terminal states are
those the code has (`Terminated`: the process ended). `chunk_light` and
`world_definitions` have no more to do when their bounds are used up: a client
whose chunks are all lit, a server whose mods are refused after its last start.

## 4. Bounds, symmetry, fairness

**Bounds.** Every bound is a constant and says so in its comment.
`ServerSession`: three connections suffice for two on one peer with a third on
the other thread, and for one more than the seats; five
packets fill the queue of three and a player's share of two. `ChunkStreaming`:
two chunks give the table an entry to move, two places with different
surroundings give unload, return and a result nobody wants any more; three
joins, moves or departures bring two players in and let one go or return; a batch of two
updates of which one is answered by a callback has every order of the three
writes; one crash or restart divides a history in two, and the world begins with
the first generator (`NewWorlds`) and may go on with the second.
`EntityReplication`: three generations in two slots use a slot again while another entity is there. `TextureTransfer`: two
textures make a redefinition and a terrain change race; files of two chunks
have a middle; two revisions can be torn. `ClientSession`: two sessions show what
one leaves to the next; of three packets in a queue two are taken in a frame and
one of them may be put back while the third waits; the byte limit is one texture
packet; equal packets in a row of the outgoing queue are one.
`WorldGen`: chunks of three cells with ore cells of four and structure cells of
five, so that all offsets of a border occur; heights cross three rows of
chunks; a cache of four lists is emptied within a chunk. The margin of the world
painted at once is larger than anything that begins outside it reaches.
`WorldDefinitions`: two calls make a field of a field, three a definition that
depends on what is registered before and after it; two starts compare two sets.
`ChunkLight`: a chunk is one cell larger than light reaches, as in the code (16
and 15), so light crosses at most one chunk; one edit, one chunk that leaves and
one replacement of the definitions, in any order with all the rest. The client
begins with a torch that is out, and the server may send one that burns: its light
crosses a border to a chunk that waits to be lit again, and one of the edits takes
away the stone it stops at there. 134,000 states.

`ClientSession` has an assumption on the user, `Ready`: a new session begins when
the old network thread has ended and no late request is pending, that is some
milliseconds after the login screen is back. `client_threads` drops it
(`Overlap`).

**Symmetry** permutes players in `entity_replication`, where no liveness is
checked and nothing orders them.

**Fairness.** Only for what the program does of its own accord, never for what a
player, script or operator may do. `ServerSession`: the main loop goes on, a
thread that decided to free a player does, and the network thread sees that it
is to stop. `ChunkStreaming`: the loader and the main loop go on, and ENet's
reliable channel delivers, so each client reads its stream. `ChunkLight` assumes
none: `QueueDrains` is a measure that each turn of the queue lowers, so that the
frames need only go on for the queue to end: first the number of meshes, then of
lit chunks, both bounded by the chunks there are, then the chunks to do.
`EntityReplication`: the update goes on, the clock ticks infinitely often
(strong fairness of `StartEntities`: the loop sleeps or draws a frame, so that
not all rounds can take less than a millisecond), and a disconnected player is
visited. `TextureTransfer`: the server's updates, its packet loop and the
client go on; a timeout is possible but never owed. `ClientSession`: the frames, the
local server's loop and each network thread go on. For the last this means that
the server pauses for 5 ms now and then, since the thread leaves its inner loop
only then.

## 5. Proofs

TLAPS checks the theorems below for every value of the constants that the
assumptions of the modules allow: any set of players, chunks, textures or
entities, all limits, however many steps. Each module of proofs has a lemma per
action (what the action does to the invariant), lemmas about the operators the
model is built from, and the theorems at its end. `SequenceFacts` holds what
all of them need about sequences.

| theorem | statement |
|---|---|
| **`ServerSessionProofs`** | |
| `TypeCorrect` | `Spec => []TypeOK` |
| `SessionInvariantHolds` | `Spec => []SessionInvariant` |
| `PendingCountExact` | `Spec => []PendingIsExact` |
| `NeverDangling` | `Spec => []NoDanglingPlayer` |
| `SeatsAndEntitiesAgree` | `Spec => [](SeatsAgree /\ NoOrphanEntity)` |
| `GameplayAlwaysSeated` | `Spec => []GameplayHasSeat` |
| `PeersAreDistinct` | `Spec => []PeersDistinctAtLoopTop` |
| `ServerKeepsLifecycle` | `Spec => Lifecycle!SafeSpec` |
| **`ChunkStreamingProofs`** | |
| `TypeCorrect` | `Spec => []TypeOK` |
| `StreamingInvariantHolds` | `Spec => []StreamingInvariant` |
| `ClientSeesWorldHolds` | `Spec => []ClientSeesWorld` |
| `LoaderOwnsItsFileHolds` | `Spec => LoaderOwnsItsFile` |
| `ContentChangesOnlyByEditsHolds` | `Spec => ContentChangesOnlyByEdits` |
| **`EntityReplicationProofs`** | |
| `EntitiesInvariantHolds` | `Spec => []EntitiesInvariant` |
| `ClientShowsTableHolds` | `Spec => []ClientShowsTable` |
| `CalleeKeepsItsSlotHolds` | `Spec => CalleeKeepsItsSlot` |
| **`TextureTransferProofs`** | |
| `TransferInvariantHolds` | `Spec => []TransferInvariant` |
| `DeliveredIsHeldHolds` | `Spec => []DeliveredIsHeld` |
| `ModelsDrawLiveTexturesHolds` | `Spec => []ModelsDrawLiveTextures` |
| `TerrainInvariantHolds` | `Spec => []TerrainInvariant` |
| **`ClientSessionProofs`** | |
| `QueuesAreExact` | `Spec => [](QueuesInOrder /\ TextureBytesExact)` |
| `ClientInvariantHolds` | `~Overlap`: `Spec => []ClientInvariant` |
| `LoginIsQuietHolds` | `~Overlap`: `Spec => []LoginIsQuiet` |
| `SessionsApartHolds` | `~Overlap`: `Spec => []SessionsApart` |
| `DisconnectWritesNothingHolds` | `~Overlap`: `Spec => DisconnectWritesNothing` |
| **`WorldDefinitionsProofs`** | |
| `DefinitionsInvariantHolds` | `Spec => []DefinitionsInvariant` |
| `OneWorldHolds` | `Spec => []OneWorld` |
| `OresKeepTheirBiomeHolds` | `Spec => []OresKeepTheirBiome` |
| `DefinitionsKeepHolds` | `Spec => DefinitionsKeep` |
| `EvalIsPureHolds` | `Spec => []EvalIsPure` |
| **`ChunkLightProofs`** | |
| `LightInvariantHolds` | `Spec => []LightInvariant` |
| `NotOverlitHolds` | `Spec => []NotOverlit` |
| `MeshesSettleHolds` | `Spec => MeshesSettle` |
| `QueueDrainsHolds` | `Spec => QueueDrains` |

### The invariants, and why they are what they are

**ServerSession.** `NoDanglingPlayer` alone is not inductive: to see that the main
thread may still use the player it serves one must know that its packet is counted
(`PendingIsExact`), that a disconnected player has no packet in the queue
(`DisconnectedHasNoQueue`), that whatever a thread is about to free has no name,
no seat and no packet (`FreeingIsOrphan`), that an unborn player is blank, that a
player has an entity exactly when it has a seat, and where the main thread is
(`MainPosition`). The distinct peers need that connected players have distinct
ones (`PeersOfConnected`) and which seats the running update has already cleared
(`PeersCleared`). `SessionInvariant` is their conjunction. Counting a player's
packets in a set uses the finiteness and cardinality lemmas of the library.

The refinement: a step of the server is a step of `PlayerLifecycle` under the mapping
of `Lifecycle` (a connection is absent, open, seated or closed by its memory and
its seat) or leaves what it maps to alone (`Unseen`, most of the time). `Connect`
opens, `Join` seats, `Disconnect` hangs up, `Destroy` and `VisitSlot` close,
`WorldShutdown` closes all that is left; that a connection closes only once is
`NoDanglingPlayer` again.

**ChunkStreaming.** `StreamingInvariant` is inductive. A chunk has one owner
(`OutstandingOnce`), and whoever waits for a chunk waits for one in that pipeline
(`RequestIsOutstanding`), only because requests leave the pipeline by way of the
table and both threads are where their step says (`ThreadsInStep`). That unloading
and loading again brings back the same block needs that every load on its way is
still what the disk holds (`LoadsAreFresh`), which holds because the file of a
chunk in the pipeline is not written, that is again `OutstandingOnce`. These
conjuncts (`ServerInvariant`) do not speak of what the clients show and are proved
first. `ClientsFollow` is the rest: folding a stream of packets over a view commutes
with appending to it, and shows the server's block, or, while an edit of the
client's own is on its way, the last of these edits. `ClientSeesWorld` follows where
no edit is. The two action properties follow from `ServerInvariant`.

**EntityReplication.** The picture of a client once its stream is read is, per slot,
the table's (`ClientShowsTable`), under the number `Local` the player's own
(`OwnModelShown`). A step preserves that because the table changes together with
the packets sent, except where `dirty` or `pendingRemoval` says what is still to
be told; callbacks are of entities that are there (`CalleeIsThere`), generations
are given out once (`GenerationsGivenOut`), and who is away shows nothing, so that a
join begins with an empty picture. `ReplicationInvariant` is all of it.

**TextureTransfer.** The inductive invariant `EachConnection` says of each player that
its connection is in order, as a predicate of values: the files, what is served
and sent, the packets and answers on their way, the client. At most one packet
of a transfer and its answer are under way, and both ends mean the same revision
by it (`OneChunkUnderWay`, `EndsAgree`, `AcksAreTrue`). The terrain is the hard
part: while its texture is replaced it must not be put together from a file of
another width, so the invariant has to say which packets may come after a
choice of the terrain (`Guarded`, `Past`; `TerrainIsOnItsWay`, `TerrainEndsTransfers` in
`TerrainInvariant`). A step of one player leaves the connections of the others alone;
each handler is a lemma about the values of one.

**ClientSession.** Two invariants. `QueuesInvariant` holds whether or not sessions
overlap: the packets of a queue, in hand and waiting, are one increasing row behind
the last that ran, and the bytes of textures are counted as they are. The second,
also called `SessionInvariant`, needs that a session begins after the thread of
the last one has ended, so its theorems assume `~Overlap` (what happens otherwise
is section 6). It says which screens, flags, steps and states of the threads
go together (`ThreadsInTurn`, `LocalInTurn`, `ConnectedToSomebody`, `ScreensInTurn`,
`DisconnectsInOrder`), and from that, whose packets, chunk, definitions and
outgoing messages there are. Neither `LoginIsQuiet` nor `SessionsApart` is inductive
without the positions of the other thread: what is purged stays empty because
nothing is let in once a disconnect was asked for.

**WorldDefinitions.** A world's chunks are made by what `worldgen.meta` records and a
running server has just that (`ChunksAreNoted`); with the types of the tables and
that ores know their biome this is inductive, and `OneWorld` follows, since what
was made from at most one set has at most one element. That what is used is
defined (`BlocksDefined`) is established by the checks of `Worldgen_Freeze` and
preserved because the definitions no longer change.

`EvalIsPure` is about recursive functions over the graph of fields: `Found` with
the cache, `Pure` without. A field is made of earlier ones, so each is the function
its equation says, and a set of positions that contains the next whenever it
contains all before is all of them: this replaces the induction over data. By it
the value of a field marked constant in a column depends on the column only,
and what is remembered under a stamp that still counts is what would be computed.

**ChunkLight.** Three layers. *Walks*: each is a row of rounds (`Reaching`,
`Iterates`), and ends because twice the highest level plus the row of the cells in
the queue falls in every round of a spread (`RoundFalls`), while each round of a
removal but the last darkens a cell (`DarkenedIs`). A round keeps that the light of
every cell outside the queue has gone on to the cells beside it, or that a mark on
the face of its chunk tells where it has not (`Spread`). *Calls*: from this
`Improves` says of each part of `Chunk_Generate` that it makes light brighter only and
leaves no mark between chunks that are there; a removal (`Removes`) leaves every
cell that is still lit with its light gone on, because what goes dark takes
all dimmer cells around it with it, and is spread into again from its rim.
*States*: `LightIsRight`, the types, `Lightened` (light gone on, sources at their
level, no mark between two chunks with their blocks) and the sky above the top
row, is inductive and gives `LightInvariant`. That an arriving chunk gets the light
of its neighbours is the part where the marks are needed: they are the only
memory of a spread that met a missing chunk, so each action has to keep that
there is a mark wherever light has stopped.

An edit of a chunk that is not lit breaks what `Lightened` says of the cells around it:
light that stopped at the old block has neither gone on nor left a mark. So `Spread`
and what is built on it keep pairs of cells with an overlooked one apart; and
`Remembered` says that such an edit counts as `"unseen"`, so that `NotOverlit`, which is
about histories in which nothing was missed, needs no exception of its own.

`MeshesSettle` rests on `Waiting` (what has no light or mesh is in the queue), on that a
last turn changes the light of no other chunk with a mesh, and on `OldSettles`: a
mesh that is marked is in the queue or dirty itself, or the chunk it is old
towards waits for its first mesh, which queues all beside it. `QueueDrains` compares
meshes, lit chunks and chunks to do in this order: a turn for a chunk without a
mesh makes one, a turn that lights something lights it for good, and a turn that
does neither changes no light (`NothingToLight`), so it queues nothing.

`NotOverlit` is not inductive, and cannot be made so by looking at the light
there is: a chunk that leaves takes away what made its neighbours bright, and
comes back. The invariant (`NotTooBright`) says that there *are* levels, none below the light
there is, of which each has a reason (`Reasoned`): a lamp, the sky straight
above, or a brighter cell beside it, in any chunk that ever was lit. Removing a
chunk keeps the same levels; lighting one adds to them, and what it adds comes
from beside, from a lamp, or from a mask that does not lie (`Fed`, `TrueMask`). When all
these chunks are lit at once, light has gone on along those reasons, cell after
cell from the brightest ones (`AllReached`), so the levels are the light, and each
light has its reason (`AllJustified`). That is also where an edit starts: what a
removal leaves is upheld from beside (`Upheld`), since a cell whose light came
from one that went dark went dark too (`Closed`), and after an edit the light itself
is levels with reasons again. An edit elsewhere must not touch a reason, which
is what `missed` is about.

### What they rest on

`SessionAssumption`, `StreamingAssumption`, `ReplicationAssumption`,
`TransferAssumption`, `ClientAssumption`, `DefinitionsAssumption`,
`FieldsAssumption`, and the `SizesAssumption`, `BlocksAssumption` and `SkyAssumption` of
`ChunkLight`. They say that limits are numbers, that null values are no
members of the sets they extend, and what the code fixes: the chunks a player may
ask for are within those the server accepts, and these within those it keeps
(the radii of `chunkmanager.c`); texture ids are numbers above the two of the
program's own, and the width of the atlas is one of the widths; the built-in block 3
is among the built-in blocks; light reaches less far than the side of a chunk (15
and 16), a block that renders transparent lets light through all its faces and is no
full cube (`Kinds`), and the top row of the world is air and stays so. TLC
evaluates them in every run, for its values. `DefinitionsAssumption` and the others
limit no behaviour beyond what the code does, `SkyAssumption` does: section 6
says what happens without it.

### What is only model-checked

* Liveness, and with it the fairness `ImplementsLifecycle` asks for beyond
  `ServerKeepsLifecycle`: `DisconnectedIsFreed`, `ViewArrives`, `AbandonedChunksGo`,
  `RemovedEntityGoes`, `ClientsConverge`, `TexturesSettle`, `DisconnectHappens`.
* `WorldGen`: `Seamless`, `SkyMaskTruth` and `CacheInvariant`. The chunks above a column
  are looked at by a recursive operator; what a chunk is made of are folds, in
  folds, over rules, ores, structures and features, whose meaning for every
  list of definitions is an induction over data; and whether a border shows is
  arithmetic of distances (`Reach`, `Halo`, padding) for given sets of definitions:
  a mod may define a feature that reaches farther than the padding it gives,
  and then the sentence is false. The run has one of each kind at every offset of a border.

## 6. Where the code and its documentation differ

* `texture_update`. docs/LUA_API.md:423: "Models using that texture update
  automatically." `ClientTextures_HandleBegin` refuses a new revision of another
  size for the texture its terrain still shows. The scripts may already have
  chosen another terrain, so that the server accepted the revision, while the
  texture of the new terrain is still to come. The refusal is noted as sent
  (server textures.c:89) and the revision is never offered again.
* `client_threads`. client `networking/networkhandler.c`:111: "networkThreadState =
  -1; //End network thread". The thread looks at that state only after 5 ms
  without an event, and nobody waits for it; the Login button sets the state
  back to 0. A login while the old server keeps sending leaves two threads, and
  packets of the old server enter the queues of the new session.

docs/LUA_API.md:675 says that existing chunks are never regenerated when the
generator changes. A chunk that was seen but not edited has no file and is
generated again; the sentence holds since `Worldgen_Freeze` refuses to start a
world with other definitions, which `OneWorld` checks.

What the models show besides, and nothing in the repository speaks of:

* A callback of `set_blocks` that sets a position the batch has set before is
  told first, and the batch then undoes it at the clients; line 177 of
  `luabindings.c` rechecks only the update whose callback it was.
  `ClientSeesWorld` leaves such chunks out (`undone`) until they are set again
  or the chunk is unloaded.
* A crash in the middle of writing `worldgen.meta` leaves a file that matches no
  definitions: the server refuses that world from then on.
* Mods may define a block after the definitions are frozen, but whether it is
  opaque was noted then; sky masks go by the older answer.
* A crash while a chunk file is written leaves the chunk partly empty for good: it
  has a file and is not generated again. `ContentChangesOnlyByEdits` lets that
  happen to a chunk with unsaved edits only.
* Once the network thread has ended, what the callbacks of a shutdown send reaches
  no client; `ClientSeesWorld` has none to speak of then.
* A connection made between the two critical sections of
  `Network_ProcessIncomingPackets` may lose the definitions that arrive before the
  second one: the next frame finds the request to reset them.
* Light: a lamp that is an opaque full cube keeps its own level when a block next
  to it changes, but the light around it is not spread again; a block set in the
  top layer of the world loses the light of the sky; a removal that meets a
  missing chunk is not resumed, as the `incomplete` marks resume a spread; light of a
  chunk that is held after an edit to one that is not stays as it was; and a sky
  mask is of the time its chunk was generated, so a roof that was built or taken
  down while the chunks above are not held is not seen. `LitEnough` promises
  nothing around an opaque lamp, `SkyAssumption` keeps the top row free, and
  `NotOverlit` is about histories in which nothing was missed and states in which all
  chunks that ever were lit are, without opaque lamps (`missed`, `Whole`).
* An edit that arrives for a chunk while it waits to be lit a second time is only
  written (client `world.c`:449-453). Light a neighbour had already sent in stopped at the
  old block, left no mark and is not taken up when the chunk is lit: around such a
  cell it may stay too dark until the cell is edited again, its chunk returns or all
  light is made anew. `LitEnough` leaves these pairs of cells out (`overlooked`).
  The edit queues no chunk either; its own one still waits for its turn, and a
  neighbour that hides a face at its border by the old block stays so.
* Meshes at borders: a face at the border of a chunk shows the light of the
  neighbour (`chunkmeshgeneration.c`:77-108), but a turn of the queue queues again only
  chunks whose own light it changed (client `world.c`:132-136). When lighting a third
  chunk, or lighting all again after new definitions, changes the light in a
  neighbour that has its mesh, the faces drawn with it keep the old light until
  something else queues their chunk; a chunk of stone has no light of its own and is
  never queued by it. `MeshesSettle` does not deny this: of a neighbour it promises the
  light that was there at its first mesh or later, with every edit around.
* Meshes: an edit high up may change the sunlight two chunks below, while only the
  chunks around the edited one are queued (client `world.c`:434-472). The chunk
  below is built again when a turn of the queue finds it dirty; if all
  the queued chunks are removed before their turn, its mesh shows the old light
  until something queues it. So `MeshesSettle` speaks of a queue that was *worked off*, not of one that
  became empty otherwise.

## 7. What is not modelled

* `ServerWorld_AddChunk`, `ServerWorld_RequestChunk`, `ServerWorld_SetBlockFast`
  and the lists `pendingBlocks` and `generatedBlockUpdates`: nothing calls the first
  three, so the lists stay empty.
* Failing allocations and a loader thread that could not be created.
* The outgoing queue of server.c and the connection list of mongoose.
* Geometry: distances are sets of chunks with the inclusions the code's radii
  give (`StreamingAssumption`).
* Chat, clicks, held blocks, animations, world time.
* A local server that fails to start, the web build of the client.
* The old generator `world/worldgenerator.c` and the removal of block
  definitions, which nothing calls; textures and bounds of blocks.
* Numbers of the generator: noise, the random function and floating point are
  arbitrary functions of a position, the same for every chunk. The third axis.
* That `set_block` does not ask whether an id is defined: scripts of the model use
  defined ones. Chat commands, player handles and the run-length codec: see the
  plan.
* Keys of chunks that repeat every 4096 chunks: `WorldGen` has the modulus (`KeySpan`), but
  its chunks are closer together. Lists of origins freed while they are walked.
* In `ChunkLight`, which faces of a mesh are visible, and with it edits that change
  only that.
* Interface, vertices of meshes, particles, physics: drawing and floating point.
* Vendored libraries under `libs/`; what the code needs of ENet (reliable
  ordered delivery, reuse of peers) is in the modules.

## 8. Plan

Done, in this order: `PlayerLifecycle`, `ServerSession` and its proofs,
`ChunkStreaming`, `EntityReplication`, `TextureTransfer`, `ClientSession`,
`ChunkLight`, `WorldGen`, `WorldFields` and `WorldDefinitions`, `set_blocks`.

The proofs followed the same order: types and counts of sessions, the pipeline
of chunks and what clients see of it, definitions, textures, entities, the client's
sessions, the step simulation from `ServerSession` to `PlayerLifecycle!SafeSpec`, the
evaluation of fields, and last the light. Every safety property of the passing
runs has a theorem now but the three of `WorldGen`.

What would come next: for `WorldGen`, the conditions on definitions under which
`Seamless` holds for all of them (reach of a feature within its padding, bounds
of structures), and with these a proof per painting operator; as models, the
run-length codec against a reference definition, handles of scripts to players over
leaving and reuse of seats, the order across the client's two queues.
