--------------------------- MODULE ChunkStreaming ---------------------------
(***************************************************************************)
(* The server's chunk manager, its loader thread, the chunk files, and the *)
(* copies of the world the clients keep.  Chunks are loaded by one thread  *)
(* and owned by another; a client sees them only through a reliable, FIFO  *)
(* stream of load, unload and block packets, and edits its own copy before *)
(* the server hears of the edit.                                           *)
(*                                                                         *)
(* A chunk is reduced to one block of it.  A player's position is reduced  *)
(* to a place, and the distance tests to three sets of chunks per place:   *)
(* those ServerPlayer_LoadChunks asks for, those PositionInLoadRadius      *)
(* accepts, and those ServerChunkManager_Update keeps.                     *)
(***************************************************************************)
EXTENDS Integers, Sequences, FiniteSets, SequencesExt

CONSTANTS
    Chunks,      \* chunk positions
    Players,     \* seats of the world
    Places,      \* where a player may stand
    Start,       \* where it stands when it joins
    Wanted,      \* per place, the chunks LoadChunks asks for
    Accepted,    \* per place, the chunks a load result is delivered for
    Kept,        \* per place, the chunks Update leaves subscribed
    Blocks,      \* block ids
    Generators,  \* world generators a mod may configure
    NewWorlds,   \* those a new world may begin with
    Generated,   \* per generator and chunk, the block it generates
    Air,         \* block 0
    Undefined,   \* a block id the server has no definition of
    NoBlock,     \* a chunk that is not there
    NoChunk,     \* no request pending, loader idle
    MaxEdits,    \* bound of the model: block edits
    MaxMoves,    \* bound of the model: moves, joins and departures
    MaxRestarts  \* bound of the model: crashes and clean restarts

ASSUME StreamingAssumption ==
    /\ Start \in Places
    /\ Wanted \in [Places -> SUBSET Chunks]
    /\ Accepted \in [Places -> SUBSET Chunks]
    /\ Kept \in [Places -> SUBSET Chunks]
    \* every offset in the request cube and in the radius is in both circles
    /\ \A at \in Places : Wanted[at] \subseteq Accepted[at] /\ Accepted[at] \subseteq Kept[at]
    /\ NewWorlds \subseteq Generators
    /\ Generated \in [Generators -> [Chunks -> Blocks]]
    /\ Air \in Blocks
    /\ Undefined \notin Blocks
    /\ NoBlock \notin Blocks \cup {Undefined}
    /\ NoChunk \notin Chunks

VARIABLES
    table,       \* serverWorld.chunks, in the order of the hash map's array
    block,       \* of each chunk in the table: its content
    modified,    \* Chunk.modified
    undone,      \* history: chunks of which a batch told an older block last
    subscribers, \* Chunk.players
    file,        \* world/x.y.z.dat
    generator,   \* the world generator that world/worldgen.meta records
    requests,    \* loadRequests
    busy,        \* loaderBusy and loaderPosition
    loading,     \* the chunk in the loader's hands, between create and publish
    results,     \* loadResults
    loader,      \* the loader thread: "runs", "told to stop", "gone"
    taken,       \* results ProcessLoadedChunks swapped out and has yet to serve
    step,        \* where the main thread is
    cursor,      \* the loop index of ServerChunkManager_Update
    unserved,    \* players ServerPlayerManager_Update has yet to visit
    place,       \* of each seated player: its place
    seated,      \* serverWorld.players[i] # NULL
    left,        \* Player.disconnected
    requested,   \* chunkRequestPending and pendingChunkPosition
    toServer,    \* block edits on their way to the server
    toClient,    \* terrain packets on their way to the client
    view,        \* of each client: world.chunks, with the block it shows
    edits, moves, restarts

serverVars == <<table, block, modified, undone, subscribers>>
loaderVars == <<requests, busy, loading, results, loader>>
mainVars   == <<taken, step, cursor, unserved>>
playerVars == <<place, seated, left, requested>>
wireVars   == <<toServer, toClient, view>>
counters   == <<edits, moves, restarts>>
vars == <<serverVars, file, generator, loaderVars, mainVars, playerVars,
          wireVars, counters>>

InTable == ToSet(table)

Subscribed(p, c) == c \in InTable /\ p \in subscribers[c]

\* What a load of a chunk brings: its file, or what is generated without one.
OnDisk(c) == IF file[c] # NoBlock THEN file[c] ELSE Generated[generator][c]

\* What the world holds for a chunk, in memory or else on disk or else unborn.
Content(c) == IF c \in InTable THEN block[c] ELSE OnDisk(c)

Load(c, b)  == [kind |-> "load", chunk |-> c, block |-> b]
Unload(c)   == [kind |-> "unload", chunk |-> c, block |-> NoBlock]
SetTo(c, b) == [kind |-> "set", chunk |-> c, block |-> b]

Batch(sets) == [kind |-> "batch", sets |-> sets]

\* Of the packets in a sequence, the block the last one about c sets.
LastTold(told, c) == told[Max({i \in DOMAIN told : told[i].chunk = c})].block

\* The packet handlers of the client: LoadChunk, UnloadChunk, SetBlock, and
\* BlockBatch, which sets one block after the other, all of them defined.
ShownOne(shown, m) ==
    IF m.kind = "set" /\ (shown[m.chunk] = NoBlock \/ m.block = Undefined) THEN shown
    ELSE [shown EXCEPT ![m.chunk] = m.block]
ShownBatch(shown, sets) ==
    [c \in Chunks |->
        IF shown[c] = NoBlock \/ (\A i \in DOMAIN sets : sets[i].chunk # c) THEN shown[c]
        ELSE LastTold(sets, c)]
Shown(shown, m) ==
    IF m.kind = "batch" THEN ShownBatch(shown, m.sets) ELSE ShownOne(shown, m)

\* ServerNetwork_Send to those of a set of players that are still there.
SentAll(ps, ms) ==
    [p \in Players |-> IF p \in ps /\ ~left[p] THEN toClient[p] \o ms ELSE toClient[p]]
SentTo(ps, m) == SentAll(ps, <<m>>)

Init ==
    /\ table = <<>>
    /\ block = [c \in Chunks |-> NoBlock]
    /\ modified = [c \in Chunks |-> FALSE]
    /\ undone = {}
    /\ subscribers = [c \in Chunks |-> {}]
    /\ file = [c \in Chunks |-> NoBlock]
    /\ generator \in NewWorlds
    /\ requests = <<>>
    /\ busy = NoChunk
    /\ loading = NoBlock
    /\ results = <<>>
    /\ loader = "runs"
    /\ taken = <<>>
    /\ step = "packets"
    /\ cursor = 1
    /\ unserved = {}
    /\ place = [p \in Players |-> Start]
    /\ seated = [p \in Players |-> FALSE]
    /\ left = [p \in Players |-> FALSE]
    /\ requested = [p \in Players |-> NoChunk]
    /\ toServer = [p \in Players |-> <<>>]
    /\ toClient = [p \in Players |-> <<>>]
    /\ view = [p \in Players |-> [c \in Chunks |-> NoBlock]]
    /\ edits = 0
    /\ moves = 0
    /\ restarts = 0

----------------------------------------------------------------------------
(* The loader thread (ChunkLoaderRun).                                     *)

LoaderTakes ==
    /\ loader = "runs"
    /\ busy = NoChunk
    /\ requests # <<>>
    /\ busy' = Head(requests)
    /\ requests' = Tail(requests)
    /\ UNCHANGED <<loading, results, loader, serverVars, file, generator, mainVars,
                   playerVars, wireVars, counters>>

\* ServerChunk_Create reads the file, ServerChunk_Generate runs without one.
LoaderCreates ==
    /\ busy # NoChunk
    /\ loading = NoBlock
    /\ loading' = OnDisk(busy)
    /\ UNCHANGED <<requests, busy, results, loader, serverVars, file, generator,
                   mainVars, playerVars, wireVars, counters>>

LoaderPublishes ==
    /\ busy # NoChunk
    /\ loading # NoBlock
    /\ results' = Append(results, [chunk |-> busy, block |-> loading])
    /\ busy' = NoChunk
    /\ loading' = NoBlock
    /\ UNCHANGED <<requests, loader, serverVars, file, generator, mainVars,
                   playerVars, wireVars, counters>>

LoaderExits ==
    /\ loader = "told to stop"
    /\ busy = NoChunk
    /\ loader' = "gone"
    /\ UNCHANGED <<requests, busy, loading, results, serverVars, file, generator,
                   mainVars, playerVars, wireVars, counters>>

----------------------------------------------------------------------------
(* Players and packets, served between two updates of the world.           *)

Seated == {p \in Players : seated[p]}

\* ServerWorld_AddPlayer for a new connection: its client knows no chunk.
Join(p) ==
    /\ step = "packets"
    /\ ~seated[p]
    /\ moves < MaxMoves
    /\ seated' = [seated EXCEPT ![p] = TRUE]
    /\ place' = [place EXCEPT ![p] = Start]
    /\ moves' = moves + 1
    /\ UNCHANGED <<left, requested, edits, restarts, serverVars, file, generator,
                   loaderVars, mainVars, wireVars>>

\* ServerNetwork_Disconnect, by whichever thread: the connection's packets go.
HangUp(p) ==
    /\ seated[p] /\ ~left[p]
    /\ moves < MaxMoves
    /\ step \notin {"joining", "down"}
    /\ left' = [left EXCEPT ![p] = TRUE]
    /\ toServer' = [toServer EXCEPT ![p] = <<>>]
    /\ toClient' = [toClient EXCEPT ![p] = <<>>]
    /\ view' = [view EXCEPT ![p] = [c \in Chunks |-> NoBlock]]
    /\ moves' = moves + 1
    /\ UNCHANGED <<place, seated, requested, edits, restarts, serverVars, file,
                   generator, loaderVars, mainVars>>

\* ServerPacket_HandlePlayerPosition, or a new draw distance.
Move(p, at) ==
    /\ step = "packets"
    /\ seated[p] /\ ~left[p]
    /\ at # place[p]
    /\ moves < MaxMoves
    /\ place' = [place EXCEPT ![p] = at]
    /\ moves' = moves + 1
    /\ UNCHANGED <<seated, left, requested, edits, restarts, serverVars, file,
                   generator, loaderVars, mainVars, wireVars>>

\* ServerWorld_SetBlock on a chunk in memory: every seated player is told.
Write(c, b) ==
    IF c \notin InTable \/ block[c] = b
    THEN UNCHANGED <<block, modified, undone, toClient>>
    ELSE /\ block' = [block EXCEPT ![c] = b]
         /\ modified' = [modified EXCEPT ![c] = TRUE]
         /\ undone' = undone \ {c}
         /\ toClient' = SentTo(Seated, SetTo(c, b))

\* ServerWorld_IsBlockDefined
IsBlockDefined(b) == b # Undefined

\* ServerPacket_HandleSetBlock.
HandleSetBlock(p) ==
    /\ step = "packets"
    /\ toServer[p] # <<>>
    /\ LET c == Head(toServer[p]).chunk
           b == Head(toServer[p]).block
       IN  \/ /\ ~IsBlockDefined(b)
              /\ toClient' = SentTo({p}, SetTo(c, IF c \in InTable THEN block[c] ELSE Air))
              /\ UNCHANGED <<block, modified, undone>>
           \/ /\ IsBlockDefined(b)
              /\ Write(c, b)
    /\ toServer' = [toServer EXCEPT ![p] = Tail(@)]
    /\ UNCHANGED <<table, subscribers, file, generator, loaderVars, mainVars,
                   playerVars, view, counters>>

\* A mod's callbacks run while packets are served, on_step and the entities'
\* included, and on_player_leave while the update removes a player; as the
\* server goes down, on_player_leave of all who are left and then on_remove of
\* the entities (ServerEntities_Shutdown).
ScriptMayRun ==
    \/ step = "packets"
    \/ step = "players" /\ \E p \in unserved : left[p]
    \/ step = "leaving"

\* midless.set_block, from a mod's callback.
ScriptSetBlock(c, b) ==
    /\ ScriptMayRun
    /\ edits < MaxEdits
    /\ edits' = edits + 1
    /\ Write(c, b)
    /\ UNCHANGED <<table, subscribers, file, generator, loaderVars, mainVars,
                   playerVars, toServer, view, moves, restarts>>

\* Blocks and flags as they change while set_blocks runs.
SetOne(w, c, b) ==
    IF c \notin InTable \/ w.block[c] = b THEN w
    ELSE [w EXCEPT !.block[c] = b, !.modified[c] = TRUE]

\* A callback of set_blocks sets a block, and tells everybody at once.
Answer(w, c, b) ==
    LET after == SetOne(w, c, b)
    IN  IF after = w THEN w ELSE [after EXCEPT !.told = Append(@, SetTo(c, b))]

\* A block goes into the batch if it is still the one that was set.
InBatch(after, u) == after.block[u.chunk] = u.block

\* One update of set_blocks, and what its callback does if it answers; only a
\* change counts.
Update(w, u, answers, a) ==
    LET set == SetOne(w, u.chunk, u.block)
        after == IF answers THEN Answer(set, a.chunk, a.block) ELSE set
    IN  IF set = w THEN w
        ELSE IF InBatch(after, u) THEN [after EXCEPT !.batch = Append(@, SetTo(u.chunk, u.block))]
        ELSE after

\* midless.set_blocks: one update after the other, each followed by its
\* callbacks, of which one, the i-th, answers with a set_block; then one batch
\* for everybody.
ScriptSetBlocks(first, second, i, answer) ==
    /\ ScriptMayRun
    /\ edits < MaxEdits
    /\ edits' = edits + 1
    /\ LET start == [block |-> block, modified |-> modified, told |-> <<>>, batch |-> <<>>]
           middle == Update(start, first, i = 1, answer)
           end == Update(middle, second, i = 2, answer)
           told == end.told \o end.batch
           changed == {told[j].chunk : j \in DOMAIN told}
       IN  /\ block' = end.block
           /\ modified' = end.modified
           /\ toClient' = SentAll(Seated, end.told \o
                              (IF end.batch = <<>> THEN <<>> ELSE <<Batch(end.batch)>>))
           /\ undone' = (undone \ changed) \cup
                            {c \in changed : LastTold(told, c) # end.block[c]}
    /\ UNCHANGED <<table, subscribers, file, generator, loaderVars, mainVars,
                   playerVars, toServer, view, moves, restarts>>

----------------------------------------------------------------------------
(* ServerChunkManager_Update: load results, then chunks nobody is near.    *)

TakeResults ==
    /\ step = "packets"
    /\ taken' = results
    /\ results' = <<>>
    /\ step' = "deliver"
    /\ UNCHANGED <<requests, busy, loading, loader, cursor, unserved, serverVars,
                   file, generator, playerVars, wireVars, counters>>

\* Mutant: only a player still in range has its request answered.
AnsweredInRange(p, c) == requested[p] = c /\ c \in Accepted[place[p]]
\* Whose chunkRequestPending a result clears.
Answered(p, c) == requested[p] = c

\* One result of ProcessLoadedChunks.
Deliver ==
    /\ step = "deliver"
    /\ taken # <<>>
    /\ LET c == Head(taken).chunk
           new == {p \in Seated : c \in Accepted[place[p]] /\ ~Subscribed(p, c)}
       IN  /\ IF c \in InTable
              THEN /\ UNCHANGED <<table, block, modified>>
                   /\ subscribers' = [subscribers EXCEPT ![c] = @ \cup new]
              ELSE /\ table' = Append(table, c)
                   /\ block' = [block EXCEPT ![c] = Head(taken).block]
                   /\ modified' = [modified EXCEPT ![c] = FALSE]
                   /\ subscribers' = [subscribers EXCEPT ![c] = new]
           /\ requested' = [p \in Players |->
                  IF p \in Seated /\ Answered(p, c) THEN NoChunk ELSE requested[p]]
           /\ toClient' = SentTo(new, Load(c, Head(taken).block))
    /\ taken' = Tail(taken)
    /\ UNCHANGED <<undone, file, generator, loaderVars, step, cursor, unserved, place,
                   seated, left, toServer, view, counters>>

Delivered ==
    /\ step = "deliver"
    /\ taken = <<>>
    /\ step' = "unload"
    /\ cursor' = 1
    /\ UNCHANGED <<taken, unserved, serverVars, file, generator, loaderVars,
                   playerVars, wireVars, counters>>

\* Mutant: the edits of a chunk are dropped when nobody is near it any more.
SavedNever(c) == file
\* ServerWorld_RemoveChunk writes the chunk only if a block of it was set.
Saved(c) == IF modified[c] THEN [file EXCEPT ![c] = block[c]] ELSE file

\* hmdel: the last entry takes the place of the deleted one.
Deleted(i) ==
    IF i = Len(table) THEN Front(table) ELSE [Front(table) EXCEPT ![i] = Last(table)]

\* Mutant: only chunks that need saving leave the table.
AbandonedIfModified(c, staying) == staying = {} /\ modified[c]
Abandoned(c, staying) == staying = {}

\* Mutant: the chunk is taken from the player but stays on its client.
UnloadUnsaid(ps, c) == toClient
UnloadSaid(ps, c) == SentTo(ps, Unload(c))

\* One turn of the unload loop; the entry hmdel moved is passed over.
VisitChunk ==
    /\ step = "unload"
    /\ cursor <= Len(table)
    /\ LET c       == table[cursor]
           staying == {p \in subscribers[c] : c \in Kept[place[p]]}
       IN  /\ toClient' = UnloadSaid(subscribers[c] \ staying, c)
           /\ subscribers' = [subscribers EXCEPT ![c] = staying]
           /\ IF Abandoned(c, staying)
              THEN /\ table' = Deleted(cursor)
                   /\ file' = Saved(c)
                   /\ block' = [block EXCEPT ![c] = NoBlock]
                   /\ modified' = [modified EXCEPT ![c] = FALSE]
                   /\ undone' = undone \ {c}
              ELSE UNCHANGED <<table, file, block, modified, undone>>
    /\ cursor' = cursor + 1
    /\ UNCHANGED <<generator, loaderVars, taken, step, unserved, playerVars,
                   toServer, view, counters>>

Unloaded ==
    /\ step = "unload"
    /\ cursor > Len(table)
    /\ step' = "players"
    /\ unserved' = Seated
    /\ UNCHANGED <<taken, cursor, serverVars, file, generator, loaderVars,
                   playerVars, wireVars, counters>>

----------------------------------------------------------------------------
(* ServerPlayerManager_Update: who left is removed, others load chunks.    *)

ServedTo(p) == unserved' = unserved \ {p}

\* ServerWorld_RemovePlayerFromChunks
Unsubscribed(p) == [c \in Chunks |-> subscribers[c] \ {p}]

\* ServerWorld_RemovePlayer, of the update and of ServerPlayerManager_Shutdown,
\* once the callbacks of on_player_leave have returned.
RemovePlayer(p) ==
    /\ \/ step = "players" /\ p \in unserved
       \/ step = "leaving"
    /\ left[p]
    /\ subscribers' = Unsubscribed(p)
    /\ seated' = [seated EXCEPT ![p] = FALSE]
    /\ left' = [left EXCEPT ![p] = FALSE]
    /\ requested' = [requested EXCEPT ![p] = NoChunk]
    /\ ServedTo(p)
    /\ UNCHANGED <<table, block, modified, undone, file, generator, loaderVars, taken, step,
                   cursor, place, wireVars, counters>>

\* The chunks ServerPlayer_LoadChunks finds missing around a player.
Missing(p) == {c \in Wanted[place[p]] : ~Subscribed(p, c)}

Waiting(p) ==
    /\ step = "players" /\ p \in unserved
    /\ ~left[p]
    /\ requested[p] # NoChunk \/ Missing(p) = {}
    /\ ServedTo(p)
    /\ UNCHANGED <<taken, step, cursor, serverVars, file, generator, loaderVars,
                   playerVars, wireVars, counters>>

\* Mutant: a chunk in memory is asked for like any other.
MissingAnyhow(p) == Missing(p)
\* Those it asks for: ServerWorld_QueueChunk does so only for chunks not in memory.
ToRequest(p) == Missing(p) \ InTable

\* Mutant: the chunk the loader is working on is asked for again.
OutstandingUnlessBusy(c) ==
    \/ c \in ToSet(requests)
    \/ \E i \in DOMAIN results : results[i].chunk = c
\* What ServerWorld_QueueChunk finds asked for already.
Outstanding(c) ==
    \/ c = busy
    \/ c \in ToSet(requests)
    \/ \E i \in DOMAIN results : results[i].chunk = c

RequestMissing(p, c) ==
    /\ step = "players" /\ p \in unserved
    /\ ~left[p]
    /\ requested[p] = NoChunk
    /\ c \in ToRequest(p)
    /\ requests' = IF Outstanding(c) THEN requests ELSE Append(requests, c)
    /\ requested' = [requested EXCEPT ![p] = c]
    /\ ServedTo(p)
    /\ UNCHANGED <<busy, loading, results, loader, taken, step, cursor, serverVars,
                   file, generator, place, seated, left, wireVars, counters>>

\* A missing chunk that is in memory is sent at once; another may follow
\* before the deadline of this update.
SendMissing(p, c, more) ==
    /\ step = "players" /\ p \in unserved
    /\ ~left[p]
    /\ requested[p] = NoChunk
    /\ c \in Missing(p) \cap InTable
    /\ subscribers' = [subscribers EXCEPT ![c] = @ \cup {p}]
    /\ toClient' = SentTo({p}, Load(c, block[c]))
    /\ IF more THEN UNCHANGED unserved ELSE ServedTo(p)
    /\ UNCHANGED <<table, block, modified, undone, file, generator, loaderVars, taken, step,
                   cursor, playerVars, toServer, view, counters>>

Updated ==
    /\ step = "players"
    /\ unserved = {}
    /\ step' = "packets"
    /\ UNCHANGED <<taken, cursor, unserved, serverVars, file, generator, loaderVars,
                   playerVars, wireVars, counters>>

----------------------------------------------------------------------------
(* The clients.                                                            *)

\* The packet handlers LoadChunk, UnloadChunk and SetBlock.
ClientReceive(p) ==
    /\ toClient[p] # <<>>
    /\ view' = [view EXCEPT ![p] = Shown(@, Head(toClient[p]))]
    /\ toClient' = [toClient EXCEPT ![p] = Tail(@)]
    /\ UNCHANGED <<toServer, serverVars, file, generator, loaderVars, mainVars,
                   playerVars, counters>>

\* Breaking or placing a block: set at home, then said to the server.
ClientEdit(p, c, b) ==
    /\ seated[p] /\ ~left[p]
    /\ edits < MaxEdits
    /\ edits' = edits + 1
    /\ view' = IF view[p][c] = NoBlock THEN view ELSE [view EXCEPT ![p][c] = b]
    /\ toServer' = [toServer EXCEPT ![p] = Append(@, SetTo(c, b))]
    /\ UNCHANGED <<toClient, moves, restarts, serverVars, file, generator,
                   loaderVars, mainVars, playerVars>>

----------------------------------------------------------------------------
(* The end of the server: in good order, or not.                           *)

ConnectionsGone ==
    /\ toServer' = [p \in Players |-> <<>>]
    /\ toClient' = [p \in Players |-> <<>>]
    /\ view' = [p \in Players |-> [c \in Chunks |-> NoBlock]]

PlayersGone ==
    /\ seated' = [p \in Players |-> FALSE]
    /\ left' = [p \in Players |-> FALSE]
    /\ requested' = [p \in Players |-> NoChunk]
    /\ subscribers' = [c \in Chunks |-> {}]
    /\ undone' = {}
    /\ ConnectionsGone

\* The main loop has ended, the network thread is joined, and what was received
\* is dropped; the players are still seated, and their callbacks still to run.
StopServer ==
    /\ step = "packets"
    /\ restarts < MaxRestarts
    /\ restarts' = restarts + 1
    /\ step' = "leaving"
    /\ left' = seated
    /\ ConnectionsGone
    /\ UNCHANGED <<serverVars, file, generator, loaderVars, taken, cursor, unserved,
                   place, seated, requested, edits, moves>>

\* ServerPlayerManager_Shutdown has removed everybody, ServerEntities_Shutdown
\* what they left; the loader is told.
StopLoader ==
    /\ step = "leaving"
    /\ Seated = {}
    /\ step' = "joining"
    /\ loader' = "told to stop"
    /\ UNCHANGED <<requests, busy, loading, results, taken, cursor, unserved, serverVars,
                   file, generator, playerVars, wireVars, counters>>

\* pthread_join returns; what was asked for or loaded is thrown away.
LoaderJoined ==
    /\ step = "joining"
    /\ loader = "gone"
    /\ step' = "closing"
    /\ requests' = <<>>
    /\ results' = <<>>
    /\ UNCHANGED <<busy, loading, loader, taken, cursor, unserved, serverVars, file,
                   generator, playerVars, wireVars, counters>>

\* ServerWorld_RemoveChunk of each chunk, from the last.
CloseChunk ==
    /\ step = "closing"
    /\ table # <<>>
    /\ LET c == Last(table)
       IN  /\ table' = Front(table)
           /\ file' = Saved(c)
           /\ block' = [block EXCEPT ![c] = NoBlock]
           /\ modified' = [modified EXCEPT ![c] = FALSE]
           /\ undone' = undone \ {c}
    /\ UNCHANGED <<subscribers, generator, loaderVars, mainVars, playerVars,
                   wireVars, counters>>

Closed ==
    /\ step = "closing"
    /\ table = <<>>
    /\ step' = "down"
    /\ UNCHANGED <<taken, cursor, unserved, serverVars, file, generator, loaderVars,
                   playerVars, wireVars, counters>>

\* Chunks whose file the main thread is writing.
BeingWritten ==
    {c \in InTable : /\ modified[c]
                     /\ \/ /\ step = "unload" /\ cursor <= Len(table)
                           /\ c = table[cursor]
                           /\ {p \in subscribers[c] : c \in Kept[place[p]]} = {}
                        \/ step = "closing" /\ c = Last(table)}

\* SaveFileData writes in place: what is missing from a file reads as air.
TornFile(c) == [file EXCEPT ![c] = Air]

\* The process dies; the files stay as they are, but for one that is not yet
\* written to its end.
Crash ==
    /\ step # "down"
    /\ restarts < MaxRestarts
    /\ restarts' = restarts + 1
    /\ step' = "down"
    /\ PlayersGone
    /\ table' = <<>>
    /\ block' = [c \in Chunks |-> NoBlock]
    /\ modified' = [c \in Chunks |-> FALSE]
    /\ requests' = <<>>
    /\ busy' = NoChunk
    /\ loading' = NoBlock
    /\ results' = <<>>
    /\ taken' = <<>>
    /\ unserved' = {}
    /\ loader' = "gone"
    /\ file' \in {file} \cup {TornFile(c) : c \in BeingWritten}
    /\ UNCHANGED <<generator, cursor, place, edits, moves>>

\* The mods configure generator g; world/worldgen.meta has the definitions of the
\* world's first start, and a server whose definitions differ does not start.
Worldgen_Freeze(g) == g = generator

\* ServerWorld_Init and Lua_Run.
Restart(g) ==
    /\ step = "down"
    /\ Worldgen_Freeze(g)
    /\ generator' = g
    /\ step' = "packets"
    /\ loader' = "runs"
    /\ UNCHANGED <<requests, busy, loading, results, taken, cursor, unserved,
                   serverVars, file, playerVars, wireVars, counters>>

----------------------------------------------------------------------------
Edits == [chunk : Chunks, block : Blocks]

LoaderStep == LoaderTakes \/ LoaderCreates \/ LoaderPublishes \/ LoaderExits

PacketStep ==
    \/ \E p \in Players : Join(p) \/ HandleSetBlock(p)
    \/ \E p \in Players, at \in Places : Move(p, at)
    \/ \E c \in Chunks, b \in Blocks : ScriptSetBlock(c, b)
    \/ \E first, second, a \in Edits, i \in 1 .. 2 : ScriptSetBlocks(first, second, i, a)

UpdateStep ==
    \/ TakeResults \/ Deliver \/ Delivered \/ VisitChunk \/ Unloaded
    \/ \E p \in Players :
          \/ RemovePlayer(p) \/ Waiting(p)
          \/ \E c \in Chunks : RequestMissing(p, c)
          \/ \E c \in Chunks, more \in BOOLEAN : SendMissing(p, c, more)
    \/ Updated

ClientStep ==
    \/ \E p \in Players : ClientReceive(p) \/ HangUp(p)
    \/ \E p \in Players, c \in Chunks, b \in Blocks \cup {Undefined} : ClientEdit(p, c, b)

ClosingStep == StopLoader \/ LoaderJoined \/ CloseChunk \/ Closed

Restarts == Crash \/ \E g \in Generators : Restart(g)

Next ==
    \/ LoaderStep \/ PacketStep \/ UpdateStep \/ ClientStep
    \/ StopServer \/ ClosingStep \/ Restarts

\* The main loop and the loader thread keep running, and TCP or ENet delivers.
Fairness ==
    /\ WF_vars(LoaderStep)
    /\ WF_vars(UpdateStep \/ ClosingStep)
    /\ \A p \in Players : WF_vars(ClientReceive(p))

Spec == Init /\ [][Next]_vars /\ Fairness

----------------------------------------------------------------------------
(* Properties.                                                             *)

Sets == [kind : {"set"}, chunk : Chunks, block : Blocks]
ClientEdits == [kind : {"set"}, chunk : Chunks, block : Blocks \cup {Undefined}]
Packets ==
    [kind : {"load", "set"}, chunk : Chunks, block : Blocks]
        \cup [kind : {"unload"}, chunk : Chunks, block : {NoBlock}]
        \cup [kind : {"batch"}, sets : Seq(Sets)]
LoadResults == [chunk : Chunks, block : Blocks]

\* The type of every variable.
TypeOK ==
    /\ table \in Seq(Chunks)
    /\ block \in [Chunks -> Blocks \cup {NoBlock}]
    /\ modified \in [Chunks -> BOOLEAN]
    /\ undone \subseteq Chunks
    /\ subscribers \in [Chunks -> SUBSET Players]
    /\ file \in [Chunks -> Blocks \cup {NoBlock}]
    /\ generator \in Generators
    /\ requests \in Seq(Chunks)
    /\ busy \in Chunks \cup {NoChunk}
    /\ loading \in Blocks \cup {NoBlock}
    /\ results \in Seq(LoadResults)
    /\ taken \in Seq(LoadResults)
    /\ loader \in {"runs", "told to stop", "gone"}
    /\ step \in {"packets", "deliver", "unload", "players", "leaving",
                "joining", "closing", "down"}
    /\ cursor \in Nat \ {0}
    /\ unserved \subseteq Players
    /\ place \in [Players -> Places]
    /\ seated \in [Players -> BOOLEAN]
    /\ left \in [Players -> BOOLEAN]
    /\ requested \in [Players -> Chunks \cup {NoChunk}]
    /\ toServer \in [Players -> Seq(ClientEdits)]
    /\ toClient \in [Players -> Seq(Packets)]
    /\ view \in [Players -> [Chunks -> Blocks \cup {Undefined, NoBlock}]]
    /\ edits \in Nat /\ moves \in Nat /\ restarts \in Nat

\* Where a load of a chunk can be: asked for, in hand, published, or taken.
ChunksOf(rs) == [i \in DOMAIN rs |-> rs[i].chunk]
InHand(c) == IF c = NoChunk THEN <<>> ELSE <<c>>
Pipeline == requests \o InHand(busy) \o ChunksOf(results) \o ChunksOf(taken)

\* Between the two threads a chunk has one owner: it is nowhere twice, in the
\* pipeline or in the table, so no result is ever the discarded duplicate of
\* ProcessLoadedChunks, whose stale data would go to the clients.
OutstandingOnce == IsInjective(Pipeline \o table)

\* A player that waits for a chunk waits for one that is on its way; otherwise
\* chunkRequestPending would keep it from ever asking for another.
RequestIsOutstanding ==
    \A p \in Players : requested[p] # NoChunk => requested[p] \in ToSet(Pipeline)

\* Nobody is subscribed to a chunk out of memory, and only seated players are
\* subscribed: the sends of the chunk manager reach no freed Player.
SubscribersAreSeated ==
    \A c \in Chunks : subscribers[c] \subseteq (IF c \in InTable THEN Seated ELSE {})

\* While the server goes down nobody is seated and the loader is on its way out.
Ending == {"joining", "closing", "down"}

\* Who is marked, asks or is served has a seat; who is away has no packets on
\* their way and a client without chunks.
PlayersInPlace ==
    /\ \A p \in Players : left[p] \/ requested[p] # NoChunk => seated[p]
    /\ unserved \subseteq (IF step = "players" THEN Seated ELSE {})
    /\ step \in Ending => Seated = {}
    /\ \A p \in Players : ~seated[p] \/ left[p] =>
          /\ toServer[p] = <<>> /\ toClient[p] = <<>>
          /\ view[p] = [c \in Chunks |-> NoBlock]

\* What the two threads may hold at each step of the main thread.
ThreadsInStep ==
    /\ taken # <<>> => step = "deliver"
    /\ loader = "runs" <=> step \notin Ending
    /\ loader = "gone" => busy = NoChunk
    /\ step \in {"closing", "down"} => loader = "gone" /\ requests = <<>> /\ results = <<>>
    /\ step = "down" => table = <<>>
    /\ busy = NoChunk => loading = NoBlock

\* A chunk without unsaved edits is what a load of it would bring, and every
\* load on its way still brings what the disk holds.
LoadsAreFresh ==
    /\ \A c \in InTable : block[c] \in Blocks /\ (modified[c] \/ block[c] = OnDisk(c))
    /\ loading # NoBlock => loading = OnDisk(busy)
    /\ \A r \in ToSet(results) \cup ToSet(taken) : r.block = OnDisk(r.chunk)

\* The packets that give a client a chunk or take it away, and those that set
\* its block.
Renews(m, c) == m.kind \in {"load", "unload"} /\ m.chunk = c
Tells(m, c) ==
    \/ m.kind = "set" /\ m.chunk = c /\ m.block # Undefined
    \/ m.kind = "batch" /\ \E i \in DOMAIN m.sets : m.sets[i].chunk = c
Said(m, c) == IF m.kind = "batch" THEN LastTold(m.sets, c) ELSE m.block

\* What a client that shows b of a chunk shows once packets ms have arrived:
\* the last load or unload counts, and the last set after it, if the chunk is
\* there.
After(b, ms, c) ==
    LET renewed == {i \in DOMAIN ms : Renews(ms[i], c)}
        told    == {i \in DOMAIN ms : Tells(ms[i], c) /\ \A j \in renewed : j < i}
        start   == IF renewed = {} THEN b ELSE ms[Max(renewed)].block
    IN  IF start = NoBlock \/ told = {} THEN start ELSE Said(ms[Max(told)], c)

\* What a client will show once the packets on their way have arrived.
WillShow(p) == [c \in Chunks |-> After(view[p][c], toClient[p], c)]

\* Nothing on its way to the client says what a chunk is.
Unsaid(p, c) == \A i \in DOMAIN toClient[p] :
                    ~ Renews(toClient[p][i], c) /\ ~ Tells(toClient[p][i], c)

\* A client is about to show exactly the chunks it is subscribed to.  Of such
\* a chunk it is about to show the server's block, or else the last edit of its
\* own that the server has yet to hear of.
ClientsFollow ==
    \A p \in Players : seated[p] /\ ~left[p] => \A c \in Chunks :
        /\ WillShow(p)[c] = NoBlock <=> ~Subscribed(p, c)
        /\ Subscribed(p, c) /\ c \notin undone /\ WillShow(p)[c] # block[c] =>
              LET mine == {i \in DOMAIN toServer[p] : toServer[p][i].chunk = c}
              IN  /\ Unsaid(p, c)
                  /\ mine # {} /\ WillShow(p)[c] = LastTold(toServer[p], c)

\* All of them, in every state of both threads.
StreamingInvariant ==
    /\ TypeOK
    /\ OutstandingOnce
    /\ RequestIsOutstanding
    /\ SubscribersAreSeated
    /\ PlayersInPlace
    /\ ThreadsInStep
    /\ LoadsAreFresh
    /\ ClientsFollow

\* A client whose edits have all reached the server is about to show exactly
\* the chunks it is subscribed to, each with the block the server holds,
\* whatever it changed at home meanwhile and whatever the callbacks of a
\* set_blocks did; except where such a callback set what the batch had set
\* before, and the batch, which is sent last, brings the older block back.
ClientSeesWorld ==
    \A p \in Players : seated[p] /\ ~left[p] /\ toServer[p] = <<>> =>
        \A c \in Chunks \ undone :
            WillShow(p)[c] = IF Subscribed(p, c) THEN block[c] ELSE NoBlock

\* A script sets blocks, or the server takes up an edit of c from a client that
\* makes it b.
EditsTo(c, b) ==
    \/ edits' > edits /\ ScriptMayRun
    \/ \E p \in Players : /\ toServer[p] # <<>> /\ toServer'[p] = Tail(toServer[p])
                          /\ Head(toServer[p]).chunk = c /\ Head(toServer[p]).block = b

\* A chunk's content changes only by an edit of a chunk in memory, by a script
\* or by a client, and an edit marks the chunk to be saved.  Unloading,
\* reloading, an orderly shutdown and a start with other mods change nothing
\* else, though most chunks have no file and though callbacks may still edit
\* while the last players and entities go.  A crash changes only chunks with edits not
\* yet saved; one whose file is being written may lose all it held.
ContentChangesOnlyByEdits ==
    [][\A c \in Chunks : Content(c)' # Content(c) =>
          \/ c \in InTable /\ modified'[c] /\ EditsTo(c, Content(c)')
          \/ modified[c] /\ restarts' > restarts /\ step' = "down"]_vars

\* The main thread never writes the file the loader thread may be reading.
LoaderOwnsItsFile ==
    [][\A c \in Chunks : file'[c] # file[c] => busy # c]_vars

\* A player that keeps a chunk in its request cube gets to see it.
ViewArrives ==
    \A p \in Players, c \in Chunks :
        (seated[p] /\ c \in Wanted[place[p]])
            ~> (view[p][c] # NoBlock \/ ~seated[p] \/ left[p] \/ c \notin Wanted[place[p]])

\* A chunk nobody is subscribed to leaves memory or finds a new subscriber.
AbandonedChunksGo ==
    \A c \in Chunks : (c \in InTable /\ subscribers[c] = {})
                         ~> (c \notin InTable \/ subscribers[c] # {})
=============================================================================
