-------------------------- MODULE EntityReplication --------------------------
(***************************************************************************)
(* The server's entity table and the copies of it the clients keep.        *)
(* Entities take slots of a fixed table, are announced, moved and removed  *)
(* by the update loop and not when a script or a player asks, and a slot   *)
(* is used again; the clients know a slot only by its number and see all   *)
(* of it through one reliable FIFO stream.  Scripts run inside the loop.   *)
(*                                                                         *)
(* A client's player never sees its own entity: the packets that concern   *)
(* it carry the number USHRT_MAX, here Local.                              *)
(***************************************************************************)
EXTENDS Integers, Sequences

CONSTANTS
    Players,        \* seats of the world, the indices of serverWorld.players
    MaxEntities,    \* WORLD_MAX_ENTITIES
    Models,         \* entity models; 0 is the players' default
    Spots,          \* positions
    Start,          \* where a player's entity is created
    Local,          \* USHRT_MAX
    Nobody,         \* ownerPlayerId -1
    MaxGeneration,  \* bound of the model: entities ever created
    MaxActs         \* bound of the model: moves, model changes, departures

ASSUME ReplicationAssumption ==
    /\ MaxEntities \in Nat /\ MaxGeneration \in Nat /\ MaxActs \in Nat
    /\ 0 \in Models
    /\ Start \in Spots
    /\ Nobody \notin Players
    /\ Local \notin 0 .. MaxEntities - 1

EntityIds == 0 .. MaxEntities - 1
\* The numbers a client knows entities under.
ShownIds == EntityIds \cup {Local}

VARIABLES
    entities,        \* serverWorld.entities
    nextGeneration,  \* the static counter of entitymanager.c
    seated,          \* serverWorld.players[p] # NULL
    left,            \* Player.disconnected
    entityId,        \* Player.entityId
    step,            \* where the main thread is in its loop
    cursor,          \* the loop index of ServerEntities_Update
    cutoff,          \* nextGeneration when ServerEntities_Update began
    toClient,        \* entity packets on their way
    view,            \* per client: world.entities, and its own model
    acts

serverVars == <<entities, nextGeneration>>
playerVars == <<seated, left, entityId>>
loopVars   == <<step, cursor, cutoff>>
wireVars   == <<toClient, view>>
vars == <<serverVars, playerVars, loopVars, wireVars, acts>>

\* The fields the replication depends on.
Blank == [active |-> FALSE, pendingRemoval |-> FALSE, generation |-> 0, owner |-> Nobody,
          model |-> 0, at |-> Start, announced |-> FALSE, dirty |-> FALSE]

\* type 0: the client has nothing under that number.
Absent == [generation |-> 0, model |-> 0, at |-> Start]

----------------------------------------------------------------------------
(* Packets, and what the client makes of them.                             *)

\* The generation is not in the packet: it marks which entity was meant.
Spawn(e, id)    == [kind |-> "spawn", id |-> id,
                    entity |-> [generation |-> e.generation, model |-> e.model, at |-> e.at]]
Teleport(e, id) == [kind |-> "teleport", id |-> id, entity |-> [Absent EXCEPT !.at = e.at]]
SetModel(m, id) == [kind |-> "model", id |-> id, entity |-> [Absent EXCEPT !.model = m]]
Despawn(id)     == [kind |-> "despawn", id |-> id, entity |-> Absent]

\* World_AddEntity, World_TeleportEntity, EntityModel_SetEntityModel and
\* World_RemoveEntity; all but the first ignore a number they do not know.
Shown(shown, m) ==
    IF m.kind = "spawn" THEN [shown EXCEPT ![m.id] = m.entity]
    ELSE IF shown[m.id] = Absent THEN shown
    ELSE IF m.kind = "teleport" THEN [shown EXCEPT ![m.id].at = m.entity.at]
    ELSE IF m.kind = "model" THEN [shown EXCEPT ![m.id].model = m.entity.model]
    ELSE [shown EXCEPT ![m.id] = Absent]

\* ServerNetwork_Send of packets[p] to each player p of a set.
SentTo(ps, packets) ==
    [p \in Players |-> IF p \in ps /\ seated[p] /\ ~left[p]
                       THEN toClient[p] \o packets[p] ELSE toClient[p]]

\* ServerWorld_BroadcastExcluding
BroadcastExcluding(packets, owner) ==
    SentTo(Players \ {owner}, [p \in Players |-> packets])

\* Player.entityId of a player that has no entity.
NoEntity == -1

Init ==
    /\ entities = [id \in EntityIds |-> Blank]
    /\ nextGeneration = 0
    /\ seated = [p \in Players |-> FALSE]
    /\ left = [p \in Players |-> FALSE]
    /\ entityId = [p \in Players |-> NoEntity]
    /\ step = "packets"
    /\ cursor = 0
    /\ cutoff = 0
    /\ toClient = [p \in Players |-> <<>>]
    /\ view = [p \in Players |-> [id \in ShownIds |-> Absent]]
    /\ acts = 0

----------------------------------------------------------------------------
(* The entity table's operations (entitymanager.c, world.c).               *)

FreeIds == {id \in EntityIds : ~entities[id].active}
IsFirstFree(id) == id \in FreeIds /\ \A free \in FreeIds : id <= free

\* ServerWorld_AddEntity into slot id.
Added(id, model, at, owner) ==
    [Blank EXCEPT !.active = TRUE, !.generation = nextGeneration + 1,
                  !.owner = owner, !.model = model, !.at = at]

\* An entity that scripts and players can still get at.
Usable(id) == entities[id].active /\ ~entities[id].pendingRemoval

\* ServerWorld_RemoveEntity
Removed(id) ==
    IF entities[id].active
    THEN [entities EXCEPT ![id].pendingRemoval = TRUE] ELSE entities

\* Mutant: the move is kept but nobody will be told.
MovedQuietly(id, at) == [entities EXCEPT ![id].at = at]
\* ServerWorld_TeleportEntity
Moved(id, at) == [entities EXCEPT ![id].at = at, ![id].dirty = TRUE]

----------------------------------------------------------------------------
(* Scripts: in event callbacks, in on_step, and in on_remove.              *)

ScriptMayRun ==
    \/ step \in {"packets", "calling", "removing"}
    \/ step = "players" /\ \E p \in Players : seated[p] /\ left[p]

\* LuaEntities_Spawn; a slot must be free.
ScriptSpawns(id, model) ==
    /\ ScriptMayRun
    /\ nextGeneration < MaxGeneration
    /\ IsFirstFree(id)
    /\ entities' = [entities EXCEPT ![id] = Added(id, model, Start, Nobody)]
    /\ nextGeneration' = nextGeneration + 1
    /\ UNCHANGED <<playerVars, loopVars, wireVars, acts>>

\* entity:remove, or an on_spawn or on_step that failed.
ScriptRemoves(id) ==
    /\ ScriptMayRun
    /\ Usable(id) /\ entities[id].owner = Nobody
    /\ entities' = Removed(id)
    /\ UNCHANGED <<nextGeneration, playerVars, loopVars, wireVars, acts>>

\* entity:set_position and set_rotation.
ScriptMoves(id, at) ==
    /\ ScriptMayRun
    /\ acts < MaxActs
    /\ Usable(id) /\ entities[id].owner = Nobody
    /\ entities' = Moved(id, at)
    /\ acts' = acts + 1
    /\ UNCHANGED <<nextGeneration, playerVars, loopVars, wireVars>>

\* Mutant: the owner of the entity is not told under its own number.
ModelToldByNumber(id, model) ==
    SentTo(Players, [p \in Players |->
        IF entities[id].announced THEN <<SetModel(model, id)>> ELSE <<>>])

\* The broadcast of ServerWorld_SetEntityModel.
ModelTold(id, model) ==
    SentTo(Players, [p \in Players |->
        IF entityId[p] = id THEN <<SetModel(model, Local)>>
        ELSE IF entities[id].announced THEN <<SetModel(model, id)>> ELSE <<>>])

\* entity:set_model and player:set_model.
ScriptSetsModel(id, model) ==
    /\ ScriptMayRun
    /\ acts < MaxActs
    /\ Usable(id)
    /\ entities' = [entities EXCEPT ![id].model = model]
    /\ toClient' = ModelTold(id, model)
    /\ acts' = acts + 1
    /\ UNCHANGED <<nextGeneration, playerVars, loopVars, view>>

----------------------------------------------------------------------------
(* Players.                                                                *)

\* The entities ServerEntities_Send tells a newcomer of.
KnownToNewcomer(p, id) ==
    Usable(id) /\ entities[id].owner # p /\ entities[id].announced

Introduction(p, id) ==
    IF KnownToNewcomer(p, id)
    THEN <<Spawn(entities[id], id), Teleport(entities[id], id)>> ELSE <<>>

\* ServerEntities_Send, the slots in their order.
Introductions(p) ==
    LET upTo[n \in 0 .. MaxEntities] ==
            IF n = 0 THEN <<>> ELSE upTo[n - 1] \o Introduction(p, n - 1)
    IN  upTo[MaxEntities]

\* ServerWorld_AddPlayer: an entity, the client's own, then everybody else's.
Join(p, id) ==
    /\ step = "packets"
    /\ ~seated[p]
    /\ nextGeneration < MaxGeneration
    /\ IsFirstFree(id)
    /\ LET own == Added(id, 0, Start, p)
       IN  /\ entities' = [entities EXCEPT ![id] = own]
           /\ toClient' = [toClient EXCEPT ![p] = <<Spawn(own, Local)>> \o Introductions(p)]
    /\ nextGeneration' = nextGeneration + 1
    /\ seated' = [seated EXCEPT ![p] = TRUE]
    /\ entityId' = [entityId EXCEPT ![p] = id]
    /\ UNCHANGED <<left, loopVars, view, acts>>

\* ServerPacket_HandlePlayerPosition
HandlePlayerPosition(p, at) ==
    /\ step = "packets"
    /\ acts < MaxActs
    /\ seated[p] /\ ~left[p]
    /\ Usable(entityId[p])
    /\ entities' = Moved(entityId[p], at)
    /\ acts' = acts + 1
    /\ UNCHANGED <<nextGeneration, playerVars, loopVars, wireVars>>

\* ServerNetwork_Disconnect: what was on its way is lost.
HangUp(p) ==
    /\ seated[p] /\ ~left[p]
    /\ acts < MaxActs
    /\ left' = [left EXCEPT ![p] = TRUE]
    /\ toClient' = [toClient EXCEPT ![p] = <<>>]
    /\ view' = [view EXCEPT ![p] = [id \in ShownIds |-> Absent]]
    /\ acts' = acts + 1
    /\ UNCHANGED <<serverVars, seated, entityId, loopVars>>

ClientReceive(p) ==
    /\ toClient[p] # <<>>
    /\ view' = [view EXCEPT ![p] = Shown(@, Head(toClient[p]))]
    /\ toClient' = [toClient EXCEPT ![p] = Tail(@)]
    /\ UNCHANGED <<serverVars, playerVars, loopVars, acts>>

----------------------------------------------------------------------------
(* The update: ServerPlayerManager_Update, then ServerEntities_Update.     *)

StartUpdate ==
    /\ step = "packets"
    /\ step' = "players"
    /\ UNCHANGED <<serverVars, playerVars, cursor, cutoff, wireVars, acts>>

\* ServerWorld_RemovePlayer
RemovePlayer(p) ==
    /\ step = "players"
    /\ seated[p] /\ left[p]
    /\ seated' = [seated EXCEPT ![p] = FALSE]
    /\ left' = [left EXCEPT ![p] = FALSE]
    /\ entityId' = [entityId EXCEPT ![p] = NoEntity]
    /\ entities' = Removed(entityId[p])
    /\ UNCHANGED <<nextGeneration, loopVars, wireVars, acts>>

\* No millisecond has passed: entities wait for the next update.
ClockStands ==
    /\ step = "players"
    /\ step' = "packets"
    /\ UNCHANGED <<serverVars, playerVars, cursor, cutoff, wireVars, acts>>

StartEntities ==
    /\ step = "players"
    /\ step' = "stepping"
    /\ cursor' = 0
    /\ cutoff' = nextGeneration
    /\ UNCHANGED <<serverVars, playerVars, wireVars, acts>>

\* The entities whose on_step is due.
Due(id) == Usable(id) /\ entities[id].generation <= cutoff

\* One turn of the first loop; LuaEntities_Step calls scripted entities only.
StepEntity ==
    /\ step = "stepping"
    /\ cursor < MaxEntities
    /\ IF Due(cursor) /\ entities[cursor].owner = Nobody
       THEN step' = "calling" /\ UNCHANGED cursor
       ELSE cursor' = cursor + 1 /\ UNCHANGED step
    /\ UNCHANGED <<serverVars, playerVars, cutoff, wireVars, acts>>

StepReturns ==
    /\ step = "calling"
    /\ step' = "stepping"
    /\ cursor' = cursor + 1
    /\ UNCHANGED <<serverVars, playerVars, cutoff, wireVars, acts>>

StartAnnouncing ==
    /\ step = "stepping"
    /\ cursor = MaxEntities
    /\ step' = "announcing"
    /\ cursor' = 0
    /\ UNCHANGED <<serverVars, playerVars, cutoff, wireVars, acts>>

\* Mutant: the slot is given up before on_remove is called.
GivenUpFirst(id) == [entities EXCEPT ![id].active = FALSE]
GivenUpLater(id) == entities

\* The second loop comes to an entity to be removed: Destroy calls on_remove.
StartDestroy ==
    /\ step = "announcing"
    /\ cursor < MaxEntities
    /\ entities[cursor].active /\ entities[cursor].pendingRemoval
    /\ step' = "removing"
    /\ entities' = GivenUpLater(cursor)
    /\ UNCHANGED <<nextGeneration, playerVars, cursor, cutoff, wireVars, acts>>

\* Mutant: the clients are not told that the entity is gone.
DespawnUntold(e) == toClient
DespawnTold(e) ==
    IF e.announced THEN BroadcastExcluding(<<Despawn(cursor)>>, e.owner) ELSE toClient

\* Mutant: the slot is not given back.
SlotKept(id) == entities
SlotFreed(id) == [entities EXCEPT ![id].active = FALSE]

FinishDestroy ==
    /\ step = "removing"
    /\ toClient' = DespawnTold(entities[cursor])
    /\ entities' = SlotFreed(cursor)
    /\ step' = "announcing"
    /\ cursor' = cursor + 1
    /\ UNCHANGED <<nextGeneration, playerVars, cutoff, view, acts>>

\* What the second loop broadcasts of an entity that stays.
News(e) ==
    (IF e.announced THEN <<>> ELSE <<Spawn(e, cursor)>>)
    \o (IF e.announced /\ ~e.dirty THEN <<>> ELSE <<Teleport(e, cursor)>>)

AnnounceEntity ==
    /\ step = "announcing"
    /\ cursor < MaxEntities
    /\ ~(entities[cursor].active /\ entities[cursor].pendingRemoval)
    /\ IF entities[cursor].active
       THEN /\ toClient' = BroadcastExcluding(News(entities[cursor]), entities[cursor].owner)
            /\ entities' = [entities EXCEPT ![cursor].announced = TRUE, ![cursor].dirty = FALSE]
       ELSE UNCHANGED <<toClient, entities>>
    /\ cursor' = cursor + 1
    /\ UNCHANGED <<nextGeneration, playerVars, step, cutoff, view, acts>>

FinishUpdate ==
    /\ step = "announcing"
    /\ cursor = MaxEntities
    /\ step' = "packets"
    /\ UNCHANGED <<serverVars, playerVars, cursor, cutoff, wireVars, acts>>

EntitiesStep ==
    \/ StartEntities \/ StepEntity \/ StepReturns \/ StartAnnouncing
    \/ StartDestroy \/ FinishDestroy \/ AnnounceEntity \/ FinishUpdate

ScriptStep ==
    \E id \in EntityIds :
        \/ \E model \in Models : ScriptSpawns(id, model) \/ ScriptSetsModel(id, model)
        \/ \E at \in Spots : ScriptMoves(id, at)
        \/ ScriptRemoves(id)

PlayerStep ==
    \E p \in Players :
        \/ \E id \in EntityIds : Join(p, id)
        \/ \E at \in Spots : HandlePlayerPosition(p, at)
        \/ HangUp(p) \/ ClientReceive(p) \/ RemovePlayer(p)

Next == StartUpdate \/ ClockStands \/ EntitiesStep \/ ScriptStep \/ PlayerStep

\* The main loop runs, the clock does not stand still for ever, packets arrive.
Fairness ==
    /\ WF_vars(StartUpdate)
    /\ WF_vars(EntitiesStep \/ ClockStands)
    /\ SF_vars(StartEntities)
    /\ \A p \in Players : SF_vars(RemovePlayer(p)) /\ WF_vars(ClientReceive(p))

Spec == Init /\ [][Next]_vars /\ Fairness

----------------------------------------------------------------------------
(* Properties.                                                             *)

EntityRecords ==
    [active : BOOLEAN, pendingRemoval : BOOLEAN, generation : Nat,
     owner : Players \cup {Nobody}, model : Models, at : Spots,
     announced : BOOLEAN, dirty : BOOLEAN]
ShownRecords == [generation : Nat, model : Models, at : Spots]
Packets == [kind : {"spawn", "teleport", "model", "despawn"}, id : ShownIds, entity : ShownRecords]

\* The type of every variable.
TypeOK ==
    /\ entities \in [EntityIds -> EntityRecords]
    /\ nextGeneration \in Nat
    /\ seated \in [Players -> BOOLEAN]
    /\ left \in [Players -> BOOLEAN]
    /\ entityId \in [Players -> EntityIds \cup {NoEntity}]
    /\ step \in {"packets", "players", "stepping", "calling", "announcing", "removing"}
    /\ cursor \in 0 .. MaxEntities
    /\ cutoff \in Nat
    /\ toClient \in [Players -> Seq(Packets)]
    /\ view \in [Players -> [ShownIds -> ShownRecords]]
    /\ acts \in Nat

\* What a client shows after it has read some packets.
Read(shown, packets) ==
    LET after[n \in 0 .. Len(packets)] ==
            IF n = 0 THEN shown ELSE Shown(after[n - 1], packets[n])
    IN  after[Len(packets)]

\* What a client will show once the packets on their way have arrived.
WillShow(p) == Read(view[p], toClient[p])

Picture(e) == [generation |-> e.generation, model |-> e.model, at |-> e.at]

\* What a client may show under the number of a slot.
ShowsEntity(p, e, shown) ==
    IF ~e.active \/ ~e.announced \/ e.owner = p THEN shown = Absent
    ELSE \/ e.pendingRemoval /\ shown = Absent
         \/ shown = Picture(e)
         \/ e.dirty /\ shown = [Picture(e) EXCEPT !.at = shown.at]

\* What a client may show of its own player.
ShowsOwn(e, shown) == shown.generation = e.generation /\ shown.model = e.model

\* Once its packets have arrived a client shows under every number exactly the
\* entity that has the slot, never an earlier one and never its own player: in
\* its model, and at its place unless the slot is still marked dirty.  Of an
\* entity that is being removed it may show that or nothing.
ClientShowsTable ==
    \A p \in Players, id \in EntityIds :
        seated[p] /\ ~left[p] => ShowsEntity(p, entities[id], WillShow(p)[id])

\* The owner is told of its own entity's model under the number Local, and of
\* no other entity's.
OwnModelShown ==
    \A p \in Players :
        seated[p] /\ ~left[p] => ShowsOwn(entities[entityId[p]], WillShow(p)[Local])

\* A seated player has a slot of its own, which nobody asks to be removed before
\* the player leaves; an empty seat has none.
PlayersHaveEntities ==
    \A p \in Players :
        IF seated[p] THEN /\ entityId[p] \in EntityIds
                          /\ Usable(entityId[p])
                          /\ entities[entityId[p]].owner = p
        ELSE entityId[p] = NoEntity /\ ~left[p]

\* Whoever is not there has nothing on its way and shows nothing.
AwayShowNothing ==
    \A p \in Players : ~seated[p] \/ left[p] =>
        toClient[p] = <<>> /\ \A id \in ShownIds : view[p][id] = Absent

\* The entity whose callback runs has its slot, and is on its way out in on_remove.
CalleeIsThere ==
    step \in {"calling", "removing"} =>
        /\ cursor < MaxEntities
        /\ entities[cursor].active
        /\ step = "removing" => entities[cursor].pendingRemoval

\* The generation of a slot in use is one that was given out.
GenerationsGivenOut ==
    \A id \in EntityIds : entities[id].active => entities[id].generation \in 1 .. nextGeneration

\* The table is well formed, and nobody mistakes its own entity for another.
EntitiesInvariant ==
    /\ TypeOK
    /\ OwnModelShown
    /\ PlayersHaveEntities
    /\ AwayShowNothing
    /\ CalleeIsThere
    /\ GenerationsGivenOut

\* While an on_step or on_remove callback runs, the slot stays with the entity
\* it was called for, whatever the callback spawns or removes: the loop uses
\* its Entity pointer after the callback returns.
CalleeKeepsItsSlot ==
    [][(step \in {"calling", "removing"}) =>
          entities'[cursor].generation = entities[cursor].generation]_vars

\* An entity a script removed, or whose player left, leaves the table.
RemovedEntityGoes ==
    \A id \in EntityIds, g \in 1 .. MaxGeneration :
        (entities[id].pendingRemoval /\ entities[id].generation = g)
            ~> (~entities[id].active \/ entities[id].generation # g)

\* Once nothing moves any more, every client shows what the server has.
ClientsConverge ==
    <>[](\A p \in Players, id \in EntityIds : seated[p] /\ ~left[p] =>
            view[p][id] = IF entities[id].active /\ entities[id].owner # p
                          THEN Picture(entities[id]) ELSE Absent)
=============================================================================
