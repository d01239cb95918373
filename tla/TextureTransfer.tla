--------------------------- MODULE TextureTransfer ---------------------------
(***************************************************************************)
(* Custom textures and the models and terrain that use them.  A script     *)
(* defines a texture at the server, which sends it to each player in       *)
(* acknowledged chunks, one packet at a time; the client installs it when  *)
(* the last chunk is there, and rebuilds what is drawn with it.  Model     *)
(* definitions and the choice of the terrain's texture travel at once, in  *)
(* the same stream, and may reach the client before the texture they name. *)
(*                                                                         *)
(* A PNG file is its number of chunks and its width; its height and the    *)
(* limits on bytes and pixels are left out, and so are failing             *)
(* allocations.  A chunk of data is marked with the revision of the file   *)
(* it was cut from.                                                        *)
(***************************************************************************)
EXTENDS Integers, Sequences, FiniteSets

CONSTANTS
    Players,       \* indices of serverWorld.players
    Textures,      \* ids 2 .. TEXTURE_LIMIT - 1
    Models,        \* ids of model definitions
    Widths,        \* widths of PNG files
    Extents,       \* widths the UVs of a model reach
    TerrainWidth,  \* 256
    Sizes,         \* sizes of PNG files in chunks
    MaxRevision,   \* bound of the model: definitions of a texture
    MaxActs,       \* bound of the model: changes of models and terrain
    MaxTimeouts    \* bound of the model: transfers that time out

ASSUME TransferAssumption ==
    /\ Textures \subseteq Nat \ {0, 1} /\ IsFiniteSet(Textures) /\ IsFiniteSet(Models)
    /\ Widths \subseteq Nat \ {0} /\ TerrainWidth \in Widths
    /\ Extents \subseteq Nat \ {0}
    /\ Sizes \subseteq Nat \ {0} /\ MaxRevision \in Nat
    /\ MaxActs \in Nat /\ MaxTimeouts \in Nat

VARIABLES
    file,       \* server textures[id]: revision (0: none), chunks, width
    terrainId,  \* the texture of the terrain; 1 is the built-in one
    models,     \* serverWorld.modelDefinitions: the texture, the UVs' extent
    seated,     \* serverWorld.players[p] # NULL
    serving,    \* Player.textureWaiting, textureId, textureRevision, textureOffset
    sent,       \* Player.textureSent
    toClient,   \* packets on their way to the client, in order
    toServer,   \* acknowledgements on their way back, in order
    client,     \* a client's textures.c and its part of entitymodel.c
    lapsed,     \* history: transfers that ended by a refusal or a timeout
    acts,
    timeouts

serverVars == <<file, terrainId, models>>
playerVars == <<seated, serving, sent>>
vars == <<serverVars, playerVars, toClient, toServer, client, lapsed, acts, timeouts>>

Builtin  == 1
NoFile   == [revision |-> 0, chunks |-> 0, width |-> 0]
NoModel  == [texture |-> -1, extent |-> 0]
Idle     == [waiting |-> FALSE, id |-> 0, revision |-> 0, offset |-> 0]
Missing  == [revision |-> 0, width |-> 0, bytes |-> {}]
NoTransfer == [id |-> 0, revision |-> 0, chunks |-> 0, width |-> 0, received |-> 0, bytes |-> {}]
NoGpu    == <<0, 0>>
Refused  == -1   \* offset UINT32_MAX of an acknowledgement

\* ClientTextures_Reset and EntityModel_ResetDefinitions
Fresh == [held     |-> [t \in Textures |-> Missing],
          transfer |-> NoTransfer,
          desired  |-> Builtin,
          current  |-> Builtin,
          received |-> [m \in Models |-> NoModel],
          built    |-> [m \in Models |-> NoGpu]]

Init ==
    /\ file = [t \in Textures |-> NoFile]
    /\ terrainId = Builtin
    /\ models = [m \in Models |-> NoModel]
    /\ seated = [p \in Players |-> FALSE]
    /\ serving = [p \in Players |-> Idle]
    /\ sent = [p \in Players |-> [t \in Textures |-> 0]]
    /\ toClient = [p \in Players |-> <<>>]
    /\ toServer = [p \in Players |-> <<>>]
    /\ client = [p \in Players |-> Fresh]
    /\ lapsed = [p \in Players |-> {}]
    /\ acts = 0
    /\ timeouts = 0

----------------------------------------------------------------------------
(* The scripts (luabindings.c, world/textures.c, world.c).                 *)

Begin(t, f)       == [kind |-> "begin", id |-> t, revision |-> f.revision,
                      chunks |-> f.chunks, width |-> f.width]
Data(s, from)     == [kind |-> "data", id |-> s.id, revision |-> s.revision,
                      offset |-> s.offset, from |-> from]
Terrain(t)        == [kind |-> "terrain", id |-> t]
DefineModel(m, d) == [kind |-> "model", id |-> m, definition |-> d]

Broadcast(packet) ==
    toClient' = [p \in Players |-> IF seated[p] THEN Append(toClient[p], packet)
                                   ELSE toClient[p]]

\* Mutant: the file of a texture in use may have any width.
ReplaceableAlways(t, width) == width \in Widths

\* A new file must still fit the models that use the texture, and the terrain.
Replaceable(t, width) ==
    /\ terrainId = t => width = TerrainWidth
    /\ \A m \in Models : models[m].texture = t => models[m].extent <= width

\* ServerTextures_Define
ScriptDefinesTexture(t, chunks, width) ==
    /\ file[t].revision < MaxRevision
    /\ Replaceable(t, width)
    /\ file' = [file EXCEPT ![t] = [revision |-> @.revision + 1,
                                    chunks |-> chunks, width |-> width]]
    /\ UNCHANGED <<terrainId, models, playerVars, toClient, toServer, client,
                   lapsed, acts, timeouts>>

\* ServerTextures_SetTerrain
ScriptSetsTerrain(t) ==
    /\ acts < MaxActs
    /\ t # Builtin => file[t].width = TerrainWidth
    /\ terrainId' = t
    /\ Broadcast(Terrain(t))
    /\ acts' = acts + 1
    /\ UNCHANGED <<file, models, playerVars, toServer, client, lapsed, timeouts>>

\* LuaBindings_DefineEntityModel and ServerWorld_DefineEntityModel.  Only the
\* texture's existence is checked, not that the UVs lie in it.
ScriptDefinesModel(m, t, extent) ==
    /\ acts < MaxActs
    /\ t # Builtin => file[t] # NoFile
    /\ LET d == [texture |-> t, extent |-> extent]
       IN  /\ models' = [models EXCEPT ![m] = d]
           /\ Broadcast(DefineModel(m, d))
    /\ acts' = acts + 1
    /\ UNCHANGED <<file, terrainId, playerVars, toServer, client, lapsed, timeouts>>

\* ServerWorld_RemoveEntityModel
ScriptRemovesModel(m) ==
    /\ acts < MaxActs
    /\ models[m] # NoModel
    /\ models' = [models EXCEPT ![m] = NoModel]
    /\ Broadcast(DefineModel(m, NoModel))
    /\ acts' = acts + 1
    /\ UNCHANGED <<file, terrainId, playerVars, toServer, client, lapsed, timeouts>>

----------------------------------------------------------------------------
(* Players come and go.                                                    *)

\* The models' packets of ServerWorld_SendEntityModels, whose order does not
\* matter: no definition depends on another.
Definitions ==
    CHOOSE packets \in [1 .. Cardinality({m \in Models : models[m] # NoModel}) ->
                        {DefineModel(m, models[m]) : m \in Models}] :
        \A m \in Models : models[m] # NoModel =>
            \E i \in DOMAIN packets : packets[i] = DefineModel(m, models[m])

\* ServerPacket_HandleIdentification
Join(p) ==
    /\ ~seated[p]
    /\ seated' = [seated EXCEPT ![p] = TRUE]
    /\ toClient' = [toClient EXCEPT ![p] = <<Terrain(terrainId)>> \o Definitions]
    /\ UNCHANGED <<serverVars, serving, sent, toServer, client, lapsed, acts, timeouts>>

\* The connection ends: the server frees the Player, Network_PerformDisconnect
\* resets the client, and what was on its way is gone.
HangUp(p) ==
    /\ seated[p]
    /\ seated' = [seated EXCEPT ![p] = FALSE]
    /\ serving' = [serving EXCEPT ![p] = Idle]
    /\ sent' = [sent EXCEPT ![p] = [t \in Textures |-> 0]]
    /\ toClient' = [toClient EXCEPT ![p] = <<>>]
    /\ toServer' = [toServer EXCEPT ![p] = <<>>]
    /\ client' = [client EXCEPT ![p] = Fresh]
    /\ lapsed' = [lapsed EXCEPT ![p] = {}]
    /\ UNCHANGED <<serverVars, acts, timeouts>>

----------------------------------------------------------------------------
(* The server's side of a transfer.                                        *)

\* The first texture the player has not been sent in its present revision.
Due(sentTo)   == {t \in Textures : file[t] # NoFile /\ sentTo[t] # file[t].revision}
FirstDue(due) == CHOOSE t \in due : \A u \in due : t <= u

\* Mutant: the transfer goes on, with the bytes of the new file.
NeverStale(s) == s

\* A transfer of a revision that is no longer there is dropped.
StillCurrent(s) == IF s.id # 0 /\ s.revision # file[s.id].revision
                   THEN [s EXCEPT !.id = 0] ELSE s

\* What a visit of ServerTextures_Update does once nothing is awaited.
Visit(p, s, sentTo) ==
    LET due  == Due(sentTo)
        next == FirstDue(due)
    IN  /\ sent' = [sent EXCEPT ![p] = sentTo]
        /\ \/ /\ s.id # 0
              /\ serving' = [serving EXCEPT ![p] = [s EXCEPT !.offset = @ + 1, !.waiting = TRUE]]
              /\ toClient' = [toClient EXCEPT ![p] = Append(@, Data(s, file[s.id].revision))]
           \/ /\ s.id = 0 /\ due # {}
              /\ serving' = [serving EXCEPT ![p] = [waiting |-> TRUE, id |-> next,
                                      revision |-> file[next].revision, offset |-> 0]]
              /\ toClient' = [toClient EXCEPT ![p] = Append(@, Begin(next, file[next]))]
           \/ /\ s.id = 0 /\ due = {}
              /\ serving' = [serving EXCEPT ![p] = s]
              /\ UNCHANGED toClient


\* One packet at a time.
MayServe(p) == ~serving[p].waiting

ServeTexture(p) ==
    /\ seated[p]
    /\ MayServe(p)
    /\ Visit(p, StillCurrent(serving[p]), sent[p])
    /\ UNCHANGED <<serverVars, seated, toServer, client, lapsed, acts, timeouts>>

\* 15 seconds without an answer: the transfer counts as made.
TimeOut(p) ==
    LET s == serving[p]
    IN  /\ seated[p]
        /\ s.waiting
        /\ timeouts < MaxTimeouts
        /\ Visit(p, Idle, [sent[p] EXCEPT ![s.id] = s.revision])
        /\ lapsed' = [lapsed EXCEPT ![p] = @ \cup {<<s.id, s.revision>>}]
        /\ timeouts' = timeouts + 1
        /\ UNCHANGED <<serverVars, seated, toServer, client, acts>>

\* Mutant: any acknowledgement of the present revision.
CompletedByAny(a) == a.revision = file[a.id].revision

\* The acknowledgement of the whole of the revision the server has.
CompletedBy(a) == a.revision = file[a.id].revision /\ a.offset = file[a.id].chunks

\* Mutant: the server tries again.
SentAgain(p, a) == sent[p]


\* textureSent of a player that refuses a revision.
SentOnRefusal(p, a) == [sent[p] EXCEPT ![a.id] = a.revision]

\* ServerTextures_HandleAck
HandleAck(p) ==
    LET a == Head(toServer[p])
        s == serving[p]
        awaited   == s.waiting /\ a.id = s.id /\ a.revision = s.revision
        refused   == awaited /\ a.offset = Refused
        confirmed == awaited /\ a.offset = s.offset
    IN  /\ toServer[p] # <<>>
        /\ toServer' = [toServer EXCEPT ![p] = Tail(@)]
        /\ \/ /\ refused
              /\ sent' = [sent EXCEPT ![p] = SentOnRefusal(p, a)]
              /\ serving' = [serving EXCEPT ![p].waiting = FALSE, ![p].id = 0]
              /\ lapsed' = [lapsed EXCEPT ![p] = @ \cup {<<a.id, a.revision>>}]
           \/ /\ confirmed /\ CompletedBy(a)
              /\ sent' = [sent EXCEPT ![p][a.id] = a.revision]
              /\ serving' = [serving EXCEPT ![p].waiting = FALSE, ![p].id = 0]
              /\ UNCHANGED lapsed
           \/ /\ confirmed /\ ~CompletedBy(a)
              /\ serving' = [serving EXCEPT ![p].waiting = FALSE]
              /\ UNCHANGED <<sent, lapsed>>
           \/ /\ ~refused /\ ~confirmed
              /\ UNCHANGED <<sent, serving, lapsed>>
        /\ UNCHANGED <<serverVars, seated, toClient, client, acts, timeouts>>

----------------------------------------------------------------------------
(* The client: what a packet makes of its state c (textures.c and          *)
(* entity/entitymodel.c).                                                  *)

\* ClientTextures_Get: a texture object and its width; NoGpu if there is none.
Gpu(c, t) ==
    LET shown == IF t = Builtin THEN c.current ELSE t
    IN  IF shown = Builtin THEN <<Builtin, 0>>
        ELSE IF c.held[shown] = Missing THEN NoGpu
        ELSE <<shown, c.held[shown].revision>>
GpuWidth(c, t) ==
    LET shown == IF t = Builtin THEN c.current ELSE t
    IN  IF shown = Builtin THEN TerrainWidth ELSE c.held[shown].width

\* EntityModel_ApplyDefinition: without its texture a model is kept but not
\* built; with UVs outside its texture it is refused.  And
\* EntityModel_RemoveDefinition.
ModelApplied(c, m, d) ==
    IF d = NoModel \/ Gpu(c, d.texture) = NoGpu
    THEN [c EXCEPT !.received[m] = d, !.built[m] = NoGpu]
    ELSE IF d.extent > GpuWidth(c, d.texture) THEN c
    ELSE [c EXCEPT !.received[m] = d, !.built[m] = Gpu(c, d.texture)]

\* EntityModel_RefreshTextures
Refreshed(c, t) ==
    [c EXCEPT !.built = [m \in Models |->
        IF c.received[m].texture = t THEN ModelApplied(c, m, c.received[m]).built[m]
        ELSE c.built[m]]]

Usable(c, t) == t = Builtin \/ c.held[t].width = TerrainWidth

\* Mutant: the models drawn with the terrain keep the old texture.
TerrainAppliedAlone(c) ==
    [c EXCEPT !.current = IF Usable(c, c.desired) THEN c.desired ELSE c.current]

\* ApplyTerrain: the desired texture if it can be the terrain, or the one in use.
TerrainApplied(c) ==
    LET selected == IF Usable(c, c.desired) THEN c.desired ELSE c.current
    IN  Refreshed([c EXCEPT !.current = selected], Builtin)

\* The checks of ClientTextures_HandleBegin.
Acceptable(c, b) ==
    /\ b.revision > c.held[b.id].revision
    /\ c.current = b.id => b.width = TerrainWidth

BeginTransfer(b) == [id |-> b.id, revision |-> b.revision, chunks |-> b.chunks,
                     width |-> b.width, received |-> 0, bytes |-> {}]

\* EntityModel_TextureFits
Fits(c, t, width) ==
    \A m \in Models : c.received[m].texture = t => c.received[m].extent <= width

\* The end of ClientTextures_HandleData: the texture replaces the old one.
Installed(c, x) ==
    LET replaced  == [c EXCEPT !.held[x.id] = [revision |-> x.revision,
                                               width |-> x.width, bytes |-> x.bytes]]
        refreshed == Refreshed(replaced, x.id)
    IN  IF c.desired = x.id \/ c.current = x.id THEN TerrainApplied(refreshed) ELSE refreshed

Ack(x, offset) == <<[id |-> x.id, revision |-> x.revision, offset |-> offset]>>

\* ClientTextures_HandleBegin
HandleBegin(p) ==
    LET b == Head(toClient[p])
        c == client[p]
        accepted == Acceptable(c, b)
    IN  /\ b.kind = "begin"
        /\ client' = [client EXCEPT ![p].transfer =
                          IF accepted THEN BeginTransfer(b) ELSE NoTransfer]
        /\ toServer' = [toServer EXCEPT ![p] =
                          @ \o Ack(b, IF accepted THEN 0 ELSE Refused)]

\* ClientTextures_HandleData
HandleData(p) ==
    LET d == Head(toClient[p])
        c == client[p]
        x == [c.transfer EXCEPT !.received = @ + 1, !.bytes = @ \cup {d.from}]
        expected == d.id = c.transfer.id /\ d.revision = c.transfer.revision
        inOrder  == d.offset = c.transfer.received /\ x.received <= x.chunks
        whole    == x.received = x.chunks
        ends     == [c EXCEPT !.transfer = NoTransfer]
        Becomes(next, answer) ==
            /\ client' = [client EXCEPT ![p] = next]
            /\ toServer' = [toServer EXCEPT ![p] = @ \o answer]
    IN  /\ d.kind = "data"
        /\ \/ ~expected /\ Becomes(c, <<>>)
           \/ expected /\ ~inOrder /\ Becomes(ends, Ack(x, Refused))
           \/ expected /\ inOrder /\ ~whole
                /\ Becomes([c EXCEPT !.transfer = x], Ack(x, x.received))
           \/ expected /\ inOrder /\ whole /\ Fits(c, x.id, x.width)
                /\ Becomes(Installed(ends, x), Ack(x, x.chunks))
           \/ expected /\ inOrder /\ whole /\ ~Fits(c, x.id, x.width)
                /\ Becomes(ends, Ack(x, Refused))

\* ClientTextures_HandleTerrain
HandleTerrain(p) ==
    LET m == Head(toClient[p])
    IN  /\ m.kind = "terrain"
        /\ client' = [client EXCEPT ![p] = TerrainApplied([@ EXCEPT !.desired = m.id])]
        /\ UNCHANGED toServer

\* Packet_HandleDefineEntityModel, Packet_HandleRemoveEntityModel
HandleModel(p) ==
    LET m == Head(toClient[p])
    IN  /\ m.kind = "model"
        /\ client' = [client EXCEPT ![p] = ModelApplied(@, m.id, m.definition)]
        /\ UNCHANGED toServer

ClientReceive(p) ==
    /\ toClient[p] # <<>>
    /\ toClient' = [toClient EXCEPT ![p] = Tail(@)]
    /\ \/ HandleBegin(p)
       \/ HandleData(p)
       \/ HandleTerrain(p)
       \/ HandleModel(p)
    /\ UNCHANGED <<serverVars, playerVars, lapsed, acts, timeouts>>

----------------------------------------------------------------------------
ScriptStep ==
    \/ \E t \in Textures, n \in Sizes, w \in Widths : ScriptDefinesTexture(t, n, w)
    \/ \E t \in Textures \cup {Builtin} : ScriptSetsTerrain(t)
    \/ \E m \in Models, t \in Textures \cup {Builtin}, w \in Extents : ScriptDefinesModel(m, t, w)
    \/ \E m \in Models : ScriptRemovesModel(m)

PlayerStep(p) ==
    \/ Join(p)
    \/ HangUp(p)
    \/ ServeTexture(p)
    \/ TimeOut(p)
    \/ HandleAck(p)
    \/ ClientReceive(p)

Next == ScriptStep \/ \E p \in Players : PlayerStep(p)

\* The server's loop visits every player and handles every packet, the
\* client's frame every packet.  Nothing makes a script or a user act.
Fairness ==
    \A p \in Players : /\ WF_vars(ServeTexture(p))
                       /\ WF_vars(HandleAck(p))
                       /\ WF_vars(ClientReceive(p))

Spec == Init /\ [][Next]_vars /\ Fairness

----------------------------------------------------------------------------
(* Properties.                                                             *)

Revisions == 0 .. MaxRevision
Offsets   == UNION {0 .. n : n \in Sizes \cup {0}}
Terrains  == Textures \cup {Builtin}
Defined   == [texture : Terrains, extent : Extents] \cup {NoModel}

Files    == [revision : Revisions \ {0}, chunks : Sizes, width : Widths] \cup {NoFile}
Servings == [waiting : BOOLEAN, id : Textures \cup {0}, revision : Revisions, offset : Offsets]

ClientPackets ==
    [kind : {"begin"}, id : Textures, revision : Revisions \ {0}, chunks : Sizes, width : Widths]
        \cup [kind : {"data"}, id : Textures, revision : Revisions, offset : Offsets,
              from : Revisions]
        \cup [kind : {"terrain"}, id : Terrains]
        \cup [kind : {"model"}, id : Models, definition : Defined]
Acks == [id : Textures, revision : Revisions, offset : Offsets \cup {Refused}]

Transfers == [id : Textures, revision : Revisions \ {0}, chunks : Sizes, width : Widths,
              received : Offsets, bytes : SUBSET Revisions] \cup {NoTransfer}
Holdings  == [revision : Revisions \ {0}, width : Widths, bytes : SUBSET Revisions] \cup {Missing}
Clients   == [held : [Textures -> Holdings], transfer : Transfers,
              desired : Terrains, current : Terrains, received : [Models -> Defined],
              built : [Models -> (Textures \X Revisions) \cup {<<Builtin, 0>>, NoGpu}]]

\* The type of every variable.
TypeOK ==
    /\ file \in [Textures -> Files]
    /\ terrainId \in Terrains
    /\ models \in [Models -> Defined]
    /\ seated \in [Players -> BOOLEAN]
    /\ serving \in [Players -> Servings]
    /\ sent \in [Players -> [Textures -> Revisions]]
    /\ toClient \in [Players -> Seq(ClientPackets)]
    /\ toServer \in [Players -> Seq(Acks)]
    /\ client \in [Players -> Clients]
    /\ lapsed \in [Players -> SUBSET (Textures \X Revisions)]
    /\ acts \in Nat /\ timeouts \in Nat

\* A texture the client draws with was put together from one file, although
\* the file may be replaced at the server between any two chunks
\* (textures.c:118).
TextureWhole ==
    \A p \in Players, t \in Textures :
        LET held == client[p].held[t]
        IN  held # Missing => held.bytes = {held.revision}

\* What the server takes for delivered is what the client has, unless that
\* revision was refused or timed out (textures.c:82-96).
DeliveredIsHeld ==
    \A p \in Players : \A t \in Textures :
        /\ file[t] # NoFile
        /\ sent[p][t] = file[t].revision
        /\ <<t, file[t].revision>> \notin lapsed[p]
        => client[p].held[t].revision = file[t].revision

\* A model is drawn with the texture object its texture now is, never with
\* one that was unloaded when a revision or a terrain replaced it
\* (client textures.c:99-103, entitymodel.c:279).
ModelsDrawLiveTextures ==
    \A p \in Players : \A m \in Models :
        client[p].built[m] # NoGpu =>
            client[p].built[m] = Gpu(client[p], client[p].received[m].texture)

\* The texture of the terrain has the size of the atlas whatever is
\* redefined, and whatever the server asks for (client textures.c:39, 75).
TerrainIsAtlas == \A p \in Players : Usable(client[p], client[p].current)

\* A client that was sent the terrain's texture, and has nothing left to
\* read, shows the terrain the scripts chose (client textures.c:36-50, 102).
TerrainAgrees ==
    \A p \in Players :
        /\ seated[p]
        /\ toClient[p] = <<>>
        /\ terrainId # Builtin => /\ sent[p][terrainId] = file[terrainId].revision
                                  /\ <<terrainId, file[terrainId].revision>> \notin lapsed[p]
        => client[p].current = terrainId

IsTexturePacket(m) == m.kind \in {"begin", "data"}

\* The texture packets among ms.
TexturePackets(ms) == {i \in DOMAIN ms : IsTexturePacket(ms[i])}

\* "One acknowledged chunk per client" (textures.c:101): besides those that
\* timed out, at most one texture packet or its acknowledgement is under way,
\* and that one only while the server waits for it.
OneChunkUnderWay ==
    \A p \in Players :
        Cardinality(TexturePackets(toClient[p])) + Len(toServer[p])
            <= timeouts + (IF serving[p].waiting THEN 1 ELSE 0)

\* Who has no seat has nothing under way, and a client as new.
AwayIsFresh ==
    \A p \in Players : ~seated[p] =>
        toClient[p] = <<>> /\ toServer[p] = <<>> /\ client[p] = Fresh

\* What is said of a file, x, is true of the file the server has if it is the
\* present one.
TrueOf(f, x) ==
    /\ x.revision <= f.revision
    /\ x.revision = f.revision => x.chunks = f.chunks /\ x.width = f.width

\* The server serves files it has, no further than they go, and takes nothing
\* newer for sent.
ServesWhatIsThere ==
    \A p \in Players :
        LET s == serving[p]
            f == file[s.id]
        IN  /\ s.waiting => s.id # 0
            /\ s.id # 0 =>
                  /\ s.revision <= f.revision
                  /\ s.revision = f.revision =>
                        f # NoFile /\ s.offset <= f.chunks /\ (s.waiting \/ s.offset < f.chunks)
            /\ \A t \in Textures : sent[p][t] <= file[t].revision

\* Both ends mean the same file by the same revision: in what is announced, in
\* what is being put together, which is newer than what it will replace, and in
\* what the client has.
EndsAgree ==
    \A p \in Players :
        LET c == client[p]
            x == c.transfer
        IN  /\ \A i \in DOMAIN toClient[p] :
                  LET m == toClient[p][i]
                  IN  /\ m.kind = "begin" => TrueOf(file[m.id], m)
                      /\ m.kind = "data" => m.from = m.revision
            /\ x.id # 0 => /\ TrueOf(file[x.id], x)
                           /\ x.revision > c.held[x.id].revision
                           /\ x.received < x.chunks
                           /\ x.bytes \subseteq {x.revision}
            /\ \A t \in Textures :
                  /\ c.held[t].revision <= file[t].revision
                  /\ c.held[t].revision = file[t].revision => c.held[t].width = file[t].width

\* An acknowledgement of the whole of the present revision comes from a client
\* that has it.
AcksAreTrue ==
    \A p \in Players : \A i \in DOMAIN toServer[p] :
        LET a == toServer[p][i]
            f == file[a.id]
        IN  /\ a.revision <= f.revision
            /\ a.revision = f.revision /\ a.offset = f.chunks =>
                  client[p].held[a.id].revision = f.revision

\* What a transfer keeps at every step of both ends, whatever is redefined.
TransferInvariant ==
    /\ TypeOK /\ TextureWhole /\ OneChunkUnderWay
    /\ AwayIsFresh /\ ServesWhatIsThere /\ EndsAgree /\ AcksAreTrue

\* The server's terrain has the size of the atlas.
TerrainFileIsAtlas == terrainId # Builtin => file[terrainId].width = TerrainWidth

\* The terrain a client will want once its packets have arrived is the one the
\* scripts chose, and of two it can draw it shows the one it wants.
TerrainsAsked(ms) == {i \in DOMAIN ms : ms[i].kind = "terrain"}
TerrainIsOnItsWay ==
    \A p \in Players :
        LET asked == TerrainsAsked(toClient[p])
        IN  /\ seated[p] =>
                  IF asked = {} THEN client[p].desired = terrainId
                  ELSE \E i \in asked : /\ \A j \in asked : j <= i
                                         /\ toClient[p][i].id = terrainId
            /\ Usable(client[p], client[p].desired) => client[p].current = client[p].desired

\* Of a file x of another width than the atlas, nothing more arrives at p after
\* the i-th packet on its way.
Over(p, x, i) ==
    x.width # TerrainWidth =>
        /\ x.revision < file[x.id].revision
        /\ \A j \in DOMAIN toClient[p] :
              LET m == toClient[p][j]
              IN  j > i /\ m.kind = "data" /\ m.id = x.id => m.revision # x.revision

\* A file of another width that a client began to receive is never finished
\* once it shows the texture as its terrain, now or when the packet arrives
\* that tells it so: the server had replaced the file before it said that.
TerrainEndsTransfers ==
    \A p \in Players :
        LET x  == client[p].transfer
            ms == toClient[p]
        IN  /\ x.id = client[p].current => Over(p, x, 0)
            /\ \A i \in TerrainsAsked(ms) :
                  /\ x.id = ms[i].id => Over(p, x, i)
                  /\ \A k \in 1 .. (i - 1) :
                        ms[k].kind = "begin" /\ ms[k].id = ms[i].id => Over(p, ms[k], i)

\* The models that use the terrain's texture lie in the atlas.
TerrainModelsFit ==
    \A p \in Players : \A m \in Models :
        client[p].received[m].texture = Builtin => client[p].received[m].extent <= TerrainWidth

\* The terrain can always be drawn, and is the wanted one when it can be.
TerrainInvariant ==
    /\ TerrainIsAtlas /\ TerrainAgrees
    /\ TerrainFileIsAtlas /\ TerrainIsOnItsWay /\ TerrainEndsTransfers /\ TerrainModelsFit

\* Every player that stays is sent, or refuses, every texture in its present
\* revision: no transfer gets stuck, not when textures are redefined during it.
TexturesSettle ==
    \A p \in Players :
        []<>(~seated[p] \/ (Due(sent[p]) = {} /\ ~serving[p].waiting))

\* "Models using that texture update automatically" (docs/LUA_API.md:423),
\* once the server has nothing left to send and the client nothing to read.
ModelsUpdateAutomatically ==
    \A p \in Players : \A m \in Models :
        LET t == client[p].received[m].texture
        IN  /\ seated[p]
            /\ toClient[p] = <<>> /\ toServer[p] = <<>>
            /\ ~serving[p].waiting /\ Due(sent[p]) = {}
            /\ t \in Textures
            => client[p].built[m] = <<t, file[t].revision>>
============================================================================
