--------------------------- MODULE ServerSession ---------------------------
(***************************************************************************)
(* The life of a Player object in the server, from the transport's connect *)
(* event to free().  Two threads share it:                                 *)
(*                                                                         *)
(*   "net"   the ENet thread (Server_Do): creates players, queues their    *)
(*           packets, marks them disconnected, and frees the ones that     *)
(*           never identified;                                             *)
(*   "main"  the main loop: polls the websocket transport, drains the      *)
(*           packet queue, seats and unseats players, frees the rest.      *)
(*                                                                         *)
(* One action is one critical section of serverNetworkMutex, or one stretch *)
(* of code between two of them whose effects the other thread can see.     *)
(* What a gameplay handler does to the world is in the modules of the      *)
(* world; here it is one step that holds on to the player.                 *)
(***************************************************************************)
EXTENDS Integers, FiniteSets

CONSTANTS
    Conns,        \* Player objects the process allocates: one per connection
    WebConns,     \* those of the websocket transport, served by the main thread
    Peers,        \* ENetPeer slots; ENet reuses a slot once its peer is gone
    MaxPlayers,   \* WORLD_MAX_PLAYERS
    MaxEntities,  \* WORLD_MAX_ENTITIES
    QueueLimit,   \* SERVER_MAX_QUEUED_PACKETS
    PlayerLimit,  \* SERVER_MAX_QUEUED_PACKETS_PER_PLAYER
    MaxArrivals,  \* bound of the model: packets the queue ever accepts
    NoConn,       \* NULL Player pointer
    NoPeer        \* a websocket player's ENet peer

ASSUME SessionAssumption ==
    /\ WebConns \subseteq Conns
    /\ NoConn \notin Conns
    /\ NoPeer \notin Peers
    /\ MaxPlayers \in Nat
    /\ MaxEntities \in Nat
    /\ QueueLimit \in Nat
    /\ PlayerLimit \in Nat
    /\ MaxArrivals \in Nat

PlayerIds == 0 .. MaxPlayers - 1
EntityIds == 0 .. MaxEntities - 1
Threads   == {"net", "main"}

\* Opcode 0 with the current protocol version, opcode 0 with another one, and
\* the opcodes 1..7, which are served only once the player has an entity.
Ops == {"identify", "identify_outdated", "gameplay"}

Packets == [at : Nat, player : Conns, op : Ops]

VARIABLES
    life,          \* the memory of each Player object
    peer,          \* Player.peer, for the ENet players
    disconnected,  \* Player.disconnected
    named,         \* Player.name # NULL
    pending,       \* Player.pendingPackets
    playerId,      \* Player.id
    entityId,      \* Player.entityId
    queue,         \* serverIncomingPackets, each with its arrival number
    arrivals,      \* how many packets the queue has accepted so far
    players,       \* serverWorld.players
    entities,      \* serverWorld.entities: active, pendingRemoval, ownerPlayerId
    pc,            \* where the main thread is
    current,       \* serverPacketPlayer and the opcode the main thread serves
    slot,          \* the loop variable of ServerPlayerManager_Update
    freeing,       \* per thread, the player it will ServerPlayer_Destroy next
    netRunning     \* the network thread has not returned from Server_Do

playerVars == <<life, peer, disconnected, named, pending, playerId, entityId>>
queueVars  == <<queue, arrivals>>
worldVars  == <<players, entities>>
mainVars   == <<pc, current, slot>>
vars == <<playerVars, queueVars, worldVars, mainVars, freeing, netRunning>>

MainSteps == {"poll", "process", "check", "handle", "join", "finish", "update",
              "entities", "joining", "worldDown", "stopped"}

\* Where the main thread is between taking a packet and accounting for it.
Serving == pc \in {"check", "handle", "join", "finish"}

NoEntity == [active |-> FALSE, pendingRemoval |-> FALSE, owner |-> 0]

----------------------------------------------------------------------------
(* Helpers.                                                                *)

Queued(p) == {m \in queue : m.player = p}

InFlight(p) == IF Serving /\ current.player = p THEN 1 ELSE 0

\* A peer the transport still delivers events for.
Connected(p) == life[p] = "live" /\ ~disconnected[p]

IsLeast(x, S) == x \in S /\ \A y \in S : x <= y

\* "if (pendingPackets > 0) pendingPackets--", n times.
Lowered(n, count) == IF n >= count THEN n - count ELSE 0

\* serverIncomingPackets[0]
IsOldest(m) == m \in queue /\ \A o \in queue : m.at <= o.at

FreeSlots == {i \in PlayerIds : players[i] = NoConn}

FreeEntities == {e \in EntityIds : ~entities[e].active}

Init ==
    /\ life = [p \in Conns |-> "unborn"]
    /\ peer = [p \in Conns |-> NoPeer]
    /\ disconnected = [p \in Conns |-> FALSE]
    /\ named = [p \in Conns |-> FALSE]
    /\ pending = [p \in Conns |-> 0]
    /\ playerId = [p \in Conns |-> 0]
    /\ entityId = [p \in Conns |-> -1]
    /\ queue = {}
    /\ arrivals = 0
    /\ players = [i \in PlayerIds |-> NoConn]
    /\ entities = [e \in EntityIds |-> NoEntity]
    /\ pc = "poll"
    /\ current = [player |-> NoConn, op |-> "gameplay"]
    /\ slot = 0
    /\ freeing = [t \in Threads |-> NoConn]
    /\ netRunning = TRUE

----------------------------------------------------------------------------
(* The transports' callbacks.  An ENet connection is served by the network *)
(* thread at any time, a websocket by the main thread while it polls.      *)

ThreadOf(p) == IF p \in WebConns THEN "main" ELSE "net"

CanServe(t) ==
    /\ freeing[t] = NoConn
    /\ t = "net" => netRunning
    /\ t = "main" => pc = "poll"

\* ENET_EVENT_TYPE_CONNECT and MG_EV_WS_OPEN: ServerPlayer_Create.
Connect(p, e) ==
    /\ CanServe(ThreadOf(p))
    /\ life[p] = "unborn"
    /\ IF p \in WebConns
       THEN e = NoPeer
       ELSE e \in Peers /\ \A q \in Conns : Connected(q) => peer[q] # e
    /\ life' = [life EXCEPT ![p] = "live"]
    /\ peer' = [peer EXCEPT ![p] = e]
    /\ UNCHANGED <<disconnected, named, pending, playerId, entityId, queueVars,
                   worldVars, mainVars, freeing, netRunning>>

\* Mutant: the per-player count forgets the packet just queued.
AcceptedCountLate(p) == IF Queued(p) = {} THEN pending[p] ELSE pending[p] + 1
AcceptedCount(p) == pending[p] + 1

\* ServerNetwork_Receive for a packet of a known opcode and length.
Receive(p, op) ==
    /\ CanServe(ThreadOf(p))
    /\ Connected(p)
    /\ Cardinality(queue) < QueueLimit
    /\ pending[p] < PlayerLimit
    /\ arrivals < MaxArrivals
    /\ queue' = queue \cup {[at |-> arrivals, player |-> p, op |-> op]}
    /\ arrivals' = arrivals + 1
    /\ pending' = [pending EXCEPT ![p] = AcceptedCount(p)]
    /\ UNCHANGED <<life, peer, disconnected, named, playerId, entityId,
                   worldVars, mainVars, freeing, netRunning>>

\* Mutant: the packets of the leaving player stay in the queue.
PurgedNothing(p) == queue
Purged(p) == queue \ Queued(p)

\* Mutant: the thread frees the player although a handler still holds it.
OrphanedWhenUnnamed(p, count) == ~named[p]
Orphaned(p, count) == ~named[p] /\ count = 0

\* ServerNetwork_Disconnect: the critical section, and the decision to free.
Disconnect(p) ==
    LET t     == ThreadOf(p)
        count == Lowered(pending[p], Cardinality(Queued(p)))
    IN  /\ CanServe(t)
        /\ Connected(p)
        /\ disconnected' = [disconnected EXCEPT ![p] = TRUE]
        /\ queue' = Purged(p)
        /\ pending' = [pending EXCEPT ![p] = count]
        /\ freeing' = [freeing EXCEPT ![t] = IF Orphaned(p, count) THEN p ELSE NoConn]
        /\ UNCHANGED <<life, peer, named, playerId, entityId, arrivals,
                       worldVars, mainVars, netRunning>>

\* ServerPlayer_Destroy, called after the mutex is released.
Destroy(t) ==
    /\ freeing[t] # NoConn
    /\ life' = [life EXCEPT ![freeing[t]] = "freed"]
    /\ freeing' = [freeing EXCEPT ![t] = NoConn]
    /\ UNCHANGED <<peer, disconnected, named, pending, playerId, entityId,
                   queueVars, worldVars, mainVars, netRunning>>

----------------------------------------------------------------------------
(* ServerNetwork_ProcessIncomingPackets.                                   *)

MainAt(step) == pc = step /\ freeing["main"] = NoConn

StartProcessing ==
    /\ MainAt("poll")
    /\ pc' = "process"
    /\ UNCHANGED <<playerVars, queueVars, worldVars, current, slot, freeing, netRunning>>

TakePacket(m) ==
    /\ MainAt("process")
    /\ IsOldest(m)
    /\ current' = [player |-> m.player, op |-> m.op]
    /\ queue' = queue \ {m}
    /\ pc' = "check"
    /\ UNCHANGED <<playerVars, arrivals, worldVars, slot, freeing, netRunning>>

QueueDrained ==
    /\ MainAt("process")
    /\ queue = {}
    /\ pc' = "update"
    /\ slot' = 0
    /\ UNCHANGED <<playerVars, queueVars, worldVars, current, freeing, netRunning>>

\* Mutant: the opcode is dispatched whatever the player's state.
AdmittedAnyway(p, op) == ~disconnected[p]
Admitted(p, op) == ~disconnected[p] /\ (op # "gameplay" \/ entityId[p] >= 0)

\* The unlocked look at the player that decides whether the handler runs.
CheckPacket ==
    /\ MainAt("check")
    /\ pc' = IF Admitted(current.player, current.op) THEN "handle" ELSE "finish"
    /\ UNCHANGED <<playerVars, queueVars, worldVars, current, slot, freeing, netRunning>>

\* ServerPacket_HandleIdentification up to the call of ServerWorld_AddPlayer.
HandleIdentification ==
    LET p == current.player
    IN  /\ MainAt("handle")
        /\ current.op # "gameplay"
        /\ \/ /\ named[p] \/ current.op = "identify_outdated"
              /\ pc' = "finish"
              /\ UNCHANGED named
           \/ /\ ~named[p] /\ current.op = "identify"
              /\ pc' = "join"
              /\ named' = [named EXCEPT ![p] = TRUE]
        /\ UNCHANGED <<life, peer, disconnected, pending, playerId, entityId,
                       queueVars, worldVars, current, slot, freeing, netRunning>>

\* The other handlers: what they change belongs to the world.
HandleGameplay ==
    /\ MainAt("handle")
    /\ current.op = "gameplay"
    /\ pc' = "finish"
    /\ UNCHANGED <<playerVars, queueVars, worldVars, current, slot, freeing, netRunning>>

\* ServerWorld_AddPlayer: the first empty slot and the first idle entity.
Join(i, e) ==
    LET p == current.player
    IN  /\ MainAt("join")
        /\ IsLeast(i, FreeSlots)
        /\ IsLeast(e, FreeEntities)
        /\ entities' = [entities EXCEPT
               ![e] = [active |-> TRUE, pendingRemoval |-> FALSE, owner |-> i]]
        /\ players' = [players EXCEPT ![i] = p]
        /\ playerId' = [playerId EXCEPT ![p] = i]
        /\ entityId' = [entityId EXCEPT ![p] = e]
        /\ pc' = "finish"
        /\ UNCHANGED <<life, peer, disconnected, named, pending, queueVars,
                       current, slot, freeing, netRunning>>

Refused(p) == [named EXCEPT ![p] = FALSE]

\* "World is full": the name is given back and the player may try again.
RefuseJoin ==
    /\ MainAt("join")
    /\ FreeSlots = {} \/ FreeEntities = {}
    /\ named' = Refused(current.player)
    /\ pc' = "finish"
    /\ UNCHANGED <<life, peer, disconnected, pending, playerId, entityId,
                   queueVars, worldVars, current, slot, freeing, netRunning>>

\* Mutant: nobody frees the unidentified player a handler was holding.
NeverReleased(p, count) == FALSE
Released(p, count) == disconnected[p] /\ ~named[p] /\ count = 0

\* The second critical section of a packet: account for it.
FinishPacket ==
    LET p     == current.player
        count == Lowered(pending[p], 1)
    IN  /\ MainAt("finish")
        /\ pending' = [pending EXCEPT ![p] = count]
        /\ freeing' = [freeing EXCEPT !["main"] = IF Released(p, count) THEN p ELSE NoConn]
        /\ current' = [player |-> NoConn, op |-> "gameplay"]
        /\ pc' = "process"
        /\ UNCHANGED <<life, peer, disconnected, named, playerId, entityId,
                       queueVars, worldVars, slot, netRunning>>

----------------------------------------------------------------------------
(* ServerWorld_Update, as far as players and their entities go.            *)

EntityRetired(p) ==
    [entities EXCEPT ![entityId[p]].pendingRemoval = TRUE]

\* Mutant: a player with nothing queued is taken for one that left.
ReadyWhenIdle(p) == pending[p] = 0
\* ServerNetwork_PlayerReadyForRemoval
ReadyForRemoval(p) == disconnected[p] /\ pending[p] = 0

\* Mutant: the scan stops before the last slot.
SlotsVisitedShort == MaxPlayers - 1
SlotsVisited == MaxPlayers

\* One turn of the loop of ServerPlayerManager_Update, with ServerWorld_RemovePlayer.
VisitSlot ==
    /\ MainAt("update")
    /\ slot < SlotsVisited
    /\ IF players[slot] # NoConn /\ ReadyForRemoval(players[slot])
       THEN /\ players' = [players EXCEPT ![slot] = NoConn]
            /\ entities' = EntityRetired(players[slot])
            /\ life' = [life EXCEPT ![players[slot]] = "freed"]
       ELSE UNCHANGED <<life, worldVars>>
    /\ slot' = slot + 1
    /\ UNCHANGED <<peer, disconnected, named, pending, playerId, entityId,
                   queueVars, pc, current, freeing, netRunning>>

SlotsDone ==
    /\ MainAt("update")
    /\ slot >= SlotsVisited
    /\ pc' = "entities"
    /\ UNCHANGED <<playerVars, queueVars, worldVars, current, slot, freeing, netRunning>>

\* ServerEntities_Update, which runs only when the clock has moved.
UpdateEntities(clockMoved) ==
    /\ MainAt("entities")
    /\ entities' = IF clockMoved
                   THEN [e \in EntityIds |->
                            IF entities[e].active /\ entities[e].pendingRemoval
                            THEN [entities[e] EXCEPT !.active = FALSE]
                            ELSE entities[e]]
                   ELSE entities
    /\ pc' = "poll"
    /\ UNCHANGED <<playerVars, queueVars, players, current, slot, freeing, netRunning>>

----------------------------------------------------------------------------
(* Shutdown (main): stop the network thread, drop the queue, empty the     *)
(* world.                                                                  *)

RequestStop ==
    /\ MainAt("poll")
    /\ pc' = "joining"
    /\ UNCHANGED <<playerVars, queueVars, worldVars, current, slot, freeing, netRunning>>

\* Server_Do leaves its loop once the state is -1.
NetworkThreadReturns ==
    /\ pc = "joining"
    /\ netRunning
    /\ freeing["net"] = NoConn
    /\ netRunning' = FALSE
    /\ UNCHANGED <<playerVars, queueVars, worldVars, mainVars, freeing>>

\* pthread_join returned; ServerNetwork_Shutdown.
NetworkShutdown ==
    /\ MainAt("joining")
    /\ ~netRunning
    /\ queue' = {}
    /\ pending' = [p \in Conns |-> Lowered(pending[p], Cardinality(Queued(p)))]
    /\ pc' = "worldDown"
    /\ UNCHANGED <<life, peer, disconnected, named, playerId, entityId, arrivals,
                   worldVars, current, slot, freeing, netRunning>>

\* ServerPlayerManager_Shutdown and ServerEntities_Shutdown.
WorldShutdown ==
    /\ MainAt("worldDown")
    /\ life' = [p \in Conns |-> IF \E i \in PlayerIds : players[i] = p
                                THEN "freed" ELSE life[p]]
    /\ players' = [i \in PlayerIds |-> NoConn]
    /\ entities' = [e \in EntityIds |-> [entities[e] EXCEPT !.active = FALSE]]
    /\ pc' = "stopped"
    /\ UNCHANGED <<peer, disconnected, named, pending, playerId, entityId,
                   queueVars, current, slot, freeing, netRunning>>

\* The process has exited.
Terminated == pc = "stopped" /\ UNCHANGED vars

Transport ==
    \/ \E p \in Conns, e \in Peers \cup {NoPeer} : Connect(p, e)
    \/ \E p \in Conns, op \in Ops : Receive(p, op)
    \/ \E p \in Conns : Disconnect(p)

MainLoop ==
    \/ StartProcessing
    \/ \E m \in queue : TakePacket(m)
    \/ QueueDrained
    \/ CheckPacket
    \/ HandleIdentification
    \/ HandleGameplay
    \/ \E i \in PlayerIds, e \in EntityIds : Join(i, e)
    \/ RefuseJoin
    \/ FinishPacket
    \/ VisitSlot
    \/ SlotsDone
    \/ \E clockMoved \in BOOLEAN : UpdateEntities(clockMoved)
    \/ NetworkShutdown
    \/ WorldShutdown

Next ==
    \/ Transport
    \/ \E t \in Threads : Destroy(t)
    \/ MainLoop
    \/ RequestStop
    \/ NetworkThreadReturns
    \/ Terminated

\* The main loop and the network thread keep running; nothing makes a client
\* connect, send or leave, and nobody has to stop the server.
Fairness ==
    /\ WF_vars(MainLoop)
    /\ \A t \in Threads : WF_vars(Destroy(t))
    /\ WF_vars(NetworkThreadReturns)

Spec == Init /\ [][Next]_vars /\ Fairness

----------------------------------------------------------------------------
(* Properties.                                                             *)

TypeOK ==
    /\ life \in [Conns -> {"unborn", "live", "freed"}]
    /\ peer \in [Conns -> Peers \cup {NoPeer}]
    /\ disconnected \in [Conns -> BOOLEAN]
    /\ named \in [Conns -> BOOLEAN]
    /\ pending \in [Conns -> Nat]
    /\ playerId \in [Conns -> Nat]
    /\ entityId \in [Conns -> EntityIds \cup {-1}]
    /\ queue \in SUBSET Packets
    /\ arrivals \in Nat
    /\ players \in [PlayerIds -> Conns \cup {NoConn}]
    /\ entities \in [EntityIds ->
           [active : BOOLEAN, pendingRemoval : BOOLEAN, owner : Nat]]
    /\ pc \in MainSteps
    /\ current \in [player : Conns \cup {NoConn}, op : Ops]
    /\ slot \in Nat
    /\ freeing \in [Threads -> Conns \cup {NoConn}]
    /\ netRunning \in BOOLEAN

Seated(p) == \E i \in PlayerIds : players[i] = p

\* Player.pendingPackets counts exactly the queued packets of a player plus the
\* one being handled: an undercount would free a player under its handler, an
\* overcount would keep a disconnected player in the world for ever.
PendingIsExact ==
    \A p \in Conns : life[p] = "live" =>
        pending[p] = Cardinality(Queued(p)) + InFlight(p)

\* No pointer to a freed Player survives in the queue, in the packet being
\* handled, in the world's slots or in a thread about to free it, and no two
\* threads are about to free the same one.
NoDanglingPlayer ==
    /\ \A m \in queue : life[m.player] = "live"
    /\ Serving => life[current.player] = "live"
    /\ \A i \in PlayerIds : players[i] # NoConn => life[players[i]] = "live"
    /\ \A t \in Threads : freeing[t] # NoConn =>
           /\ life[freeing[t]] = "live"
           /\ ~Seated(freeing[t])
           /\ Serving => current.player # freeing[t]
           /\ \A u \in Threads : freeing[u] = freeing[t] => u = t

\* A seat in serverWorld.players, the player's id, its name and its entity
\* agree, through joins, refusals, removals and the entity's delayed death: a
\* live player outside its own join has a name exactly when it has a seat.
SeatsAgree ==
    /\ \A i \in PlayerIds : players[i] # NoConn =>
           LET p == players[i] IN
           /\ playerId[p] = i
           /\ named[p]
           /\ entityId[p] \in EntityIds
           /\ entities[entityId[p]] =
                  [active |-> TRUE, pendingRemoval |-> FALSE, owner |-> i]
    /\ \A p \in Conns :
           (life[p] = "live" /\ named[p]) =>
               Seated(p) \/ (pc = "join" /\ current.player = p)

\* An entity no player sits behind is already marked for removal: none is
\* left standing in the world for the clients to see after its player left.
NoOrphanEntity ==
    \A e \in EntityIds : entities[e].active /\ ~entities[e].pendingRemoval =>
        \E i \in PlayerIds : players[i] # NoConn /\ entityId[players[i]] = e

\* A gameplay handler dereferences the player's name, seat and entity: it runs
\* only for a player that has them, even if it disconnects under the handler.
GameplayHasSeat ==
    (pc = "handle" /\ current.op = "gameplay") =>
        /\ Seated(current.player)
        /\ named[current.player]

\* A packet addressed to a seated player is queued by its ENet peer, which ENet
\* hands to another client once the first is gone.  Two seated players may
\* share a peer only until the next ServerPlayerManager_Update: at the top of
\* the main loop every ENet peer belongs to one seated player at most.
PeersDistinctAtLoopTop ==
    pc = "poll" =>
        \A i, j \in PlayerIds :
            /\ i # j
            /\ players[i] # NoConn /\ players[j] # NoConn
            /\ peer[players[i]] # NoPeer
            => peer[players[i]] # peer[players[j]]

\* A player that disconnected is eventually freed, whichever thread noticed
\* and whatever it was doing: nothing is left in memory or in the world.
DisconnectedIsFreed ==
    \A p \in Conns : disconnected[p] ~> life[p] = "freed"

----------------------------------------------------------------------------
(* Refinement: the connection's promise, read off the server's state.      *)

Phase(p) ==
    CASE life[p] = "unborn" -> "absent"
      [] life[p] = "freed"  -> "closed"
      [] life[p] = "live" /\ Seated(p)  -> "seated"
      [] life[p] = "live" /\ ~Seated(p) -> "open"

Lifecycle == INSTANCE PlayerLifecycle WITH
    Seats  <- PlayerIds,
    NoSeat <- -1,
    phase  <- [p \in Conns |-> Phase(p)],
    seat   <- [p \in Conns |-> IF Seated(p) THEN playerId[p] ELSE -1],
    gone   <- disconnected,
    down   <- pc = "stopped"

\* Two threads, a queue and a seat table together keep PlayerLifecycle's
\* promise: a connection is opened once, holds at most one seat that nobody
\* else holds, is closed once, and only after it hung up or at shutdown.
ImplementsLifecycle == Lifecycle!Spec

----------------------------------------------------------------------------
(* The inductive invariant: the properties above and what keeps them true. *)

\* Arrival numbers in the queue are in the past, hence distinct.
QueueNumbered ==
    /\ IsFiniteSet(queue)
    /\ \A m \in queue : m.at < arrivals

\* A disconnected player has nothing queued: Disconnect purges it and Receive
\* refuses it.
DisconnectedHasNoQueue == \A m \in queue : ~disconnected[m.player]

\* Only disconnected players without a name are about to be freed by a thread.
FreeingIsOrphan ==
    \A t \in Threads : freeing[t] # NoConn =>
        disconnected[freeing[t]] /\ ~named[freeing[t]]

\* Nothing is known of a player before its connection.
UnbornIsBlank ==
    \A p \in Conns : life[p] = "unborn" =>
        ~disconnected[p] /\ ~named[p] /\ pending[p] = 0 /\ entityId[p] = -1

\* Outside its own handler a live player has an entity exactly when seated; in
\* "join" it has none yet.
EntityIffSeated ==
    \A p \in Conns : life[p] = "live" /\ entityId[p] >= 0 => Seated(p)

\* What the main thread's position says of its variables.
MainPosition ==
    /\ Serving => current.player \in Conns
    /\ freeing["main"] # NoConn => pc \in {"poll", "process"}
    /\ pc = "join" => named[current.player] /\ ~Seated(current.player)
    /\ pc \in {"worldDown", "stopped"} =>
           queue = {} /\ ~netRunning
    /\ ~netRunning => freeing["net"] = NoConn

\* ENet gives a peer slot to one connection at a time.
PeersOfConnected ==
    \A p, q \in Conns :
        Connected(p) /\ Connected(q) /\ peer[p] = peer[q] /\ peer[p] # NoPeer => p = q

\* The seats below it have been visited since the last join.
FirstUncleared ==
    IF pc = "update" THEN slot
    ELSE IF pc \in {"entities", "poll"} THEN MaxPlayers ELSE 0

\* Of two seats on one peer, one is held by a disconnected player, and
\* ServerPlayerManager_Update has not come to it yet.
PeersCleared ==
    \A i, j \in PlayerIds :
        /\ i # j
        /\ players[i] # NoConn /\ players[j] # NoConn
        /\ peer[players[i]] = peer[players[j]] /\ peer[players[i]] # NoPeer
        => \/ i >= FirstUncleared /\ disconnected[players[i]]
           \/ j >= FirstUncleared /\ disconnected[players[j]]

\* The inductive invariant of the session: with it every step of either thread
\* keeps the player count, the pointers and the seats right.
SessionInvariant ==
    /\ TypeOK
    /\ QueueNumbered
    /\ PendingIsExact
    /\ NoDanglingPlayer
    /\ DisconnectedHasNoQueue
    /\ FreeingIsOrphan
    /\ UnbornIsBlank
    /\ SeatsAgree
    /\ NoOrphanEntity
    /\ EntityIffSeated
    /\ MainPosition
    /\ GameplayHasSeat
    /\ PeersOfConnected
    /\ PeersCleared

=============================================================================
