---------------------------- MODULE ClientSession ----------------------------
(***************************************************************************)
(* The client from the login screen to the next one, or to the end of the  *)
(* process.  Three kinds of threads share its connection state:            *)
(*                                                                         *)
(*   main       a frame at a time: packets, the player, the buttons;       *)
(*   network    one per login (Client_Do): fills the two queues, and may   *)
(*              learn that the server hung up;                             *)
(*   local      the thread of the built-in server, in place of a remote    *)
(*              one: fills the same queues.                                *)
(*                                                                         *)
(* Anybody may request a disconnect; only the main thread carries it out,  *)
(* at the start of a frame.  A session is one login or one start of the    *)
(* local server.  Of the world only one chunk is modelled, with the        *)
(* session it came from and whether it was edited; of the definitions of   *)
(* blocks, models and textures, the session they came from.                *)
(***************************************************************************)
EXTENDS Integers, Sequences, SequencesExt, FiniteSets

CONSTANTS
    Kinds,        \* the kinds of packets servers send
    MaxSessions,  \* bound of the model: logins and local games
    MaxArrivals,  \* bound of the model: packets the queues ever accept
    FrameLimit,   \* maxPacketsPerFrame
    TextureLimit, \* TEXTURE_MAX_BYTES, in packets
    Overlap       \* may a session begin before the last one is wound up

TerrainKinds == {"mapinit", "load", "unload", "setblock"}

ASSUME ClientAssumption ==
    /\ Kinds \subseteq TerrainKinds \cup {"texture", "other"}
    /\ MaxSessions \in Nat /\ MaxArrivals \in Nat /\ TextureLimit \in Nat
    /\ FrameLimit \in Nat \ {0}
    /\ Overlap \in BOOLEAN

VARIABLES
    screen,       \* currentScreen; "closing" once the loop of main() was left
    connected,    \* networkConnectedToServer
    threadState,  \* networkThreadState: "run" is 0, "end" is -1
    sendTo,       \* networkClientSend
    stop,         \* disconnectPending
    accepting,    \* acceptingIncoming
    queue,        \* queuedData and terrainQueuedData
    textureBytes, \* queuedTextureBytes
    outbox,       \* clientOutgoingPackets
    reset,        \* resetDefinitionsPending
    defined,      \* the session whose definitions the client has, or 0
    hand,         \* the packets the main thread took for this frame
    running,      \* the packet whose handler is about to run
    executed,     \* terrain packets run in this frame
    step,         \* where the main thread is
    net,          \* the network threads, by session
    local,        \* the local server's thread
    latest,       \* the session last begun
    chunk,        \* world.chunks
    arrivals,     \* history: how many packets were accepted
    last,         \* history: per queue, the packet last taken out of hand
    saved,        \* history: sessions whose chunks the client wrote to disk
    greeted,      \* history: the session a remote server last identified
    strayed       \* history: sessions of which another server acted on a packet

flagVars  == <<connected, threadState, sendTo, stop, accepting>>
queueVars == <<queue, textureBytes, arrivals>>
handVars  == <<hand, running, executed, last>>
worldVars == <<chunk, saved>>
sendVars  == <<outbox, greeted, strayed>>
talkVars  == <<sendVars, reset, defined>>
vars == <<screen, flagVars, queueVars, handVars, step, net, local, latest, worldVars,
          talkVars>>

Sessions == 1 .. MaxSessions
Queues   == {"gameplay", "terrain"}
QueueOf(kind) == IF kind \in TerrainKinds THEN "terrain" ELSE "gameplay"
NoPacket == [of |-> 0, no |-> 0, kind |-> "none"]
NoChunk  == [of |-> 0, modified |-> FALSE]
Empty    == [q \in Queues |-> <<>>]
IsTexture(m) == m.kind = "texture"

Init ==
    /\ screen = "login" /\ connected = FALSE /\ threadState = "run" /\ sendTo = "nobody"
    /\ stop = FALSE /\ accepting = FALSE
    /\ queue = Empty /\ textureBytes = 0 /\ arrivals = 0
    /\ hand = Empty /\ running = NoPacket /\ executed = 0 /\ last = [q \in Queues |-> 0]
    /\ step = "frame"
    /\ net = [s \in Sessions |-> "unborn"] /\ local = "none" /\ latest = 0
    /\ chunk = NoChunk /\ saved = {}
    /\ outbox = <<>> /\ greeted = 0 /\ strayed = {}
    /\ reset = FALSE /\ defined = 0

----------------------------------------------------------------------------
(* What several threads call.                                              *)

\* Client_Send; of equal packets in a row the last one stands for all.
Queued(m) == IF outbox # <<>> /\ Last(outbox) = m THEN outbox ELSE Append(outbox, m)

\* Network_Send by the main thread; the local server takes it at once.
Sent ==
    outbox' = IF connected /\ sendTo = "remote"
              THEN Queued([of |-> latest, kind |-> "play"]) ELSE outbox

\* Mutant: packets are accepted until the main thread has seen the request.
RequestedLate ==
    /\ stop' = TRUE /\ threadState' = "end"
    /\ UNCHANGED accepting

\* Network_Disconnect
Requested ==
    /\ stop' = TRUE /\ accepting' = FALSE /\ threadState' = "end"

\* Network_Receive, of a packet of session s.
Accept(s, kind) ==
    LET q == QueueOf(kind)
        full == kind = "texture" /\ textureBytes >= TextureLimit
    IN  /\ arrivals < MaxArrivals
        /\ accepting /\ ~stop /\ ~full
        /\ queue' = [queue EXCEPT
               ![q] = Append(@, [of |-> s, no |-> arrivals + 1, kind |-> kind])]
        /\ textureBytes' = IF kind = "texture" THEN textureBytes + 1 ELSE textureBytes
        /\ arrivals' = arrivals + 1

\* Mutant: the terrain packets stay.
PurgedGameplay == queue' = [queue EXCEPT !["gameplay"] = <<>>] /\ textureBytes' = 0

\* Network_ClearQueue
Purged == queue' = Empty /\ textureBytes' = 0

\* World_RemoveChunk, of the chunk there is: Chunk_SaveFile writes nothing
\* while connected.
ChunkRemoved ==
    /\ chunk' = NoChunk
    /\ saved' = IF chunk.modified /\ ~connected THEN saved \cup {chunk.of} ELSE saved

----------------------------------------------------------------------------
(* The network threads.                                                    *)

Alive == {s \in Sessions : net[s] \notin {"unborn", "gone"}}

\* Client_Do up to Network_Init.
NetStarts(s) ==
    /\ net[s] = "created"
    /\ sendTo' = "remote"
    /\ accepting' = TRUE
    /\ net' = [net EXCEPT ![s] = "connecting"]
    /\ UNCHANGED <<screen, connected, threadState, stop, queueVars, handVars, step, local,
                   latest, worldVars, talkVars>>

\* Network_Connect.
NetConnects(s) ==
    /\ net[s] = "connecting"
    /\ connected' = TRUE
    /\ stop' = FALSE
    /\ accepting' = TRUE
    /\ reset' = TRUE
    /\ outbox' = Queued([of |-> s, kind |-> "identification"])
    /\ net' = [net EXCEPT ![s] = "up"]
    /\ UNCHANGED <<screen, threadState, sendTo, queueVars, handVars, step, local, latest,
                   worldVars, greeted, strayed, defined>>

\* A server heeds nobody before the identification.
Heeded(s) ==
    LET Greeting(i) == outbox[i] = [of |-> s, kind |-> "identification"]
    IN  {i \in DOMAIN outbox : /\ outbox[i].kind = "play"
                               /\ greeted = s \/ \E j \in 1 .. (i - 1) : Greeting(j)}

\* Client_FlushOutgoing; a peer that hung up gets nothing.
NetFlushes(s) ==
    /\ net[s] \in {"up", "lost"}
    /\ outbox # <<>>
    /\ outbox' = <<>>
    /\ IF net[s] = "lost" THEN UNCHANGED <<greeted, strayed>>
       ELSE /\ strayed' = strayed \cup ({outbox[i].of : i \in Heeded(s)} \ {s})
            /\ greeted' = IF \E i \in DOMAIN outbox : outbox[i].kind = "identification"
                          THEN s ELSE greeted
    /\ UNCHANGED <<screen, flagVars, queueVars, handVars, step, net, local, latest, worldVars,
                   reset, defined>>

\* No connection within CLIENT_TIMEOUT.
NetFails(s) ==
    /\ net[s] = "connecting"
    /\ Requested
    /\ net' = [net EXCEPT ![s] = "gone"]
    /\ UNCHANGED <<screen, connected, sendTo, queueVars, handVars, step, local, latest,
                   worldVars, talkVars>>

NetReceives(s, kind) ==
    /\ net[s] = "up"
    /\ Accept(s, kind)
    /\ UNCHANGED <<screen, flagVars, handVars, step, net, local, latest, worldVars, talkVars>>

\* The server hung up or timed out.
NetLosesPeer(s) ==
    /\ net[s] = "up"
    /\ Requested
    /\ net' = [net EXCEPT ![s] = "lost"]
    /\ UNCHANGED <<screen, connected, sendTo, queueVars, handVars, step, local, latest,
                   worldVars, talkVars>>

\* The loop of Client_Do finds *state = -1.
NetLeaves(s) ==
    /\ net[s] \in {"up", "lost"}
    /\ threadState = "end"
    /\ net' = [net EXCEPT ![s] = "leaving"]
    /\ UNCHANGED <<screen, flagVars, queueVars, handVars, step, local, latest, worldVars,
                   talkVars>>

\* Client_ClearOutgoing
NetClears(s) ==
    /\ net[s] = "leaving"
    /\ outbox' = <<>>
    /\ net' = [net EXCEPT ![s] = "cleared"]
    /\ UNCHANGED <<screen, flagVars, queueVars, handVars, step, local, latest, worldVars, greeted,
                   strayed, reset, defined>>

\* The last two assignments of Client_Do.
Parted == threadState' = "run" /\ connected' = FALSE

NetEnds(s) ==
    /\ net[s] = "cleared"
    /\ Parted
    /\ net' = [net EXCEPT ![s] = "gone"]
    /\ UNCHANGED <<screen, sendTo, stop, accepting, queueVars, handVars, step, local, latest,
                   worldVars, talkVars>>

NetStep(s) ==
    \/ NetStarts(s) \/ NetConnects(s) \/ NetFails(s) \/ NetLosesPeer(s)
    \/ NetFlushes(s) \/ NetLeaves(s) \/ NetClears(s) \/ NetEnds(s)
    \/ \E kind \in Kinds : NetReceives(s, kind)

----------------------------------------------------------------------------
(* The thread of the local server: its Server_Send is Network_Receive.     *)

LocalSends(kind) ==
    /\ local \in {"running", "told"}
    /\ Accept(latest, kind)
    /\ UNCHANGED <<screen, flagVars, handVars, step, net, local, latest, worldVars, talkVars>>

LocalEnds ==
    /\ local = "told"
    /\ local' = "ended"
    /\ UNCHANGED <<screen, flagVars, queueVars, handVars, step, net, latest, worldVars,
                   talkVars>>

----------------------------------------------------------------------------
(* The main thread: Network_ProcessIncomingPackets.                        *)

\* Its first critical section, and the reset of the definitions after it.
StartFrame ==
    /\ step = "frame"
    /\ stop' = FALSE
    /\ reset' = FALSE
    /\ defined' = IF reset /\ ~stop THEN 0 ELSE defined
    /\ step' = IF stop THEN "disconnect" ELSE "take"
    /\ UNCHANGED <<screen, connected, threadState, sendTo, accepting, queueVars, handVars, net,
                   local, latest, worldVars, sendVars>>

AtMost(n, packets) == SubSeq(packets, 1, IF Len(packets) < n THEN Len(packets) ELSE n)

\* Its second one.
TakePackets ==
    /\ step = "take"
    /\ hand' = [q \in Queues |-> AtMost(FrameLimit, queue[q])]
    /\ queue' = [q \in Queues |-> SubSeq(queue[q], Len(hand'[q]) + 1, Len(queue[q]))]
    /\ executed' = 0
    /\ step' = "gameplay"
    /\ UNCHANGED <<screen, flagVars, textureBytes, arrivals, running, last, net, local, latest,
                   worldVars, talkVars>>

\* queuedTextureBytes without a packet that leaves the hand.
Uncounted(m) ==
    IF IsTexture(m) /\ textureBytes > 0 THEN textureBytes - 1 ELSE textureBytes

\* Network_ExecutePacket up to its unlock: a packet is dropped once a
\* disconnect was requested.
Execute(q) ==
    LET m == Head(hand[q])
    IN  /\ hand[q] # <<>>
        /\ textureBytes' = Uncounted(m)
        /\ hand' = [hand EXCEPT ![q] = Tail(@)]
        /\ last' = [last EXCEPT ![q] = m.no]
        /\ running' = IF stop THEN NoPacket ELSE m
        /\ UNCHANGED <<screen, flagVars, queue, arrivals, net, local, latest, worldVars,
                       talkVars>>

ExecuteGameplay ==
    /\ step = "gameplay" /\ running = NoPacket
    /\ Execute("gameplay")
    /\ UNCHANGED <<executed, step>>

GameplayDone ==
    /\ step = "gameplay" /\ running = NoPacket /\ hand["gameplay"] = <<>>
    /\ step' = "terrain"
    /\ UNCHANGED <<screen, flagVars, queueVars, handVars, net, local, latest, worldVars,
                   talkVars>>

ExecuteTerrain ==
    /\ step = "terrain" /\ running = NoPacket
    /\ Execute("terrain")
    /\ executed' = executed + 1
    /\ UNCHANGED step

Handled == running' = NoPacket /\ UNCHANGED <<hand, executed, last, step, net, local, latest>>

\* Packet_HandleMapInit with the right version: World_LoadMultiplayer.
HandleMapInit ==
    /\ running.kind = "mapinit"
    /\ screen' = "game"
    /\ Handled
    /\ UNCHANGED <<flagVars, queueVars, worldVars, talkVars>>

\* Packet_HandleMapInit with another one; the packet does not tell the two apart
\* before it is handled.
HandleBadInit ==
    /\ running.kind = "mapinit"
    /\ Requested
    /\ Handled
    /\ UNCHANGED <<screen, connected, sendTo, queueVars, worldVars, talkVars>>

\* Packet_HandleLoadChunk: a chunk that is there keeps its flags.
HandleLoadChunk ==
    /\ running.kind = "load"
    /\ chunk' = IF chunk = NoChunk THEN [of |-> running.of, modified |-> FALSE] ELSE chunk
    /\ Handled
    /\ UNCHANGED <<screen, flagVars, queueVars, saved, talkVars>>

HandleUnloadChunk ==
    /\ running.kind = "unload"
    /\ ChunkRemoved
    /\ Handled
    /\ UNCHANGED <<screen, flagVars, queueVars, talkVars>>

\* Packet_HandleSetBlock and its batches: a chunk that has its light is
\* marked like one the player edited.
HandleSetBlock ==
    /\ running.kind = "setblock"
    /\ \/ UNCHANGED chunk
       \/ chunk # NoChunk /\ chunk' = [chunk EXCEPT !.modified = TRUE]
    /\ Handled
    /\ UNCHANGED <<screen, flagVars, queueVars, saved, talkVars>>

\* ClientTextures_HandleData, which acknowledges; a block or a model is defined
\* in the same way.
HandleTexture ==
    /\ running.kind = "texture"
    /\ defined' = running.of
    /\ Sent
    /\ Handled
    /\ UNCHANGED <<screen, flagVars, queueVars, worldVars, greeted, strayed, reset>>

HandleOther ==
    /\ running.kind = "other"
    /\ Handled
    /\ UNCHANGED <<screen, flagVars, queueVars, worldVars, talkVars>>

Handle ==
    \/ HandleMapInit \/ HandleBadInit \/ HandleLoadChunk \/ HandleUnloadChunk
    \/ HandleSetBlock \/ HandleTexture \/ HandleOther

\* Mutant: what the frame had no time for goes behind what came meanwhile.
PutBehind == queue["terrain"] \o hand["terrain"]

\* terrainQueuedData with the packets the frame had no time for.
PutBack == hand["terrain"] \o queue["terrain"]

\* The loop ends with the last packet or, after one at least, by the clock.
TerrainDone ==
    /\ step = "terrain" /\ running = NoPacket
    /\ hand["terrain"] = <<>> \/ executed > 0
    /\ queue' = [queue EXCEPT !["terrain"] = PutBack]
    /\ hand' = [hand EXCEPT !["terrain"] = <<>>]
    /\ step' = "play"
    /\ UNCHANGED <<screen, flagVars, textureBytes, arrivals, running, executed, last, net, local,
                   latest, worldVars, talkVars>>

----------------------------------------------------------------------------
(* The main thread: Network_PerformDisconnect and LocalServer_Stop.        *)

\* Mutant: the chunks stay as they are.
EditsKept == UNCHANGED chunk

\* Mutant: the thread is joined but not told.
NotTold == UNCHANGED local

\* LocalServer_SetRunning(false).
Told == local' = "told"

\* The first line of Network_PerformDisconnect.
EditsForgotten == chunk' = [chunk EXCEPT !.modified = FALSE]

StartDisconnect ==
    /\ step = "disconnect"
    /\ EditsForgotten
    /\ IF local = "running" THEN Told /\ step' = "join"
                            ELSE UNCHANGED local /\ step' = "clear"
    /\ UNCHANGED <<screen, flagVars, queueVars, handVars, net, latest, saved, talkVars>>

\* LocalServer_Stop after its pthread_join: World_Clear, Network_ClearQueue.
JoinLocal ==
    /\ step = "join"
    /\ local = "ended"
    /\ local' = "none"
    /\ ChunkRemoved
    /\ Purged
    /\ connected' = FALSE
    /\ step' = IF screen = "closing" THEN "shutdown" ELSE "part"
    /\ UNCHANGED <<screen, threadState, sendTo, stop, accepting, arrivals, handVars, net, latest,
                   talkVars>>

\* Screen_Switch(SCREEN_LOGIN) and World_Clear.
ClearWorld ==
    /\ step = "clear"
    /\ screen' = "login"
    /\ ChunkRemoved
    /\ step' = "purge"
    /\ UNCHANGED <<flagVars, queueVars, handVars, net, local, latest, talkVars>>

PurgeQueues ==
    /\ step = "purge"
    /\ Purged
    /\ step' = "part"
    /\ UNCHANGED <<screen, flagVars, arrivals, handVars, net, local, latest, worldVars,
                   talkVars>>

\* The rest of Network_PerformDisconnect.
FinishDisconnect ==
    /\ step = "part"
    /\ screen' = "login"
    /\ defined' = 0
    /\ connected' = FALSE
    /\ threadState' = "end"
    /\ step' = "play"
    /\ UNCHANGED <<sendTo, stop, accepting, queueVars, handVars, net, local, latest, worldVars,
                   sendVars, reset>>

----------------------------------------------------------------------------
(* The main thread: the player and the buttons.                            *)

\* Player_Update: a block of the chunk is broken or placed.
Edit ==
    /\ step = "play" /\ screen = "game" /\ chunk # NoChunk
    /\ chunk' = [chunk EXCEPT !.modified = TRUE]
    /\ Sent
    /\ UNCHANGED <<screen, flagVars, queueVars, handVars, step, net, local, latest, saved,
                   greeted, strayed, reset, defined>>

\* Player_Update sends the position on any screen.
SendPosition ==
    /\ step = "play"
    /\ connected /\ sendTo = "remote"
    /\ Sent
    /\ UNCHANGED <<screen, flagVars, queueVars, handVars, step, net, local, latest, worldVars,
                   greeted, strayed, reset, defined>>

\* World_LoadChunks, which streams the client's own world/ as soon as the flag
\* is down: world.loadChunks is up in the game.
LoadChunks ==
    /\ step = "play" /\ screen = "game" /\ ~connected
    /\ IF chunk = NoChunk THEN /\ chunk' = [of |-> latest, modified |-> FALSE]
                              /\ UNCHANGED saved
                         ELSE ChunkRemoved
    /\ UNCHANGED <<screen, flagVars, queueVars, handVars, step, net, local, latest, talkVars>>

\* Whether the user gives the last session its time: a frame to the main
\* thread for a late request, and to the network thread what it needs to end.
Ready == Overlap \/ (~stop /\ Alive = {})

\* The Login button.
Login ==
    /\ step = "play" /\ screen = "login" /\ latest < MaxSessions /\ Ready
    /\ screen' = "joining"
    /\ threadState' = "run"
    /\ latest' = latest + 1
    /\ net' = [net EXCEPT ![latest + 1] = "created"]
    /\ step' = "frame"
    /\ UNCHANGED <<connected, sendTo, stop, accepting, queueVars, handVars, local, worldVars,
                   talkVars>>

\* The Singleplayer button.
Singleplayer ==
    /\ step = "play" /\ screen = "login" /\ latest < MaxSessions /\ Ready
    /\ screen' = "loading"
    /\ step' = "frame"
    /\ UNCHANGED <<flagVars, queueVars, handVars, net, local, latest, worldVars, talkVars>>

\* Screen_DrawLoading calls LocalServer_Start, which starts one server only
\* and ends with Network_Connect.
StartLocal ==
    /\ step = "play" /\ screen = "loading" /\ local = "none" /\ latest < MaxSessions
    /\ local' = "running"
    /\ latest' = latest + 1
    /\ connected' = TRUE
    /\ sendTo' = "local"
    /\ stop' = FALSE
    /\ accepting' = TRUE
    /\ reset' = TRUE
    /\ step' = "frame"
    /\ UNCHANGED <<screen, threadState, queueVars, handVars, net, worldVars, sendVars, defined>>

\* The Main Menu button.
MainMenu ==
    /\ step = "play" /\ screen = "game"
    /\ IF connected THEN /\ Requested
                         /\ UNCHANGED <<screen, worldVars>>
                    ELSE /\ screen' = "login"
                         /\ ChunkRemoved
                         /\ UNCHANGED <<stop, accepting, threadState>>
    /\ step' = "frame"
    /\ UNCHANGED <<connected, sendTo, queueVars, handVars, net, local, latest, talkVars>>

EndFrame ==
    /\ step = "play"
    /\ step' = "frame"
    /\ UNCHANGED <<screen, flagVars, queueVars, handVars, net, local, latest, worldVars,
                   talkVars>>

\* The window is closed: the loop of main() ends.
Quit ==
    /\ step = "play"
    /\ screen' = "closing"
    /\ threadState' = "end"
    /\ IF local = "running" THEN Told /\ step' = "join"
                            ELSE UNCHANGED local /\ step' = "shutdown"
    /\ UNCHANGED <<connected, sendTo, stop, accepting, queueVars, handVars, net, latest,
                   worldVars, talkVars>>

\* World_Shutdown and the end of the process, whatever the threads do.
Shutdown ==
    /\ step = "shutdown"
    /\ ChunkRemoved
    /\ step' = "exited"
    /\ UNCHANGED <<screen, flagVars, queueVars, handVars, net, local, latest, talkVars>>

----------------------------------------------------------------------------
Processing ==
    \/ StartFrame \/ TakePackets \/ ExecuteGameplay \/ GameplayDone \/ ExecuteTerrain
    \/ Handle \/ TerrainDone
    \/ StartDisconnect \/ JoinLocal \/ ClearWorld \/ PurgeQueues \/ FinishDisconnect

User == Edit \/ SendPosition \/ LoadChunks \/ Login \/ Singleplayer \/ MainMenu \/ Quit

LocalStep == LocalEnds \/ \E kind \in Kinds : LocalSends(kind)

Exited == step = "exited" /\ UNCHANGED vars

Next ==
    \/ /\ step # "exited"
       /\ \/ Processing \/ StartLocal \/ EndFrame \/ Shutdown \/ User
          \/ LocalStep \/ \E s \in Sessions : NetStep(s)
    \/ Exited

\* Threads run; what a user, a server or the network does is up to them, but
\* an attempt to connect ends with CLIENT_TIMEOUT.
Fairness ==
    /\ WF_vars(step # "exited" /\ (Processing \/ StartLocal \/ EndFrame \/ Shutdown))
    /\ WF_vars(step # "exited" /\ LocalEnds)
    /\ \A s \in Sessions :
           WF_vars(step # "exited" /\ (NetStarts(s) \/ NetConnects(s) \/ NetFails(s)
                                       \/ NetLeaves(s) \/ NetClears(s) \/ NetEnds(s)))

Spec == Init /\ [][Next]_vars /\ Fairness

----------------------------------------------------------------------------
(* Properties.                                                             *)

Packets  == [of : Sessions, no : 1 .. MaxArrivals, kind : Kinds]
Messages == [of : Sessions, kind : {"identification", "play"}]

\* The type of every variable.
TypeOK ==
    /\ screen \in {"login", "joining", "loading", "game", "closing"}
    /\ connected \in BOOLEAN /\ threadState \in {"run", "end"}
    /\ sendTo \in {"nobody", "remote", "local"}
    /\ stop \in BOOLEAN /\ accepting \in BOOLEAN
    /\ queue \in [Queues -> Seq(Packets)] /\ hand \in [Queues -> Seq(Packets)]
    /\ textureBytes \in Nat /\ arrivals \in 0 .. MaxArrivals
    /\ running \in Packets \cup {NoPacket}
    /\ executed \in 0 .. FrameLimit
    /\ last \in [Queues -> 0 .. MaxArrivals]
    /\ step \in {"frame", "take", "gameplay", "terrain", "play", "disconnect", "join", "clear",
                 "purge", "part", "shutdown", "exited"}
    /\ net \in [Sessions -> {"unborn", "created", "connecting", "up", "lost", "leaving",
                             "cleared", "gone"}]
    /\ local \in {"none", "running", "told", "ended"}
    /\ latest \in 0 .. MaxSessions
    /\ chunk \in [of : Sessions, modified : BOOLEAN] \cup {NoChunk}
    /\ saved \subseteq Sessions
    /\ outbox \in Seq(Messages)
    /\ reset \in BOOLEAN /\ defined \in 0 .. latest
    /\ greeted \in 0 .. latest /\ strayed \subseteq Sessions

\* What waits to be run, of what the frame took and behind it.
Waiting(q) == hand[q] \o queue[q]

\* The packets of a queue run in the order they arrived in, whatever part of
\* a frame's packets goes back to the queue while more arrive.
QueuesInOrder ==
    \A q \in Queues : \A i \in DOMAIN Waiting(q) :
        /\ last[q] < Waiting(q)[i].no
        /\ \A j \in 1 .. i - 1 : Waiting(q)[j].no < Waiting(q)[i].no

\* queuedTextureBytes counts what is queued or taken and not yet run, through
\* drops, disconnects and cleared queues: the cap never starves a session.
TextureBytesExact ==
    textureBytes = Cardinality({m \in ToSet(Waiting("gameplay")) : IsTexture(m)})

\* Once the login screen is back and no request is pending, nothing of the old
\* session is left to run on it, and nothing more is let in.
LoginIsQuiet ==
    screen = "login" /\ step = "frame" /\ ~stop =>
        /\ queue = Empty /\ chunk = NoChunk
        /\ ~accepting

\* No packet of a session runs, and no chunk or definition of it is shown, in
\* a later one; and a server acts on nothing that was meant for another.
SessionsApart ==
    /\ \A q \in Queues : \A m \in ToSet(Waiting(q)) : m.of = latest
    /\ running # NoPacket => running.of = latest
    /\ chunk # NoChunk => chunk.of = latest
    /\ defined \in {0, latest}
    /\ strayed = {}

\* While the main thread believes itself connected, somebody is there to
\* take what it sends: a network thread, or the local server's player.
SendsHaveAPeer ==
    connected /\ step \in {"gameplay", "terrain", "play"} =>
        IF sendTo = "local" THEN local = "running" ELSE Alive # {}

\* The thread of the session last begun; a local session has none.
Thread == IF latest = 0 THEN "unborn" ELSE net[latest]
NoThread == Thread \in {"unborn", "gone"}

DisconnectSteps == {"disconnect", "join", "clear", "purge", "part"}

\* A disconnect was asked for, is under way or was carried out.
Over == stop \/ step \in DisconnectSteps \/ screen \in {"login", "closing"}

\* Nothing is left of a session, and nothing is let in.
Quiet ==
    /\ queue = Empty /\ hand = Empty /\ running = NoPacket
    /\ chunk = NoChunk /\ defined = 0
    /\ ~accepting /\ ~connected

\* Packets are in hand while they are worked off, of terrain last, and no more
\* than the frame may run.
HandsInStep ==
    /\ step \notin {"gameplay", "terrain"} => hand = Empty /\ running = NoPacket
    /\ step = "terrain" => hand["gameplay"] = <<>>
    /\ executed + Len(hand["terrain"]) <= FrameLimit

\* A packet waits in its queue, and none is newer than the last arrival.
PacketsInPlace ==
    \A q \in Queues : /\ last[q] <= arrivals
                      /\ \A m \in ToSet(Waiting(q)) : QueueOf(m.kind) = q /\ m.no <= arrivals

\* Only the last session may have a thread.
OneThread ==
    \A s \in Sessions : /\ s > latest => net[s] = "unborn"
                        /\ s < latest => net[s] \in {"unborn", "gone"}

\* Until the thread is connected nobody asks for a disconnect, and it ends only
\* if somebody did.
ThreadsInTurn ==
    /\ Thread \in {"created", "connecting"} =>
           /\ ~connected /\ ~stop /\ queue = Empty /\ hand = Empty /\ running = NoPacket
           /\ step \notin DisconnectSteps
           /\ screen = "closing" \/ (screen = "joining" /\ threadState = "run")
    /\ Thread = "up" => Over \/ (connected /\ threadState = "run")
    /\ Thread \in {"lost", "leaving", "cleared"} => Over
    /\ Thread \in {"connecting", "up", "lost", "leaving", "cleared"} => sendTo = "remote"

\* The local server runs while the client plays on it, and is waited for.
LocalInTurn ==
    /\ local # "none" => NoThread /\ sendTo = "local" /\ latest > 0
    /\ local = "running" => /\ connected /\ screen \in {"loading", "game"}
                            /\ step \notin {"clear", "purge", "part"}
    /\ local \in {"told", "ended"} <=> step = "join"

\* Who is connected is so to somebody.
ConnectedToSomebody ==
    connected => IF sendTo = "local" THEN local # "none"
                 ELSE sendTo = "remote" /\ Thread \in {"up", "lost", "leaving", "cleared"}

\* What each screen means for the session.
ScreensInTurn ==
    /\ screen \in {"joining", "game"} => latest > 0
    /\ screen \in {"joining", "game"} =>
           Over \/ local = "running" \/ Thread \in {"created", "connecting", "up"}
    /\ screen = "login" =>
           /\ local = "none"
           /\ Quiet \/ (stop /\ step = "frame") \/ step \in DisconnectSteps
    /\ screen = "loading" /\ local = "none" =>
           step = "part" \/ (Quiet /\ NoThread /\ ~stop)
    /\ screen = "closing" => step \in {"join", "shutdown", "exited"}
    /\ step \in {"shutdown", "exited"} => screen = "closing"

\* After the request nothing is let in, and piece by piece everything goes.
DisconnectsInOrder ==
    /\ stop \/ (step \in DisconnectSteps /\ screen # "closing") => ~accepting
    /\ step \in {"join", "clear"} /\ screen # "closing" => ~chunk.modified
    /\ step \in {"purge", "part"} => chunk = NoChunk
    /\ step = "part" => queue = Empty

\* What is queued for sending behind the identification, or to a server that
\* has it, is of the session; only the thread that identified itself queues one.
OutboxInTurn ==
    /\ \A i \in DOMAIN outbox : outbox[i].kind = "identification" =>
           outbox[i].of = latest /\ Thread \in {"up", "lost", "leaving"}
    /\ \A i \in DOMAIN outbox :
           /\ outbox[i].kind = "play"
           /\ greeted = latest \/ \E j \in 1 .. i - 1 : outbox[j].kind = "identification"
           => outbox[i].of = latest

\* What holds of queues and flags wherever the threads are.
ClientInvariant ==
    /\ TypeOK
    /\ QueuesInOrder
    /\ TextureBytesExact
    /\ SendsHaveAPeer
    /\ HandsInStep
    /\ PacketsInPlace
    /\ OneThread
    /\ ThreadsInTurn
    /\ LocalInTurn
    /\ ConnectedToSomebody
    /\ ScreensInTurn
    /\ DisconnectsInOrder
    /\ OutboxInTurn

Disconnecting == step \in DisconnectSteps /\ screen # "closing"

\* Carrying out a disconnect writes no chunk file, although the network thread
\* may have cleared the flag that keeps Chunk_SaveFile from it.
DisconnectWritesNothing ==
    [][(Disconnecting => saved' = saved)]_vars

\* A disconnect that was asked for happens: the client is back at its login
\* screen, or gone.
DisconnectHappens == stop ~> screen \in {"login", "closing"}

\* "networkThreadState = -1; //End network thread" (Network_PerformDisconnect):
\* a session that is over no longer has a connection of its own when the next
\* one has. The thread looks at the state only when nothing arrived for 5 ms;
\* a login before that sets it back.
OneNetworkThread == Cardinality({s \in Sessions : net[s] = "up"}) <= 1

==============================================================================
