------------------------ MODULE ServerSessionProofs ------------------------
(***************************************************************************)
(* Proofs about ServerSession, for every number of connections, seats,     *)
(* entities and packets: SessionInvariant is inductive.  One lemma per     *)
(* action shows that the action keeps it; then the theorems, and that      *)
(* ServerSession implements PlayerLifecycle.                               *)
(***************************************************************************)
EXTENDS ServerSession, FiniteSetTheorems, TLAPS

USE SessionAssumption DEF Threads, Ops, MainSteps

----------------------------------------------------------------------------
(* Facts about the packet queue.                                           *)

\* The packets of one player are finitely many.
LEMMA QueuedIsFinite ==
    ASSUME IsFiniteSet(queue), NEW p
    PROVE  IsFiniteSet(Queued(p)) /\ Cardinality(Queued(p)) \in Nat
  BY FS_Subset, FS_CardinalityType DEF Queued

\* What SeatsAgree says of one seat.
LEMMA SeatFacts ==
    ASSUME TypeOK, SeatsAgree, NEW i \in PlayerIds, players[i] # NoConn
    PROVE  /\ players[i] \in Conns
           /\ playerId[players[i]] = i
           /\ named[players[i]]
           /\ entityId[players[i]] \in EntityIds
           /\ entities[entityId[players[i]]] =
                  [active |-> TRUE, pendingRemoval |-> FALSE, owner |-> i]
<1>1. players[i] \in Conns
  BY DEF TypeOK
<1> QED
  BY <1>1 DEF SeatsAgree

\* A seated player has a name.
LEMMA SeatedIsNamed ==
    ASSUME TypeOK, SeatsAgree, NEW p \in Conns, Seated(p)
    PROVE  named[p]
<1>1. PICK i \in PlayerIds : players[i] = p
  BY DEF Seated
<1> QED
  BY <1>1, SeatFacts

\* Two seats never hold the same player, nor share an entity.
LEMMA SeatsDistinct ==
    ASSUME TypeOK, SeatsAgree, NEW i \in PlayerIds, NEW j \in PlayerIds,
           players[i] # NoConn, players[j] # NoConn,
           \/ players[i] = players[j]
           \/ entityId[players[i]] = entityId[players[j]]
    PROVE  i = j
<1>1. playerId[players[i]] = i /\ playerId[players[j]] = j
  BY SeatFacts
<1>2. CASE entityId[players[i]] = entityId[players[j]]
  <2>1. [active |-> TRUE, pendingRemoval |-> FALSE, owner |-> i] =
            [active |-> TRUE, pendingRemoval |-> FALSE, owner |-> j]
    BY <1>2, SeatFacts
  <2> QED
    BY <2>1
<1> QED
  BY <1>1, <1>2

\* An entity that ends is still an entity.
LEMMA EntityEnds ==
    ASSUME NEW r \in [active : BOOLEAN, pendingRemoval : BOOLEAN, owner : Nat]
    PROVE  [r EXCEPT !.active = FALSE] \in
               [active : BOOLEAN, pendingRemoval : BOOLEAN, owner : Nat]
  OBVIOUS

\* The server starts with no player, an empty queue and idle tables.
LEMMA InitSession == Init => SessionInvariant
<1> SUFFICES ASSUME Init PROVE SessionInvariant
  OBVIOUS
<1> USE DEF Init
<1>1. TypeOK
  BY DEF TypeOK, Packets, NoEntity
<1>2. QueueNumbered
  BY FS_EmptySet DEF QueueNumbered
<1>3. PendingIsExact
  BY DEF PendingIsExact
<1>4. NoDanglingPlayer
  BY DEF NoDanglingPlayer, Serving
<1>5. DisconnectedHasNoQueue /\ FreeingIsOrphan /\ UnbornIsBlank
  BY DEF DisconnectedHasNoQueue, FreeingIsOrphan, UnbornIsBlank
<1>6. SeatsAgree /\ NoOrphanEntity /\ EntityIffSeated
  BY DEF SeatsAgree, NoOrphanEntity, EntityIffSeated, NoEntity
<1>7. MainPosition /\ GameplayHasSeat
  BY DEF MainPosition, GameplayHasSeat, Serving
<1>8. PeersOfConnected /\ PeersCleared
  BY DEF PeersOfConnected, PeersCleared, FirstUncleared, PlayerIds, Connected
<1> QED
  BY <1>1, <1>2, <1>3, <1>4, <1>5, <1>6, <1>7, <1>8 DEF SessionInvariant

\* The steps that only move the main thread along, or end the network thread.
LEMMA ControlKeeps ==
    ASSUME SessionInvariant,
           \/ StartProcessing \/ QueueDrained \/ SlotsDone
           \/ HandleGameplay \/ RequestStop \/ NetworkThreadReturns
    PROVE  SessionInvariant'
<1> USE DEF SessionInvariant
<1>1. /\ UNCHANGED <<playerVars, queueVars, worldVars, current, freeing>>
      /\ Serving' = Serving
      /\ pc' = pc \/ pc' \in {"process", "update", "finish", "entities", "joining"}
  BY DEF StartProcessing, QueueDrained, SlotsDone, HandleGameplay, RequestStop,
         NetworkThreadReturns, MainAt, mainVars, Serving
<1>2. slot' \in Nat /\ netRunning' \in BOOLEAN
  <2>1. slot' = slot \/ slot' = 0
    BY DEF StartProcessing, QueueDrained, SlotsDone, HandleGameplay, RequestStop,
           NetworkThreadReturns, mainVars
  <2>2. netRunning' = netRunning \/ netRunning' = FALSE
    BY DEF StartProcessing, QueueDrained, SlotsDone, HandleGameplay, RequestStop,
           NetworkThreadReturns
  <2>3. slot' \in Nat
    BY <2>1 DEF TypeOK
  <2>4. netRunning' \in BOOLEAN
    BY <2>2 DEF TypeOK
  <2> QED
    BY <2>3, <2>4
<1> USE DEF playerVars, queueVars, worldVars
<1>3. TypeOK'
  BY <1>1, <1>2 DEF TypeOK
<1>4. QueueNumbered' /\ DisconnectedHasNoQueue' /\ FreeingIsOrphan' /\ UnbornIsBlank'
  BY <1>1 DEF QueueNumbered, DisconnectedHasNoQueue, FreeingIsOrphan, UnbornIsBlank
<1>5. \A q \in Conns : Queued(q)' = Queued(q) /\ InFlight(q)' = InFlight(q)
  BY <1>1 DEF Queued, InFlight
<1>6. PendingIsExact'
  BY <1>1, <1>5 DEF PendingIsExact
<1>7. \A q \in Conns : Seated(q)' = Seated(q)
  BY <1>1 DEF Seated
<1>8. NoDanglingPlayer'
  BY <1>1, <1>7 DEF TypeOK, NoDanglingPlayer
<1>9. SeatsAgree' /\ NoOrphanEntity' /\ EntityIffSeated'
  <2>1. pc = "join" => pc' = "join"
    BY DEF StartProcessing, QueueDrained, SlotsDone, HandleGameplay, RequestStop,
           NetworkThreadReturns, MainAt, mainVars
  <2> QED
    BY <1>1, <1>7, <2>1 DEF SeatsAgree, NoOrphanEntity, EntityIffSeated
<1>10. MainPosition' /\ GameplayHasSeat'
  <2>1. freeing["main"] # NoConn => pc' \in {"poll", "process"} \/ pc' = pc
    BY DEF StartProcessing, QueueDrained, SlotsDone, HandleGameplay, RequestStop,
           NetworkThreadReturns, MainAt, mainVars
  <2>2. netRunning' = netRunning \/ (~netRunning' /\ freeing["net"] = NoConn)
    BY DEF StartProcessing, QueueDrained, SlotsDone, HandleGameplay, RequestStop,
           NetworkThreadReturns
  <2>3. MainPosition'
    BY <1>1, <2>1, <2>2 DEF MainPosition, Seated
  <2>4. GameplayHasSeat'
    BY <1>1 DEF GameplayHasSeat, Seated
  <2> QED
    BY <2>3, <2>4
<1>11. PeersOfConnected'
  BY <1>1 DEF PeersOfConnected, Connected
<1>12. PeersCleared'
  <2>1. CASE QueueDrained
    BY <2>1, <1>1 DEF PeersCleared, FirstUncleared, PlayerIds, QueueDrained, MainAt
  <2>2. CASE SlotsDone
    BY <2>2, <1>1 DEF TypeOK, PeersCleared, FirstUncleared, PlayerIds, SlotsDone, SlotsVisited, MainAt
  <2>3. CASE StartProcessing \/ HandleGameplay \/ RequestStop \/ NetworkThreadReturns
    <3>1. FirstUncleared' = FirstUncleared \/ FirstUncleared' = 0
      BY <2>3 DEF FirstUncleared, StartProcessing, HandleGameplay, RequestStop,
                  NetworkThreadReturns, MainAt, mainVars
    <3>2. \A k \in PlayerIds : k >= 0
      BY DEF PlayerIds
    <3> QED
      BY <1>1, <3>1, <3>2 DEF PeersCleared
  <2> QED
    BY <2>1, <2>2, <2>3
<1> QED
  BY <1>3, <1>4, <1>6, <1>8, <1>9, <1>10, <1>11, <1>12

\* ServerPlayer_Create: a new player, unknown to every table.
LEMMA ConnectKeeps ==
    ASSUME SessionInvariant, NEW p \in Conns, NEW e \in Peers \cup {NoPeer},
           Connect(p, e)
    PROVE  SessionInvariant'
<1> USE DEF SessionInvariant, Connect, playerVars, queueVars, worldVars, mainVars
<1>1. TypeOK'
  BY DEF TypeOK, Packets
<1>2. QueueNumbered'
  BY DEF QueueNumbered
<1>3. Queued(p) = {} /\ InFlight(p) = 0
  BY DEF TypeOK, NoDanglingPlayer, Queued, InFlight, Packets
<1>4. PendingIsExact'
  <2>1. \A q \in Conns : Queued(q)' = Queued(q) /\ InFlight(q)' = InFlight(q)
    BY DEF Queued, InFlight, Serving
  <2>2. pending[p] = 0 /\ Cardinality(Queued(p)) = 0
    BY <1>3, FS_EmptySet DEF UnbornIsBlank
  <2> SUFFICES ASSUME NEW q \in Conns, life'[q] = "live"
               PROVE  pending'[q] = Cardinality(Queued(q))' + InFlight(q)'
    BY DEF PendingIsExact
  <2>3. CASE q = p
    <3>1. Queued(q)' = {} /\ InFlight(q)' = 0
      BY <1>3, <2>1, <2>3
    <3> QED
      BY <2>2, <2>3, <3>1, FS_EmptySet DEF TypeOK
  <2>4. CASE q # p
    BY <2>1, <2>4 DEF TypeOK, PendingIsExact
  <2> QED
    BY <2>3, <2>4
<1>5. NoDanglingPlayer'
  BY DEF TypeOK, NoDanglingPlayer, Seated, Serving
<1>6. DisconnectedHasNoQueue' /\ FreeingIsOrphan' /\ UnbornIsBlank'
  BY DEF TypeOK, DisconnectedHasNoQueue, FreeingIsOrphan, UnbornIsBlank
<1>7. SeatsAgree' /\ NoOrphanEntity' /\ EntityIffSeated'
  BY DEF TypeOK, SeatsAgree, NoOrphanEntity, EntityIffSeated, Seated, UnbornIsBlank
<1>8. MainPosition' /\ GameplayHasSeat'
  BY DEF TypeOK, MainPosition, GameplayHasSeat, Serving, Seated
<1>9. PeersOfConnected'
  BY DEF TypeOK, PeersOfConnected, Connected
<1>10. PeersCleared'
  BY DEF TypeOK, PeersCleared, FirstUncleared, PlayerIds, NoDanglingPlayer
<1> QED
  BY <1>1, <1>2, <1>4, <1>5, <1>6, <1>7, <1>8, <1>9, <1>10

\* ServerNetwork_Receive: one packet more, and one more in the count.
LEMMA ReceiveKeeps ==
    ASSUME SessionInvariant, NEW p \in Conns, NEW op \in Ops, Receive(p, op)
    PROVE  SessionInvariant'
<1> USE DEF SessionInvariant, Receive, playerVars, queueVars, worldVars, mainVars
<1>1. TypeOK'
  <2>1. [at |-> arrivals, player |-> p, op |-> op] \in Packets
    BY DEF TypeOK, Packets
  <2> QED
    BY <2>1 DEF TypeOK, AcceptedCount
<1>2. QueueNumbered'
  <2>1. IsFiniteSet(queue')
    BY FS_AddElement DEF QueueNumbered
  <2>2. ASSUME NEW m \in queue' PROVE m.at < arrivals'
    BY DEF TypeOK, QueueNumbered, Packets
  <2> QED
    BY <2>1, <2>2 DEF QueueNumbered
<1>3. PendingIsExact'
  <2> DEFINE m == [at |-> arrivals, player |-> p, op |-> op]
  <2>1. Queued(p)' = Queued(p) \cup {m} /\ m \notin Queued(p)
    BY DEF TypeOK, QueueNumbered, Queued, Packets
  <2>2. Cardinality(Queued(p)') = Cardinality(Queued(p)) + 1
    BY <2>1, QueuedIsFinite, FS_AddElement DEF QueueNumbered
  <2>3. \A q \in Conns \ {p} : Queued(q)' = Queued(q)
    BY DEF Queued
  <2> QED
    BY <2>2, <2>3, QueuedIsFinite
    DEF TypeOK, PendingIsExact, QueueNumbered, InFlight, Serving, Connected, AcceptedCount
<1>4. NoDanglingPlayer'
  BY DEF TypeOK, NoDanglingPlayer, Seated, Serving, Connected
<1>5. DisconnectedHasNoQueue' /\ FreeingIsOrphan' /\ UnbornIsBlank'
  BY DEF TypeOK, DisconnectedHasNoQueue, FreeingIsOrphan, UnbornIsBlank, Connected
<1>6. SeatsAgree' /\ NoOrphanEntity' /\ EntityIffSeated'
  BY DEF TypeOK, SeatsAgree, NoOrphanEntity, EntityIffSeated, Seated
<1>7. MainPosition' /\ GameplayHasSeat'
  BY DEF TypeOK, MainPosition, GameplayHasSeat, Serving, Seated, CanServe, ThreadOf
<1>8. PeersOfConnected'
  BY DEF TypeOK, PeersOfConnected, Connected
<1>9. PeersCleared'
  BY DEF TypeOK, PeersCleared, FirstUncleared, PlayerIds
<1> QED
  BY <1>1, <1>2, <1>3, <1>4, <1>5, <1>6, <1>7, <1>8, <1>9

\* ServerNetwork_Disconnect: what is left is the packet in hand, if any; the
\* thread frees the player only when there is none and it has no name.
LEMMA DisconnectKeeps ==
    ASSUME SessionInvariant, NEW p \in Conns, Disconnect(p)
    PROVE  SessionInvariant'
<1> USE DEF SessionInvariant, Disconnect, playerVars, queueVars, worldVars, mainVars
<1>1. Queued(p)' = {}
  BY DEF Queued, Purged
<1>2. \A q \in Conns \ {p} : Queued(q)' = Queued(q)
  BY DEF Queued, Purged
<1>3. pending'[p] = InFlight(p)
  BY QueuedIsFinite DEF TypeOK, QueueNumbered, PendingIsExact, Connected, InFlight, Lowered
<1>4. TypeOK'
  BY QueuedIsFinite DEF TypeOK, QueueNumbered, Purged, Lowered, ThreadOf
<1>5. QueueNumbered'
  BY FS_Subset DEF QueueNumbered, Purged
<1>6. PendingIsExact'
  <2> SUFFICES ASSUME NEW q \in Conns, life'[q] = "live"
               PROVE  pending'[q] = Cardinality(Queued(q)') + InFlight(q)'
    BY DEF PendingIsExact
  <2>1. InFlight(q)' = InFlight(q)
    BY DEF InFlight, Serving
  <2>2. CASE q = p
    <3>1. Queued(q)' = {}
      BY <1>1, <2>2
    <3> QED
      BY <1>3, <2>1, <2>2, <3>1, FS_EmptySet DEF InFlight
  <2>3. CASE q # p
    <3>1. Queued(q)' = Queued(q)
      BY <1>2, <2>3
    <3> QED
      BY <2>1, <2>3, <3>1 DEF TypeOK, PendingIsExact
  <2> QED
    BY <2>2, <2>3
<1>7. NoDanglingPlayer'
  <2>1. \A m \in queue' : life'[m.player] = "live"
    BY DEF NoDanglingPlayer, Purged
  <2>2. ASSUME Serving' PROVE life'[current'.player] = "live"
    BY <2>2 DEF NoDanglingPlayer, Serving
  <2>3. \A i \in PlayerIds : players'[i] # NoConn => life'[players'[i]] = "live"
    BY DEF NoDanglingPlayer
  <2>4. ASSUME NEW t \in Threads, freeing'[t] = p
        PROVE  ~named[p] /\ pending'[p] = 0 /\ t = ThreadOf(p)
    BY <2>4 DEF TypeOK, Orphaned, FreeingIsOrphan, Connected, ThreadOf
  <2>5. ASSUME NEW t \in Threads, freeing'[t] = p
        PROVE  ~Seated(p)' /\ (Serving' => current'.player # p)
    <3>1. ~Seated(p)
      BY <2>4, <2>5, SeatedIsNamed
    <3>2. ~(Serving /\ current.player = p)
      BY <1>3, <2>4, <2>5 DEF InFlight
    <3> QED
      BY <3>1, <3>2 DEF Seated, Serving
  <2>6. ASSUME NEW t \in Threads, freeing'[t] # NoConn, freeing'[t] # p
        PROVE  freeing'[t] = freeing[t]
    BY <2>6 DEF TypeOK, ThreadOf
  <2>7. ASSUME NEW t \in Threads, freeing'[t] # NoConn
        PROVE  /\ life'[freeing'[t]] = "live"
               /\ ~Seated(freeing[t])'
               /\ Serving' => current'.player # freeing'[t]
               /\ \A u \in Threads : freeing'[u] = freeing'[t] => u = t
    BY <2>4, <2>5, <2>6, <2>7 DEF TypeOK, NoDanglingPlayer, Connected, Seated, Serving
  <2> QED
    BY <2>1, <2>2, <2>3, <2>5, <2>6, <2>7 DEF NoDanglingPlayer, Seated, Serving, Connected
<1>8. DisconnectedHasNoQueue' /\ FreeingIsOrphan' /\ UnbornIsBlank'
  BY DEF TypeOK, DisconnectedHasNoQueue, FreeingIsOrphan, UnbornIsBlank, Connected, Purged, Queued, Orphaned
<1>9. SeatsAgree' /\ NoOrphanEntity' /\ EntityIffSeated'
  BY DEF TypeOK, SeatsAgree, NoOrphanEntity, EntityIffSeated, Seated
<1>10. MainPosition' /\ GameplayHasSeat'
  BY DEF TypeOK, MainPosition, GameplayHasSeat, Serving, Seated, CanServe, ThreadOf, Purged
<1>11. PeersOfConnected'
  BY DEF TypeOK, PeersOfConnected, Connected
<1>12. PeersCleared'
  BY DEF TypeOK, PeersCleared, FirstUncleared, PlayerIds
<1> QED
  BY <1>4, <1>5, <1>6, <1>7, <1>8, <1>9, <1>10, <1>11, <1>12

\* ServerPlayer_Destroy frees a player nothing points to.
LEMMA DestroyKeeps ==
    ASSUME SessionInvariant, NEW t \in Threads, Destroy(t)
    PROVE  SessionInvariant'
<1> USE DEF SessionInvariant, Destroy, playerVars, queueVars, worldVars, mainVars
<1>1. TypeOK'
  BY DEF TypeOK, Packets
<1>2. QueueNumbered'
  BY DEF QueueNumbered
<1>3. PendingIsExact'
  BY DEF TypeOK, PendingIsExact, Queued, InFlight, Serving
<1>4. NoDanglingPlayer'
  BY DEF TypeOK, NoDanglingPlayer, DisconnectedHasNoQueue, FreeingIsOrphan, Seated, Serving
<1>5. DisconnectedHasNoQueue' /\ FreeingIsOrphan' /\ UnbornIsBlank'
  BY DEF TypeOK, DisconnectedHasNoQueue, FreeingIsOrphan, UnbornIsBlank
<1>6. SeatsAgree' /\ NoOrphanEntity' /\ EntityIffSeated'
  BY DEF TypeOK, SeatsAgree, NoOrphanEntity, EntityIffSeated, Seated
<1>7. MainPosition' /\ GameplayHasSeat'
  BY DEF TypeOK, MainPosition, GameplayHasSeat, Serving, Seated
<1>8. PeersOfConnected'
  BY DEF TypeOK, PeersOfConnected, Connected
<1>9. PeersCleared'
  BY DEF TypeOK, PeersCleared, FirstUncleared, PlayerIds
<1> QED
  BY <1>1, <1>2, <1>3, <1>4, <1>5, <1>6, <1>7, <1>8, <1>9

\* The first critical section of ServerNetwork_ProcessIncomingPackets: the
\* packet leaves the queue and is in hand, so the count still stands.
LEMMA TakePacketKeeps ==
    ASSUME SessionInvariant, NEW m \in queue, TakePacket(m)
    PROVE  SessionInvariant'
<1> USE DEF SessionInvariant, TakePacket, MainAt, playerVars, queueVars, worldVars, mainVars
<1>1. m.player \in Conns /\ m \in Packets
  BY DEF TypeOK, Packets
<1>2. Queued(m.player)' = Queued(m.player) \ {m} /\ m \in Queued(m.player)
  BY DEF Queued
<1>3. Cardinality(Queued(m.player)') = Cardinality(Queued(m.player)) - 1
  BY ZenonT(60), <1>2, QueuedIsFinite, FS_RemoveElement DEF QueueNumbered
<1>4. \A q \in Conns \ {m.player} : Queued(q)' = Queued(q)
  BY DEF Queued
<1>5. TypeOK'
  BY <1>1 DEF TypeOK, Packets
<1>6. QueueNumbered'
  BY FS_RemoveElement DEF QueueNumbered
<1>7. PendingIsExact'
  BY <1>1, <1>3, <1>4, QueuedIsFinite DEF TypeOK, PendingIsExact, QueueNumbered, InFlight, Serving
<1>8. NoDanglingPlayer'
  BY <1>1 DEF TypeOK, NoDanglingPlayer, DisconnectedHasNoQueue, FreeingIsOrphan, Seated, Serving
<1>9. DisconnectedHasNoQueue' /\ FreeingIsOrphan' /\ UnbornIsBlank'
  BY DEF TypeOK, DisconnectedHasNoQueue, FreeingIsOrphan, UnbornIsBlank
<1>10. SeatsAgree' /\ NoOrphanEntity' /\ EntityIffSeated'
  BY DEF TypeOK, SeatsAgree, NoOrphanEntity, EntityIffSeated, Seated
<1>11. MainPosition' /\ GameplayHasSeat'
  BY <1>1 DEF TypeOK, MainPosition, GameplayHasSeat, Serving, Seated
<1>12. PeersOfConnected'
  BY DEF TypeOK, PeersOfConnected, Connected
<1>13. PeersCleared'
  BY DEF TypeOK, PeersCleared, FirstUncleared, PlayerIds
<1> QED
  BY <1>5, <1>6, <1>7, <1>8, <1>9, <1>10, <1>11, <1>12, <1>13

\* The unlocked check: a gameplay opcode passes only with an entity, and an
\* entity means a seat.
LEMMA CheckPacketKeeps ==
    ASSUME SessionInvariant, CheckPacket
    PROVE  SessionInvariant'
<1> USE DEF SessionInvariant, CheckPacket, MainAt, playerVars, queueVars, worldVars, mainVars
<1>1. TypeOK'
  BY DEF TypeOK, Packets
<1>2. QueueNumbered'
  BY DEF QueueNumbered
<1>3. PendingIsExact'
  BY DEF TypeOK, PendingIsExact, Queued, InFlight, Serving
<1>4. NoDanglingPlayer'
  BY DEF TypeOK, NoDanglingPlayer, Seated, Serving
<1>5. DisconnectedHasNoQueue' /\ FreeingIsOrphan' /\ UnbornIsBlank'
  BY DEF TypeOK, DisconnectedHasNoQueue, FreeingIsOrphan, UnbornIsBlank
<1>6. SeatsAgree' /\ NoOrphanEntity' /\ EntityIffSeated'
  BY DEF TypeOK, SeatsAgree, NoOrphanEntity, EntityIffSeated, Seated
<1>7. MainPosition' /\ GameplayHasSeat'
  <2>1. current.player \in Conns /\ life[current.player] = "live"
    BY DEF MainPosition, NoDanglingPlayer, Serving
  <2>2. entityId[current.player] >= 0 => Seated(current.player) /\ named[current.player]
    BY <2>1, SeatedIsNamed DEF EntityIffSeated
  <2> QED
    BY <2>1, <2>2 DEF TypeOK, MainPosition, GameplayHasSeat, Serving, Seated, Admitted
<1>8. PeersOfConnected'
  BY DEF TypeOK, PeersOfConnected, Connected
<1>9. PeersCleared'
  BY DEF TypeOK, PeersCleared, FirstUncleared, PlayerIds
<1> QED
  BY <1>1, <1>2, <1>3, <1>4, <1>5, <1>6, <1>7, <1>8, <1>9

\* ServerPacket_HandleIdentification gives a name to a player that has no seat.
LEMMA HandleIdentificationKeeps ==
    ASSUME SessionInvariant, HandleIdentification
    PROVE  SessionInvariant'
<1> DEFINE p == current.player
<1> USE DEF SessionInvariant, HandleIdentification, MainAt, playerVars, queueVars, worldVars, mainVars
<1>1. p \in Conns /\ life[p] = "live" /\ pc = "handle" /\ Serving /\ Serving'
  BY DEF MainPosition, NoDanglingPlayer, Serving
<1>2. \A q \in Conns : Seated(q)' = Seated(q)
  BY DEF Seated
<1>3. \/ named' = named /\ pc' = "finish"
      \/ named' = [named EXCEPT ![p] = TRUE] /\ ~named[p] /\ pc' = "join"
  OBVIOUS
<1>4. \A q \in Conns : (named[q] => named'[q]) /\ (q # p => named'[q] = named[q])
  BY <1>1, <1>3 DEF TypeOK
<1>5. TypeOK'
  BY <1>1 DEF TypeOK
<1>6. QueueNumbered' /\ DisconnectedHasNoQueue'
  BY DEF QueueNumbered, DisconnectedHasNoQueue
<1>7. PendingIsExact'
  <2>1. \A q \in Conns : Queued(q)' = Queued(q) /\ InFlight(q)' = InFlight(q)
    BY <1>1 DEF Queued, InFlight
  <2> QED
    BY <2>1 DEF PendingIsExact
<1>8. NoDanglingPlayer'
  BY <1>1, <1>2 DEF TypeOK, NoDanglingPlayer
<1>9. FreeingIsOrphan' /\ UnbornIsBlank'
  <2>1. \A t \in Threads : freeing[t] # NoConn => freeing[t] \in Conns /\ freeing[t] # p
    BY <1>1 DEF TypeOK, NoDanglingPlayer
  <2> QED
    BY <1>1, <1>4, <2>1 DEF FreeingIsOrphan, UnbornIsBlank
<1>10. SeatsAgree'
  <2>1. \A i \in PlayerIds : players[i] # NoConn => named'[players[i]]
    BY <1>4, SeatFacts
  <2>2. ASSUME NEW q \in Conns, life[q] = "live", named'[q]
        PROVE  Seated(q) \/ (pc' = "join" /\ p = q)
    BY <1>1, <1>3, <1>4, <2>2 DEF SeatsAgree
  <2> QED
    BY <1>2, <2>1, <2>2 DEF SeatsAgree
<1>11. NoOrphanEntity' /\ EntityIffSeated'
  BY <1>2 DEF NoOrphanEntity, EntityIffSeated
<1>12. MainPosition' /\ GameplayHasSeat'
  <2>1. ~named[p] => ~Seated(p)
    BY <1>1, SeatedIsNamed
  <2> QED
    BY <1>1, <1>2, <1>3, <2>1 DEF TypeOK, MainPosition, GameplayHasSeat
<1>13. PeersOfConnected'
  BY DEF PeersOfConnected, Connected
<1>14. PeersCleared'
  BY DEF PeersCleared, FirstUncleared
<1> QED
  BY <1>5, <1>6, <1>7, <1>8, <1>9, <1>10, <1>11, <1>12, <1>13, <1>14

\* ServerWorld_AddPlayer: a free seat and an idle entity for a named player.
LEMMA JoinKeeps ==
    ASSUME SessionInvariant, NEW i \in PlayerIds, NEW e \in EntityIds, Join(i, e)
    PROVE  SessionInvariant'
<1> USE DEF SessionInvariant, Join, MainAt, playerVars, queueVars, worldVars, mainVars
<1>1. /\ current.player \in Conns /\ named[current.player] /\ ~Seated(current.player)
      /\ life[current.player] = "live" /\ players[i] = NoConn /\ ~entities[e].active
  BY DEF TypeOK, MainPosition, NoDanglingPlayer, Serving, IsLeast, FreeSlots, FreeEntities
<1>2. TypeOK'
  <2>1. players' \in [PlayerIds -> Conns \cup {NoConn}]
    BY <1>1 DEF TypeOK
  <2>2. entities' \in [EntityIds -> [active : BOOLEAN, pendingRemoval : BOOLEAN, owner : Nat]]
    BY DEF TypeOK, PlayerIds
  <2>3. playerId' \in [Conns -> Nat] /\ entityId' \in [Conns -> EntityIds \cup {-1}]
    BY <1>1 DEF TypeOK, PlayerIds
  <2> QED
    BY <2>1, <2>2, <2>3 DEF TypeOK
<1>3. QueueNumbered'
  BY DEF QueueNumbered
<1>4. PendingIsExact'
  BY DEF TypeOK, PendingIsExact, Queued, InFlight, Serving
<1>5. NoDanglingPlayer'
  BY <1>1 DEF TypeOK, NoDanglingPlayer, Seated, Serving
<1>6. DisconnectedHasNoQueue' /\ FreeingIsOrphan' /\ UnbornIsBlank'
  BY <1>1 DEF TypeOK, DisconnectedHasNoQueue, FreeingIsOrphan, UnbornIsBlank
<1>7. SeatsAgree' /\ NoOrphanEntity' /\ EntityIffSeated'
  <2>1. \A q \in Conns : Seated(q) => Seated(q)'
    BY <1>1 DEF TypeOK, Seated
  <2>2. Seated(current.player)'
    BY <1>1 DEF TypeOK, Seated
  <2>3. ASSUME NEW j \in PlayerIds, players'[j] # NoConn
        PROVE  /\ playerId'[players'[j]] = j
               /\ named'[players'[j]]
               /\ entityId'[players'[j]] \in EntityIds
               /\ entities'[entityId'[players'[j]]] =
                      [active |-> TRUE, pendingRemoval |-> FALSE, owner |-> j]
    <3>1. CASE j = i
      BY <1>1, <3>1 DEF TypeOK
    <3>2. CASE j # i
      BY <1>1, <2>3, <3>2 DEF TypeOK, SeatsAgree, Seated
    <3> QED
      BY <3>1, <3>2
  <2>4. SeatsAgree'
    BY <1>1, <2>1, <2>2, <2>3 DEF TypeOK, SeatsAgree
  <2>5. NoOrphanEntity'
    <3> SUFFICES ASSUME NEW f \in EntityIds, entities'[f].active,
                        ~entities'[f].pendingRemoval
                 PROVE  \E j \in PlayerIds : players'[j] # NoConn /\ entityId'[players'[j]] = f
      BY DEF NoOrphanEntity
    <3>1. CASE f = e
      BY <1>1, <3>1 DEF TypeOK
    <3>2. CASE f # e
      <4>1. PICK j \in PlayerIds : players[j] # NoConn /\ entityId[players[j]] = f
        BY <3>2 DEF TypeOK, NoOrphanEntity
      <4>2. players'[j] = players[j] /\ players[j] # current.player
        BY <1>1, <4>1 DEF TypeOK, Seated
      <4> QED
        BY <4>1, <4>2 DEF TypeOK
    <3> QED
      BY <3>1, <3>2
  <2>6. EntityIffSeated'
    BY <1>1, <2>1, <2>2 DEF TypeOK, EntityIffSeated
  <2> QED
    BY <2>4, <2>5, <2>6
<1>8. MainPosition' /\ GameplayHasSeat'
  BY <1>1 DEF TypeOK, MainPosition, GameplayHasSeat, Serving, Seated
<1>9. PeersOfConnected'
  BY DEF TypeOK, PeersOfConnected, Connected
<1>10. PeersCleared'
  <2>0. FirstUncleared' = 0 /\ \A k \in PlayerIds : k >= 0
    BY DEF FirstUncleared, PlayerIds
  <2> SUFFICES ASSUME NEW j \in PlayerIds, NEW k \in PlayerIds, j # k,
                      players'[j] # NoConn, players'[k] # NoConn,
                      peer[players'[j]] = peer[players'[k]],
                      peer[players'[j]] # NoPeer
               PROVE  disconnected[players'[j]] \/ disconnected[players'[k]]
    BY <2>0 DEF PeersCleared
  <2>1. CASE j = i \/ k = i
    <3>1. players'[j] \in Conns /\ players'[k] \in Conns /\ players'[j] # players'[k]
      BY <1>1, <2>1 DEF TypeOK, Seated
    <3>2. life[players'[j]] = "live" /\ life[players'[k]] = "live"
      BY <1>1 DEF TypeOK, NoDanglingPlayer
    <3> QED
      BY <3>1, <3>2 DEF PeersOfConnected, Connected
  <2>2. CASE j # i /\ k # i
    <3>1. players'[j] = players[j] /\ players'[k] = players[k]
      BY <2>2 DEF TypeOK
    <3> QED
      BY <3>1 DEF PeersCleared
  <2> QED
    BY <2>1, <2>2
<1> QED
  BY <1>2, <1>3, <1>4, <1>5, <1>6, <1>7, <1>8, <1>9, <1>10

\* The world is full: the player is unnamed again, as before the packet.
LEMMA RefuseJoinKeeps ==
    ASSUME SessionInvariant, RefuseJoin
    PROVE  SessionInvariant'
<1> USE DEF SessionInvariant, RefuseJoin, MainAt, playerVars, queueVars, worldVars, mainVars
<1>1. current.player \in Conns /\ ~Seated(current.player)
  BY DEF MainPosition, Serving
<1>2. TypeOK'
  BY <1>1 DEF TypeOK, Refused
<1>3. QueueNumbered'
  BY DEF QueueNumbered
<1>4. PendingIsExact'
  BY DEF TypeOK, PendingIsExact, Queued, InFlight, Serving
<1>5. NoDanglingPlayer'
  BY DEF TypeOK, NoDanglingPlayer, Seated, Serving
<1>6. DisconnectedHasNoQueue' /\ FreeingIsOrphan' /\ UnbornIsBlank'
  BY <1>1 DEF TypeOK, DisconnectedHasNoQueue, FreeingIsOrphan, UnbornIsBlank, Refused
<1>7. SeatsAgree' /\ NoOrphanEntity' /\ EntityIffSeated'
  BY <1>1 DEF TypeOK, SeatsAgree, NoOrphanEntity, EntityIffSeated, Seated, Refused
<1>8. MainPosition' /\ GameplayHasSeat'
  BY DEF TypeOK, MainPosition, GameplayHasSeat, Serving, Seated
<1>9. PeersOfConnected'
  BY DEF TypeOK, PeersOfConnected, Connected
<1>10. PeersCleared'
  BY DEF TypeOK, PeersCleared, FirstUncleared, PlayerIds
<1> QED
  BY <1>2, <1>3, <1>4, <1>5, <1>6, <1>7, <1>8, <1>9, <1>10

\* The second critical section of a packet: the count follows, and the player
\* is released when it left unnamed meanwhile.
LEMMA FinishPacketKeeps ==
    ASSUME SessionInvariant, FinishPacket
    PROVE  SessionInvariant'
<1> USE DEF SessionInvariant, FinishPacket, MainAt, playerVars, queueVars, worldVars, mainVars
<1>1. current.player \in Conns /\ life[current.player] = "live"
  BY DEF MainPosition, NoDanglingPlayer, Serving
<1>2. pending'[current.player] = Cardinality(Queued(current.player))
  BY <1>1, QueuedIsFinite DEF TypeOK, PendingIsExact, QueueNumbered, InFlight, Serving, Lowered
<1>3. \A q \in Conns : Queued(q)' = Queued(q)
  BY DEF Queued
<1>4. TypeOK'
  BY <1>1 DEF TypeOK, Lowered
<1>5. QueueNumbered'
  BY DEF QueueNumbered
<1>6. PendingIsExact'
  <2> SUFFICES ASSUME NEW q \in Conns, life'[q] = "live"
               PROVE  pending'[q] = Cardinality(Queued(q)') + InFlight(q)'
    BY DEF PendingIsExact
  <2>1. Queued(q)' = Queued(q) /\ InFlight(q)' = 0
    BY DEF Queued, InFlight, Serving
  <2>2. CASE q = current.player
    BY <1>2, <2>1, <2>2, QueuedIsFinite DEF QueueNumbered
  <2>3. CASE q # current.player
    <3>1. pending'[q] = pending[q] /\ InFlight(q) = 0
      BY <2>3 DEF TypeOK, InFlight
    <3> QED
      BY <2>1, <3>1, QueuedIsFinite DEF QueueNumbered, PendingIsExact
  <2> QED
    BY <2>2, <2>3
<1>7. NoDanglingPlayer'
  <2>1. freeing["main"] = NoConn
    OBVIOUS
  <2>2. freeing'["main"] # NoConn =>
            freeing'["main"] = current.player /\ ~named[current.player]
    BY DEF TypeOK, Released
  <2>3. freeing'["net"] = freeing["net"]
    BY DEF TypeOK
  <2>4. freeing["net"] # current.player
    BY <1>1 DEF NoDanglingPlayer, Serving
  <2>5. ~named[current.player] => ~Seated(current.player)
    BY <1>1 DEF SeatsAgree, Seated
  <2> QED
    BY <1>1, <2>2, <2>3, <2>4, <2>5 DEF TypeOK, NoDanglingPlayer, Seated, Serving
<1>8. DisconnectedHasNoQueue' /\ FreeingIsOrphan' /\ UnbornIsBlank'
  BY <1>1 DEF TypeOK, DisconnectedHasNoQueue, FreeingIsOrphan, UnbornIsBlank, Released
<1>9. SeatsAgree' /\ NoOrphanEntity' /\ EntityIffSeated'
  BY DEF TypeOK, SeatsAgree, NoOrphanEntity, EntityIffSeated, Seated
<1>10. MainPosition' /\ GameplayHasSeat'
  BY DEF TypeOK, MainPosition, GameplayHasSeat, Serving, Seated
<1>11. PeersOfConnected'
  BY DEF TypeOK, PeersOfConnected, Connected
<1>12. PeersCleared'
  BY DEF TypeOK, PeersCleared, FirstUncleared, PlayerIds
<1> QED
  BY <1>4, <1>5, <1>6, <1>7, <1>8, <1>9, <1>10, <1>11, <1>12

\* ServerPlayerManager_Update at one slot: a player that left with nothing in
\* hand loses its seat and its memory, and its entity is marked.
LEMMA VisitSlotKeeps ==
    ASSUME SessionInvariant, VisitSlot
    PROVE  SessionInvariant'
<1>0. PICK p : p = players[slot]
  OBVIOUS
<1> USE DEF SessionInvariant, VisitSlot, MainAt, playerVars, queueVars, worldVars, mainVars
<1>1. slot \in PlayerIds /\ ~Serving /\ ~Serving' /\ pc = "update" /\ pc' = "update"
  BY DEF TypeOK, SlotsVisited, Serving, PlayerIds
<1>2. QueueNumbered' /\ DisconnectedHasNoQueue' /\ FreeingIsOrphan'
  BY DEF QueueNumbered, DisconnectedHasNoQueue, FreeingIsOrphan
<1>3. MainPosition' /\ GameplayHasSeat'
  BY <1>1 DEF MainPosition, GameplayHasSeat
<1>4. \A q \in Conns : Queued(q)' = Queued(q) /\ InFlight(q) = 0 /\ InFlight(q)' = 0
  BY <1>1 DEF Queued, InFlight
<1>5. ASSUME NEW q \in Conns, life[q] = "live", disconnected[q] PROVE pending[q] = 0
  <2>1. Queued(q) = {}
    BY <1>5 DEF Queued, DisconnectedHasNoQueue
  <2>2. QED
    <3>1. Cardinality(Queued(q)) = 0
      BY <2>1, FS_EmptySet
    <3> QED
      BY <1>4, <1>5, <3>1 DEF PendingIsExact
<1>6. CASE p # NoConn /\ ReadyForRemoval(p)
  <2>1. /\ p \in Conns /\ life[p] = "live" /\ disconnected[p] /\ named[p]
        /\ entityId[p] \in EntityIds
        /\ players' = [players EXCEPT ![slot] = NoConn]
        /\ life' = [life EXCEPT ![p] = "freed"]
        /\ entities' = [entities EXCEPT ![entityId[p]].pendingRemoval = TRUE]
    BY <1>0, <1>1, <1>6, SeatFacts DEF NoDanglingPlayer, ReadyForRemoval, EntityRetired
  <2>2. \A j \in PlayerIds \ {slot} :
            players'[j] = players[j] /\ players[j] # p
            /\ (players[j] # NoConn => entityId[players[j]] # entityId[p])
    BY <1>0, <1>1, <1>6, <2>1, SeatsDistinct DEF TypeOK
  <2>3. players'[slot] = NoConn
    BY <1>1, <2>1 DEF TypeOK
  <2>4. \A q \in Conns : life'[q] = IF q = p THEN "freed" ELSE life[q]
    BY <2>1 DEF TypeOK
  <2>5. TypeOK'
    <3>1. players' \in [PlayerIds -> Conns \cup {NoConn}]
      BY <2>1 DEF TypeOK
    <3>2. entities' \in [EntityIds -> [active : BOOLEAN, pendingRemoval : BOOLEAN, owner : Nat]]
      <4>1. entities[entityId[p]] \in [active : BOOLEAN, pendingRemoval : BOOLEAN, owner : Nat]
        BY <2>1 DEF TypeOK
      <4>2. [entities[entityId[p]] EXCEPT !.pendingRemoval = TRUE] \in
                [active : BOOLEAN, pendingRemoval : BOOLEAN, owner : Nat]
        BY <4>1
      <4> QED
        BY <2>1, <4>2 DEF TypeOK
    <3>3. life' \in [Conns -> {"unborn", "live", "freed"}]
      BY <2>1 DEF TypeOK
    <3> QED
      BY <3>1, <3>2, <3>3 DEF TypeOK
  <2>6. PendingIsExact' /\ UnbornIsBlank'
    BY <1>4, <2>4 DEF PendingIsExact, UnbornIsBlank
  <2>7. \A q \in Conns \ {p} : Seated(q)' = Seated(q)
    BY <1>0, <1>1, <2>2, <2>3 DEF Seated
  <2>8. ~Seated(p)'
    BY <2>1, <2>2, <2>3 DEF Seated
  <2>9. NoDanglingPlayer'
    <3>1. \A m \in queue' : life'[m.player] = "live"
      BY <2>1, <2>4 DEF TypeOK, NoDanglingPlayer, DisconnectedHasNoQueue, Packets
    <3>2. \A j \in PlayerIds : players'[j] # NoConn => life'[players'[j]] = "live"
      BY <2>2, <2>3, <2>4 DEF TypeOK, NoDanglingPlayer
    <3>3. ASSUME NEW t \in Threads, freeing'[t] # NoConn
          PROVE  /\ freeing[t] \in Conns \ {p}
                 /\ life'[freeing'[t]] = "live"
                 /\ ~Seated(freeing[t])'
                 /\ \A u \in Threads : freeing'[u] = freeing'[t] => u = t
      <4>1. freeing[t] \in Conns /\ freeing[t] # p
        BY <3>3, <2>1 DEF TypeOK, FreeingIsOrphan
      <4> QED
        BY <3>3, <4>1, <2>4, <2>7 DEF NoDanglingPlayer
    <3> QED
      BY <1>1, <3>1, <3>2, <3>3 DEF NoDanglingPlayer, Seated
  <2>10. SeatsAgree'
    <3>1. ASSUME NEW j \in PlayerIds, players'[j] # NoConn
          PROVE  /\ playerId'[players'[j]] = j
                 /\ named'[players'[j]]
                 /\ entityId'[players'[j]] \in EntityIds
                 /\ entities'[entityId'[players'[j]]] =
                        [active |-> TRUE, pendingRemoval |-> FALSE, owner |-> j]
      <4>1. j # slot /\ players'[j] = players[j] /\ entityId[players[j]] # entityId[p]
        BY <3>1, <2>2, <2>3
      <4>2. entities'[entityId[players[j]]] = entities[entityId[players[j]]]
        BY <3>1, <4>1, <2>1 DEF TypeOK, SeatsAgree
      <4> QED
        BY <3>1, <4>1, <4>2 DEF SeatsAgree
    <3>2. ASSUME NEW q \in Conns, life'[q] = "live", named'[q]
          PROVE  Seated(q)'
      BY <1>1, <3>2, <2>4, <2>7 DEF SeatsAgree
    <3> QED
      BY <3>1, <3>2 DEF SeatsAgree, Seated
  <2>11. NoOrphanEntity'
    <3> SUFFICES ASSUME NEW f \in EntityIds, entities'[f].active,
                        ~entities'[f].pendingRemoval
                 PROVE  \E j \in PlayerIds : players'[j] # NoConn /\ entityId'[players'[j]] = f
      BY DEF NoOrphanEntity
    <3>1. f # entityId[p] /\ entities'[f] = entities[f]
      BY <2>1 DEF TypeOK
    <3>2. PICK j \in PlayerIds : players[j] # NoConn /\ entityId[players[j]] = f
      BY <3>1 DEF NoOrphanEntity
    <3>3. j # slot
      BY <1>0, <3>1, <3>2
    <3> QED
      BY <2>2, <3>2, <3>3
  <2>12. EntityIffSeated'
    BY <2>4, <2>7 DEF EntityIffSeated
  <2>13. PeersOfConnected'
    BY <2>1, <2>4 DEF PeersOfConnected, Connected
  <2>14. PeersCleared'
    <3>1. FirstUncleared = slot /\ FirstUncleared' = slot + 1
      BY <1>1 DEF FirstUncleared
    <3> SUFFICES ASSUME NEW i \in PlayerIds, NEW j \in PlayerIds, i # j,
                        players'[i] # NoConn, players'[j] # NoConn,
                        peer[players'[i]] = peer[players'[j]],
                        peer[players'[i]] # NoPeer
                 PROVE  \/ i >= slot + 1 /\ disconnected[players'[i]]
                        \/ j >= slot + 1 /\ disconnected[players'[j]]
      BY <3>1 DEF PeersCleared
    <3>2. i # slot /\ j # slot /\ players'[i] = players[i] /\ players'[j] = players[j]
      BY <2>2, <2>3
    <3>3. \/ i >= slot /\ disconnected[players[i]]
          \/ j >= slot /\ disconnected[players[j]]
      BY <3>1, <3>2 DEF PeersCleared
    <3> QED
      BY <3>2, <3>3, <1>1 DEF PlayerIds
  <2> QED
    BY <1>2, <1>3, <2>5, <2>6, <2>9, <2>10, <2>11, <2>12, <2>13, <2>14
<1>7. CASE ~(p # NoConn /\ ReadyForRemoval(p))
  <2>1. life' = life /\ players' = players /\ entities' = entities
    BY <1>0, <1>7
  <2>2. \A q \in Conns : Seated(q)' = Seated(q)
    BY <2>1 DEF Seated
  <2>3. TypeOK'
    BY <1>1, <2>1 DEF TypeOK
  <2>4. PendingIsExact' /\ UnbornIsBlank'
    BY <1>4, <2>1 DEF PendingIsExact, UnbornIsBlank
  <2>5. NoDanglingPlayer'
    BY <1>1, <2>1, <2>2 DEF TypeOK, NoDanglingPlayer
  <2>6. SeatsAgree' /\ NoOrphanEntity' /\ EntityIffSeated'
    BY <1>1, <2>1, <2>2 DEF SeatsAgree, NoOrphanEntity, EntityIffSeated
  <2>7. PeersOfConnected'
    BY <2>1 DEF PeersOfConnected, Connected
  <2>8. PeersCleared'
    <3>1. FirstUncleared = slot /\ FirstUncleared' = slot + 1
      BY <1>1 DEF FirstUncleared
    <3>2. p = NoConn \/ ~disconnected[p]
      BY <1>0, <1>1, <1>5, <1>7 DEF TypeOK, NoDanglingPlayer, ReadyForRemoval
    <3>3. \A i \in PlayerIds : i >= slot /\ i # slot => i >= slot + 1
      BY <1>1 DEF PlayerIds
    <3> QED
      BY <1>0, <2>1, <3>1, <3>2, <3>3 DEF PeersCleared
  <2> QED
    BY <1>2, <1>3, <2>3, <2>4, <2>5, <2>6, <2>7, <2>8
<1> QED
  BY <1>6, <1>7

\* ServerEntities_Update ends only entities that were marked.
LEMMA UpdateEntitiesKeeps ==
    ASSUME SessionInvariant, NEW clockMoved \in BOOLEAN, UpdateEntities(clockMoved)
    PROVE  SessionInvariant'
<1> USE DEF SessionInvariant, UpdateEntities, MainAt, playerVars, queueVars, worldVars, mainVars
<1>1. TypeOK'
  <2>1. entities' \in [EntityIds -> [active : BOOLEAN, pendingRemoval : BOOLEAN, owner : Nat]]
    <3>1. \A e \in EntityIds :
              [entities[e] EXCEPT !.active = FALSE]
                  \in [active : BOOLEAN, pendingRemoval : BOOLEAN, owner : Nat]
      BY EntityEnds DEF TypeOK
    <3> QED
      BY <3>1 DEF TypeOK
  <2> QED
    BY <2>1 DEF TypeOK
<1>2. QueueNumbered'
  BY DEF QueueNumbered
<1>3. PendingIsExact'
  BY DEF TypeOK, PendingIsExact, Queued, InFlight, Serving
<1>4. NoDanglingPlayer'
  BY DEF TypeOK, NoDanglingPlayer, Seated, Serving
<1>5. DisconnectedHasNoQueue' /\ FreeingIsOrphan' /\ UnbornIsBlank'
  BY DEF TypeOK, DisconnectedHasNoQueue, FreeingIsOrphan, UnbornIsBlank
<1>6. SeatsAgree' /\ NoOrphanEntity' /\ EntityIffSeated'
  BY DEF TypeOK, SeatsAgree, NoOrphanEntity, EntityIffSeated, Seated
<1>7. MainPosition' /\ GameplayHasSeat'
  BY DEF TypeOK, MainPosition, GameplayHasSeat, Serving, Seated
<1>8. PeersOfConnected'
  BY DEF TypeOK, PeersOfConnected, Connected
<1>9. PeersCleared'
  BY DEF TypeOK, PeersCleared, FirstUncleared, PlayerIds
<1> QED
  BY <1>1, <1>2, <1>3, <1>4, <1>5, <1>6, <1>7, <1>8, <1>9

\* ServerNetwork_Shutdown drops the queue and lowers every count by it.
LEMMA NetworkShutdownKeeps ==
    ASSUME SessionInvariant, NetworkShutdown
    PROVE  SessionInvariant'
<1> USE DEF SessionInvariant, NetworkShutdown, MainAt, playerVars, queueVars, worldVars, mainVars
<1>1. TypeOK'
  BY QueuedIsFinite DEF TypeOK, QueueNumbered, Lowered
<1>2. QueueNumbered'
  BY FS_EmptySet DEF QueueNumbered
<1>3. PendingIsExact'
  <2> SUFFICES ASSUME NEW q \in Conns, life[q] = "live"
               PROVE  pending'[q] = Cardinality(Queued(q)') + InFlight(q)'
    BY DEF PendingIsExact
  <2>1. pending'[q] = 0
    BY QueuedIsFinite DEF TypeOK, QueueNumbered, PendingIsExact, InFlight, Serving, Lowered
  <2>2. Queued(q)' = {} /\ InFlight(q)' = 0
    BY DEF Queued, InFlight, Serving
  <2> QED
    BY <2>1, <2>2, FS_EmptySet
<1>4. NoDanglingPlayer'
  BY DEF TypeOK, NoDanglingPlayer, Seated, Serving
<1>5. DisconnectedHasNoQueue' /\ FreeingIsOrphan' /\ UnbornIsBlank'
  BY QueuedIsFinite DEF TypeOK, QueueNumbered, DisconnectedHasNoQueue, FreeingIsOrphan, UnbornIsBlank, Lowered
<1>6. SeatsAgree' /\ NoOrphanEntity' /\ EntityIffSeated'
  BY DEF TypeOK, SeatsAgree, NoOrphanEntity, EntityIffSeated, Seated
<1>7. MainPosition' /\ GameplayHasSeat'
  BY DEF TypeOK, MainPosition, GameplayHasSeat, Serving, Seated
<1>8. PeersOfConnected'
  BY DEF TypeOK, PeersOfConnected, Connected
<1>9. PeersCleared'
  BY DEF TypeOK, PeersCleared, FirstUncleared, PlayerIds
<1> QED
  BY <1>1, <1>2, <1>3, <1>4, <1>5, <1>6, <1>7, <1>8, <1>9

\* The world shuts down: every seat is emptied, every entity idle.
LEMMA WorldShutdownKeeps ==
    ASSUME SessionInvariant, WorldShutdown
    PROVE  SessionInvariant'
<1> USE DEF SessionInvariant, WorldShutdown, MainAt, playerVars, queueVars, worldVars, mainVars
<1>1. TypeOK'
  <2>1. entities' \in [EntityIds -> [active : BOOLEAN, pendingRemoval : BOOLEAN, owner : Nat]]
    <3>1. \A e \in EntityIds :
              [entities[e] EXCEPT !.active = FALSE]
                  \in [active : BOOLEAN, pendingRemoval : BOOLEAN, owner : Nat]
      BY EntityEnds DEF TypeOK
    <3> QED
      BY <3>1 DEF TypeOK
  <2>2. life' \in [Conns -> {"unborn", "live", "freed"}]
    BY DEF TypeOK
  <2> QED
    BY <2>1, <2>2 DEF TypeOK
<1>2. QueueNumbered'
  BY DEF QueueNumbered
<1>3. PendingIsExact'
  BY DEF TypeOK, PendingIsExact, Queued, InFlight, Serving
<1>4. NoDanglingPlayer'
  BY DEF TypeOK, NoDanglingPlayer, MainPosition, Seated, Serving
<1>5. DisconnectedHasNoQueue' /\ FreeingIsOrphan' /\ UnbornIsBlank'
  BY DEF TypeOK, DisconnectedHasNoQueue, FreeingIsOrphan, UnbornIsBlank
<1>6. SeatsAgree' /\ NoOrphanEntity' /\ EntityIffSeated'
  BY DEF TypeOK, SeatsAgree, NoOrphanEntity, EntityIffSeated, Seated
<1>7. MainPosition' /\ GameplayHasSeat'
  BY DEF TypeOK, MainPosition, GameplayHasSeat, Serving, Seated
<1>8. PeersOfConnected'
  BY DEF TypeOK, PeersOfConnected, Connected
<1>9. PeersCleared'
  BY DEF TypeOK, PeersCleared, FirstUncleared, PlayerIds
<1> QED
  BY <1>1, <1>2, <1>3, <1>4, <1>5, <1>6, <1>7, <1>8, <1>9

----------------------------------------------------------------------------
(* The theorems.                                                           *)

\* Every step of either thread, and every stuttering step, keeps the invariant.
LEMMA NextKeeps ==
    ASSUME SessionInvariant, [Next]_vars
    PROVE  SessionInvariant'
<1>1. CASE Transport
  BY <1>1, ConnectKeeps, ReceiveKeeps, DisconnectKeeps DEF Transport
<1>2. CASE \E t \in Threads : Destroy(t)
  BY <1>2, DestroyKeeps
<1>3. CASE MainLoop
  <2>1. CASE StartProcessing \/ QueueDrained \/ HandleGameplay \/ SlotsDone
    BY <2>1, ControlKeeps
  <2>2. CASE \E m \in queue : TakePacket(m)
    BY <2>2, TakePacketKeeps
  <2>3. CASE CheckPacket
    BY <2>3, CheckPacketKeeps
  <2>4. CASE HandleIdentification
    BY <2>4, HandleIdentificationKeeps
  <2>5. CASE \E i \in PlayerIds, e \in EntityIds : Join(i, e)
    BY <2>5, JoinKeeps
  <2>6. CASE RefuseJoin
    BY <2>6, RefuseJoinKeeps
  <2>7. CASE FinishPacket
    BY <2>7, FinishPacketKeeps
  <2>8. CASE VisitSlot
    BY <2>8, VisitSlotKeeps
  <2>9. CASE \E clockMoved \in BOOLEAN : UpdateEntities(clockMoved)
    BY <2>9, UpdateEntitiesKeeps
  <2>10. CASE NetworkShutdown
    BY <2>10, NetworkShutdownKeeps
  <2>11. CASE WorldShutdown
    BY <2>11, WorldShutdownKeeps
  <2> QED
    BY <1>3, <2>1, <2>2, <2>3, <2>4, <2>5, <2>6, <2>7, <2>8, <2>9, <2>10, <2>11 DEF MainLoop
<1>4. CASE RequestStop \/ NetworkThreadReturns
  BY <1>4, ControlKeeps
<1>5. CASE UNCHANGED vars
  <2> USE <1>5 DEF vars, playerVars, queueVars, worldVars, mainVars
  <2>1. TypeOK' /\ QueueNumbered' /\ PendingIsExact' /\ NoDanglingPlayer'
    BY DEF SessionInvariant, TypeOK, QueueNumbered, PendingIsExact, NoDanglingPlayer,
           Queued, InFlight, Serving, Seated
  <2>2. /\ DisconnectedHasNoQueue' /\ FreeingIsOrphan' /\ UnbornIsBlank'
        /\ SeatsAgree' /\ NoOrphanEntity' /\ EntityIffSeated'
    BY DEF SessionInvariant, DisconnectedHasNoQueue, FreeingIsOrphan, UnbornIsBlank,
           SeatsAgree, NoOrphanEntity, EntityIffSeated, Seated
  <2>3. MainPosition' /\ GameplayHasSeat' /\ PeersOfConnected' /\ PeersCleared'
    BY DEF SessionInvariant, MainPosition, GameplayHasSeat, PeersOfConnected, PeersCleared,
           FirstUncleared, Serving, Seated, Connected
  <2> QED
    BY <2>1, <2>2, <2>3 DEF SessionInvariant
<1>6. CASE Terminated
  BY <1>5, <1>6 DEF Terminated
<1> QED
  BY <1>1, <1>2, <1>3, <1>4, <1>5, <1>6 DEF Next

\* Whatever the two threads do, and however connects, packets, departures, the
\* update of the world and the shutdown interleave, SessionInvariant holds.
THEOREM SessionInvariantHolds == Spec => []SessionInvariant
<1>1. SessionInvariant /\ [Next]_vars => SessionInvariant'
  BY NextKeeps
<1> QED
  BY <1>1, InitSession, PTL DEF Spec

\* The variables of the server keep their types: ids index their tables, the
\* queue holds packets, the counters are naturals.
THEOREM TypeCorrect == Spec => []TypeOK
<1>1. SessionInvariant => TypeOK
  BY DEF SessionInvariant
<1> QED
  BY <1>1, SessionInvariantHolds, PTL

\* ServerNetwork_Receive, _Disconnect and _ProcessIncomingPackets keep
\* pendingPackets equal to what is queued and in hand.
THEOREM PendingCountExact == Spec => []PendingIsExact
<1>1. SessionInvariant => PendingIsExact
  BY DEF SessionInvariant
<1> QED
  BY <1>1, SessionInvariantHolds, PTL

\* The three places that call ServerPlayer_Destroy never free a player the
\* queue, a handler, the seat table or the other thread still points to.
THEOREM NeverDangling == Spec => []NoDanglingPlayer
<1>1. SessionInvariant => NoDanglingPlayer
  BY DEF SessionInvariant
<1> QED
  BY <1>1, SessionInvariantHolds, PTL

\* Joining, refusing and removing keep the seat, the id, the name and the
\* entity of a player in agreement, and no entity outlives its seat unmarked.
THEOREM SeatsAndEntitiesAgree == Spec => [](SeatsAgree /\ NoOrphanEntity)
<1>1. SessionInvariant => SeatsAgree /\ NoOrphanEntity
  BY DEF SessionInvariant
<1> QED
  BY <1>1, SessionInvariantHolds, PTL

\* A gameplay handler finds a seat and a name, although the check that let it
\* run was made without the mutex and the player may have left since.
THEOREM GameplayAlwaysSeated == Spec => []GameplayHasSeat
<1>1. SessionInvariant => GameplayHasSeat
  BY DEF SessionInvariant
<1> QED
  BY <1>1, SessionInvariantHolds, PTL

\* When the main loop starts over, ENet's reuse of peers has left no two seated
\* players on one peer.
THEOREM PeersAreDistinct == Spec => []PeersDistinctAtLoopTop
<1>1. SessionInvariant => PeersDistinctAtLoopTop
  <2> SUFFICES ASSUME SessionInvariant, pc = "poll",
                      NEW i \in PlayerIds, NEW j \in PlayerIds, i # j,
                      players[i] # NoConn, players[j] # NoConn,
                      peer[players[i]] # NoPeer, peer[players[i]] = peer[players[j]]
               PROVE  FALSE
    BY DEF PeersDistinctAtLoopTop
  <2>1. FirstUncleared = MaxPlayers /\ i < MaxPlayers /\ j < MaxPlayers
    BY DEF FirstUncleared, PlayerIds
  <2> QED
    BY <2>1 DEF SessionInvariant, PeersCleared, PlayerIds
<1> QED
  BY <1>1, SessionInvariantHolds, PTL

----------------------------------------------------------------------------
(* The refinement of PlayerLifecycle, but for its fairness.                *)

\* The seat of a connection, as the lifecycle sees it.
SeatOf(p) == IF Seated(p) THEN playerId[p] ELSE -1

\* What the lifecycle sees of the server.
LEMMA LifecycleSees ==
    /\ Lifecycle!vars = <<[p \in Conns |-> Phase(p)], [p \in Conns |-> SeatOf(p)],
                          disconnected, pc = "stopped">>
    /\ \A p \in Conns : Lifecycle!Present(p) <=> Phase(p) \in {"open", "seated"}
  BY DEF Lifecycle!vars, Lifecycle!Present, SeatOf

\* A connection's phase, by its memory and its seat.
LEMMA PhaseIs ==
    ASSUME TypeOK, NEW p \in Conns
    PROVE  /\ Phase(p) = "absent" <=> life[p] = "unborn"
           /\ Phase(p) = "closed" <=> life[p] = "freed"
           /\ Phase(p) = "seated" <=> life[p] = "live" /\ Seated(p)
           /\ Phase(p) = "open" <=> life[p] = "live" /\ ~Seated(p)
<1>1. life[p] \in {"unborn", "live", "freed"}
  BY DEF TypeOK
<1>2. CASE life[p] = "unborn"
  BY <1>2 DEF Phase
<1>3. CASE life[p] = "freed"
  BY <1>3 DEF Phase
<1>4. CASE life[p] = "live" /\ Seated(p)
  BY <1>4 DEF Phase
<1>5. CASE life[p] = "live" /\ ~Seated(p)
  BY <1>5 DEF Phase
<1> QED
  BY <1>1, <1>2, <1>3, <1>4, <1>5

\* Steps the lifecycle does not see.
LEMMA Unseen ==
    ASSUME UNCHANGED <<life, players, playerId, disconnected>>,
           pc' = pc \/ (pc # "stopped" /\ pc' # "stopped")
    PROVE  UNCHANGED Lifecycle!vars
<1>1. \A p \in Conns : Phase(p)' = Phase(p) /\ SeatOf(p)' = SeatOf(p)
  BY DEF Phase, SeatOf, Seated
<1>2. [p \in Conns |-> Phase(p)]' = [p \in Conns |-> Phase(p)]
  BY <1>1
<1>3. [p \in Conns |-> SeatOf(p)]' = [p \in Conns |-> SeatOf(p)]
  BY <1>1
<1>4. (pc = "stopped")' = (pc = "stopped")
  OBVIOUS
<1>5. disconnected' = disconnected
  OBVIOUS
<1> QED
  BY <1>2, <1>3, <1>4, <1>5, LifecycleSees DEF Lifecycle!vars, SeatOf

\* ServerPlayer_Create
LEMMA ConnectOpens ==
    ASSUME SessionInvariant, NEW p \in Conns, NEW e \in Peers \cup {NoPeer}, Connect(p, e)
    PROVE  Lifecycle!Open(p)
<1>1. /\ TypeOK /\ NoDanglingPlayer /\ MainPosition
  BY DEF SessionInvariant
<1>2. /\ life[p] = "unborn" /\ life' = [life EXCEPT ![p] = "live"]
      /\ UNCHANGED <<players, playerId, disconnected, pc>>
  BY DEF Connect, worldVars, mainVars
<1>3. pc # "stopped"
  BY <1>1 DEF Connect, CanServe, MainPosition, ThreadOf
<1>4. ~Seated(p)
  BY <1>1, <1>2 DEF Seated, NoDanglingPlayer
<1>5. /\ \A q \in Conns : Seated(q)' = Seated(q) /\ SeatOf(q)' = SeatOf(q)
      /\ \A q \in Conns : life'[q] = IF q = p THEN "live" ELSE life[q]
  BY <1>1, <1>2 DEF Seated, SeatOf, TypeOK
<1>6. Phase(p) = "absent" /\ Phase(p)' = "open"
  BY <1>2, <1>4, <1>5 DEF Phase
<1>7. \A q \in Conns : q # p => Phase(q)' = Phase(q)
  BY <1>5 DEF Phase
<1>8. [q \in Conns |-> Phase(q)]' = [[q \in Conns |-> Phase(q)] EXCEPT ![p] = "open"]
  BY <1>6, <1>7
<1>9. [q \in Conns |-> SeatOf(q)]' = [q \in Conns |-> SeatOf(q)]
  BY <1>5
<1> QED
  BY <1>2, <1>3, <1>6, <1>8, <1>9 DEF Lifecycle!Open, SeatOf

\* ServerNetwork_Disconnect
LEMMA DisconnectHangsUp ==
    ASSUME SessionInvariant, NEW p \in Conns, Disconnect(p)
    PROVE  Lifecycle!HangUp(p)
<1>1. TypeOK /\ MainPosition
  BY DEF SessionInvariant
<1>2. /\ life[p] = "live" /\ ~disconnected[p]
      /\ disconnected' = [disconnected EXCEPT ![p] = TRUE]
      /\ UNCHANGED <<life, players, playerId, pc>>
  BY DEF Disconnect, Connected, worldVars, mainVars
<1>3. pc # "stopped"
  BY <1>1 DEF Disconnect, CanServe, MainPosition, ThreadOf
<1>4. \A q \in Conns : Phase(q)' = Phase(q) /\ SeatOf(q)' = SeatOf(q)
  BY <1>2 DEF Phase, SeatOf, Seated
<1>5. /\ [q \in Conns |-> Phase(q)]' = [q \in Conns |-> Phase(q)]
      /\ [q \in Conns |-> SeatOf(q)]' = [q \in Conns |-> SeatOf(q)]
  BY <1>4
<1>6. Lifecycle!Present(p)
  BY <1>1, <1>2, PhaseIs, LifecycleSees
<1> QED
  BY <1>2, <1>3, <1>5, <1>6 DEF Lifecycle!HangUp, SeatOf

\* A player that is freed after it disconnected, seated or not.
LEMMA FreedIsClosed ==
    ASSUME TypeOK, NEW p \in Conns, life[p] = "live", disconnected[p],
           life' = [life EXCEPT ![p] = "freed"], UNCHANGED <<playerId, disconnected, pc>>,
           ~Seated(p)', \A q \in Conns : q # p => Seated(q)' = Seated(q)
    PROVE  Lifecycle!Close(p)
<1>1. \A q \in Conns : life'[q] = IF q = p THEN "freed" ELSE life[q]
  BY DEF TypeOK
<1>2. Phase(p)' = "closed" /\ SeatOf(p)' = -1
  BY <1>1 DEF Phase, SeatOf
<1>3. \A q \in Conns : q # p => Phase(q)' = Phase(q) /\ SeatOf(q)' = SeatOf(q)
  BY <1>1 DEF Phase, SeatOf
<1>4. /\ [q \in Conns |-> Phase(q)]' = [[q \in Conns |-> Phase(q)] EXCEPT ![p] = "closed"]
      /\ [q \in Conns |-> SeatOf(q)]' = [[q \in Conns |-> SeatOf(q)] EXCEPT ![p] = -1]
  BY <1>2, <1>3
<1>5. Lifecycle!Present(p)
  BY PhaseIs, LifecycleSees
<1> QED
  BY <1>4, <1>5 DEF Lifecycle!Close, SeatOf

\* ServerPlayer_Destroy of a player that was never seated.
LEMMA DestroyCloses ==
    ASSUME SessionInvariant, NEW t \in Threads, Destroy(t)
    PROVE  \E p \in Conns : Lifecycle!Close(p)
<1>0. PICK p : p = freeing[t]
  OBVIOUS
<1>1. TypeOK /\ NoDanglingPlayer /\ FreeingIsOrphan
  BY DEF SessionInvariant
<1>2. p # NoConn /\ p \in Conns
  BY <1>0, <1>1 DEF Destroy, TypeOK
<1>3. life[p] = "live" /\ ~Seated(p) /\ disconnected[p]
  BY <1>0, <1>1, <1>2 DEF NoDanglingPlayer, FreeingIsOrphan
<1>4. /\ life' = [life EXCEPT ![p] = "freed"]
      /\ UNCHANGED <<players, playerId, disconnected, pc>>
  BY <1>0 DEF Destroy, worldVars, mainVars
<1>5. \A q \in Conns : Seated(q)' = Seated(q)
  BY <1>4 DEF Seated
<1>6. Lifecycle!Close(p)
  BY <1>1, <1>2, <1>3, <1>4, <1>5, FreedIsClosed
<1> QED
  BY <1>2, <1>6

\* ServerWorld_RemovePlayer
LEMMA VisitSlotCloses ==
    ASSUME SessionInvariant, VisitSlot
    PROVE  (\E p \in Conns : Lifecycle!Close(p)) \/ UNCHANGED Lifecycle!vars
<1>0. PICK p : p = players[slot]
  OBVIOUS
<1>1. TypeOK /\ NoDanglingPlayer /\ SeatsAgree
  BY DEF SessionInvariant
<1>2. slot \in PlayerIds /\ UNCHANGED <<playerId, disconnected, pc>>
  BY <1>1 DEF VisitSlot, SlotsVisited, TypeOK, PlayerIds
<1>3. CASE p # NoConn /\ ReadyForRemoval(p)
  <2>1. /\ players' = [players EXCEPT ![slot] = NoConn]
        /\ life' = [life EXCEPT ![p] = "freed"]
    BY <1>0, <1>3 DEF VisitSlot
  <2>2. p \in Conns /\ life[p] = "live" /\ disconnected[p]
    BY <1>0, <1>1, <1>2, <1>3 DEF TypeOK, NoDanglingPlayer, ReadyForRemoval
  <2>3. \A i \in PlayerIds : players'[i] = IF i = slot THEN NoConn ELSE players[i]
    BY <1>1, <2>1 DEF TypeOK
  <2>4. \A i \in PlayerIds : players[i] = p => i = slot
    BY <1>0, <1>1, <1>2, <2>2, SeatsDistinct
  <2>5. ~Seated(p)'
    BY <2>2, <2>3, <2>4 DEF Seated
  <2>6. ASSUME NEW q \in Conns, q # p PROVE Seated(q)' = Seated(q)
    BY <1>0, <1>2, <2>3, <2>6 DEF Seated
  <2>7. Lifecycle!Close(p)
    BY <1>1, <1>2, <2>1, <2>2, <2>5, <2>6, FreedIsClosed
  <2> QED
    BY <2>2, <2>7
<1>4. CASE ~(p # NoConn /\ ReadyForRemoval(p))
  BY <1>0, <1>2, <1>4, Unseen DEF VisitSlot, worldVars
<1> QED
  BY <1>3, <1>4

\* ServerWorld_AddPlayer
LEMMA JoinSits ==
    ASSUME SessionInvariant, NEW i \in PlayerIds, NEW e \in EntityIds, Join(i, e)
    PROVE  \E p \in Conns : Lifecycle!Sit(p, i)
<1>0. PICK p : p = current.player
  OBVIOUS
<1>1. TypeOK /\ NoDanglingPlayer /\ SeatsAgree /\ MainPosition
  BY DEF SessionInvariant
<1>2. /\ pc = "join" /\ pc' = "finish" /\ players[i] = NoConn
      /\ players' = [players EXCEPT ![i] = p]
      /\ playerId' = [playerId EXCEPT ![p] = i]
      /\ UNCHANGED <<life, disconnected>>
  BY <1>0 DEF Join, MainAt, IsLeast, FreeSlots
<1>3. p \in Conns /\ life[p] = "live" /\ ~Seated(p)
  BY <1>0, <1>1, <1>2 DEF MainPosition, NoDanglingPlayer, Serving
<1>4. \A j \in PlayerIds : players'[j] = IF j = i THEN p ELSE players[j]
  BY <1>1, <1>2 DEF TypeOK
<1>5. \A q \in Conns : playerId'[q] = IF q = p THEN i ELSE playerId[q]
  BY <1>1, <1>2 DEF TypeOK
<1>6. Seated(p)' /\ Phase(p) = "open" /\ Phase(p)' = "seated" /\ SeatOf(p)' = i
  <2>1. Seated(p)'
    BY <1>4 DEF Seated
  <2> QED
    BY <1>2, <1>3, <1>5, <2>1 DEF Phase, SeatOf
<1>7. ASSUME NEW q \in Conns, q # p
      PROVE  Phase(q)' = Phase(q) /\ SeatOf(q)' = SeatOf(q)
  <2>1. Seated(q)' = Seated(q)
    BY <1>2, <1>4, <1>7 DEF Seated
  <2> QED
    BY <1>2, <1>5, <1>7, <2>1 DEF Phase, SeatOf
<1>8. /\ [q \in Conns |-> Phase(q)]' = [[q \in Conns |-> Phase(q)] EXCEPT ![p] = "seated"]
      /\ [q \in Conns |-> SeatOf(q)]' = [[q \in Conns |-> SeatOf(q)] EXCEPT ![p] = i]
  BY <1>6, <1>7
<1>9. ASSUME NEW q \in Conns PROVE SeatOf(q) # i
  <2>1. CASE Seated(q)
    <3>1. PICK j \in PlayerIds : players[j] = q
      BY <2>1 DEF Seated
    <3>2. playerId[q] = j /\ j # i
      BY <1>1, <1>2, <3>1, SeatFacts
    <3> QED
      BY <2>1, <3>2 DEF SeatOf
  <2>2. CASE ~Seated(q)
    BY <2>2 DEF SeatOf, PlayerIds
  <2> QED
    BY <2>1, <2>2
<1>10. Lifecycle!Sit(p, i)
  BY <1>2, <1>3, <1>6, <1>8, <1>9 DEF Lifecycle!Sit, SeatOf
<1> QED
  BY <1>3, <1>10

\* ServerPlayerManager_Shutdown
LEMMA WorldShutdownShutsDown ==
    ASSUME SessionInvariant, WorldShutdown
    PROVE  Lifecycle!ShutDown
<1>1. TypeOK /\ NoDanglingPlayer
  BY DEF SessionInvariant
<1>2. /\ pc = "worldDown" /\ pc' = "stopped"
      /\ life' = [p \in Conns |-> IF Seated(p) THEN "freed" ELSE life[p]]
      /\ players' = [i \in PlayerIds |-> NoConn]
      /\ UNCHANGED <<playerId, disconnected>>
  BY DEF WorldShutdown, MainAt, Seated
<1>3. \A p \in Conns : ~Seated(p)'
  BY <1>2 DEF Seated
<1>4. ASSUME NEW p \in Conns
      PROVE  /\ Phase(p)' = IF Phase(p) = "seated" THEN "closed" ELSE Phase(p)
             /\ SeatOf(p)' = -1
  <2>1. life'[p] = IF Seated(p) THEN "freed" ELSE life[p]
    BY <1>2
  <2>2. ~Seated(p)'
    BY <1>3
  <2>3. Seated(p) => life[p] = "live"
    BY <1>1 DEF Seated, NoDanglingPlayer
  <2>4. SeatOf(p)' = -1
    BY <2>2 DEF SeatOf
  <2>5. CASE Seated(p)
    <3>1. Phase(p) = "seated" /\ Phase(p)' = "closed"
      BY <2>1, <2>2, <2>3, <2>5 DEF Phase
    <3> QED
      BY <2>4, <3>1
  <2>6. CASE ~Seated(p)
    <3>1. Phase(p) # "seated" /\ Phase(p)' = Phase(p)
      BY <1>1, <2>1, <2>2, <2>6, PhaseIs DEF Phase
    <3> QED
      BY <2>4, <3>1
  <2> QED
    BY <2>5, <2>6
<1>5. /\ [p \in Conns |-> Phase(p)]' =
             [p \in Conns |-> IF [q \in Conns |-> Phase(q)][p] = "seated" THEN "closed"
                              ELSE [q \in Conns |-> Phase(q)][p]]
      /\ [p \in Conns |-> SeatOf(p)]' = [p \in Conns |-> -1]
  BY <1>4
<1> QED
  BY <1>2, <1>5 DEF Lifecycle!ShutDown, SeatOf

\* Every step of either thread is a step of the lifecycle, or none.
LEMMA StepsAreLifecycleSteps ==
    SessionInvariant /\ [Next]_vars => [Lifecycle!Next]_(Lifecycle!vars)
<1> SUFFICES ASSUME SessionInvariant, [Next]_vars
             PROVE  Lifecycle!Next \/ UNCHANGED Lifecycle!vars
  OBVIOUS
<1>1. ASSUME NEW p \in Conns, NEW e \in Peers \cup {NoPeer}, Connect(p, e)
      PROVE  Lifecycle!Next
  BY <1>1, ConnectOpens DEF Lifecycle!Next
<1>2. ASSUME NEW p \in Conns, Disconnect(p) PROVE Lifecycle!Next
  BY <1>2, DisconnectHangsUp DEF Lifecycle!Next
<1>3. ASSUME NEW p \in Conns, NEW op \in Ops, Receive(p, op) PROVE UNCHANGED Lifecycle!vars
  BY <1>3, Unseen DEF Receive, worldVars, mainVars
<1>4. ASSUME NEW t \in Threads, Destroy(t) PROVE Lifecycle!Next
  BY <1>4, DestroyCloses DEF Lifecycle!Next
<1>5. ASSUME NEW i \in PlayerIds, NEW e \in EntityIds, Join(i, e) PROVE Lifecycle!Next
  BY <1>5, JoinSits DEF Lifecycle!Next
<1>6. CASE VisitSlot
  BY <1>6, VisitSlotCloses DEF Lifecycle!Next
<1>7. CASE WorldShutdown
  BY <1>7, WorldShutdownShutsDown DEF Lifecycle!Next
<1>8. ASSUME \/ StartProcessing \/ QueueDrained \/ CheckPacket \/ HandleIdentification
             \/ HandleGameplay \/ RefuseJoin \/ FinishPacket \/ SlotsDone \/ NetworkShutdown
             \/ RequestStop \/ NetworkThreadReturns
             \/ \E m \in queue : TakePacket(m)
             \/ \E clockMoved \in BOOLEAN : UpdateEntities(clockMoved)
      PROVE  UNCHANGED Lifecycle!vars
  <2>1. /\ UNCHANGED <<life, players, playerId, disconnected>>
        /\ pc' = pc \/ (pc # "stopped" /\ pc' # "stopped")
    BY <1>8
    DEF StartProcessing, QueueDrained, CheckPacket, HandleIdentification, HandleGameplay,
        RefuseJoin, FinishPacket, SlotsDone, NetworkShutdown, RequestStop, NetworkThreadReturns,
        TakePacket, UpdateEntities, MainAt, playerVars, worldVars, mainVars
  <2> QED
    BY <2>1, Unseen
<1>9. CASE UNCHANGED vars \/ Terminated
  <2>1. UNCHANGED <<life, players, playerId, disconnected, pc>>
    BY <1>9 DEF Terminated, vars, playerVars, worldVars, mainVars
  <2> QED
    BY <2>1, Unseen
<1> QED
  BY <1>1, <1>2, <1>3, <1>4, <1>5, <1>6, <1>7, <1>8, <1>9 DEF Next, Transport, MainLoop

\* The server starts where the lifecycle does.
LEMMA StartsAsLifecycle == Init => Lifecycle!Init
<1> SUFFICES ASSUME Init PROVE Lifecycle!Init
  OBVIOUS
<1>1. TypeOK
  BY InitSession DEF SessionInvariant
<1>2. \A p \in Conns : ~Seated(p) /\ Phase(p) = "absent" /\ SeatOf(p) = -1
  BY <1>1 DEF Init, Seated, Phase, SeatOf
<1>3. disconnected = [p \in Conns |-> FALSE] /\ pc # "stopped"
  BY DEF Init
<1>4. (pc = "stopped") = FALSE
  BY <1>3
<1> QED
  BY <1>2, <1>3, <1>4 DEF Lifecycle!Init, SeatOf

\* The safety part of ImplementsLifecycle, for any number of connections, seats
\* and packets: two threads, a queue and a seat table open a connection once,
\* seat it where nobody sits, and close it once, only after it hung up or at
\* shutdown.
THEOREM ServerKeepsLifecycle == Spec => Lifecycle!SafeSpec
  BY StartsAsLifecycle, StepsAreLifecycleSteps, SessionInvariantHolds, PTL
  DEF Spec, Lifecycle!SafeSpec
=============================================================================
