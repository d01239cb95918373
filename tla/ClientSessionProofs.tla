------------------------- MODULE ClientSessionProofs -------------------------
(***************************************************************************)
(* Proofs about ClientSession, for every number of sessions and packets,   *)
(* every frame limit and every limit of textures.                          *)
(*                                                                         *)
(* First the queues: QueuesInvariant is about what waits in a queue,       *)
(* whether or not it is in hand, and holds however sessions overlap.  Then *)
(* the control: which flags, screens, steps and threads go together, if a  *)
(* session begins when the last one is wound up.                           *)
(***************************************************************************)
EXTENDS ClientSession, SequenceFacts, FiniteSetTheorems

----------------------------------------------------------------------------
(* What waits in one queue.                                                *)

\* w is what waits in queue q behind packet l, of n packets that arrived.
InLane(q, w, l, n) ==
    /\ w \in Seq(Packets)
    /\ \A i \in DOMAIN w :
           /\ l < w[i].no /\ w[i].no <= n /\ QueueOf(w[i].kind) = q
           /\ \A j \in 1 .. i - 1 : w[j].no < w[i].no

\* Numbers of packets are numbers, and no packet is NoPacket.
LEMMA PacketFacts ==
    /\ \A m \in Packets : /\ m.no \in Nat /\ m.of \in Sessions /\ m.kind \in Kinds
                          /\ m # NoPacket
    /\ Sessions \subseteq Nat \ {0}
<1>1. MaxArrivals \in Nat /\ MaxSessions \in Nat
  BY ClientAssumption
<1>2. Sessions \subseteq Nat \ {0} /\ 1 .. MaxArrivals \subseteq Nat \ {0}
  BY <1>1 DEF Sessions
<1>3. ASSUME NEW m \in Packets
      PROVE  m.no \in Nat /\ m.of \in Sessions /\ m.kind \in Kinds /\ m # NoPacket
  BY <1>2, <1>3 DEF Packets, NoPacket
<1> QED
  BY <1>2, <1>3

\* Nothing waits in order.
LEMMA LaneEmpty ==
    ASSUME NEW q, NEW l, NEW n
    PROVE  InLane(q, <<>>, l, n)
  BY EmptySeq DEF InLane

\* What waits goes on waiting while packets arrive elsewhere.
LEMMA LaneKept ==
    ASSUME NEW q, NEW l \in Nat, NEW n \in Nat, NEW w, InLane(q, w, l, n)
    PROVE  InLane(q, w, l, n + 1)
<1>1. w \in Seq(Packets) /\ \A i \in DOMAIN w : w[i] \in Packets
  BY LenProperties DEF InLane
<1>2. \A i \in DOMAIN w : w[i].no <= n + 1
  BY <1>1, PacketFacts DEF InLane
<1> QED
  BY <1>2 DEF InLane

\* The next packet arrives.
LEMMA LaneGrows ==
    ASSUME NEW q, NEW l \in Nat, NEW n \in Nat, l <= n, NEW w, InLane(q, w, l, n),
           NEW m \in Packets, m.no = n + 1, QueueOf(m.kind) = q,
           NEW t, t = Append(w, m)
    PROVE  InLane(q, t, l, n + 1) /\ m \notin ToSet(w)
<1>1. w \in Seq(Packets)
  BY DEF InLane
<1>2. /\ t \in Seq(Packets) /\ Len(w) \in Nat /\ Len(t) = Len(w) + 1
      /\ DOMAIN w = 1 .. Len(w) /\ DOMAIN t = 1 .. (Len(w) + 1)
      /\ \A i \in 1 .. Len(w) : t[i] = w[i]
      /\ t[Len(w) + 1] = m
  BY <1>1, AppendIs
<1>3. \A i \in 1 .. Len(w) : w[i] \in Packets /\ w[i].no \in Nat
  BY <1>1, PacketFacts, ElementOfSeq
<1>4. \A i \in 1 .. Len(w) : /\ l < w[i].no /\ w[i].no <= n /\ QueueOf(w[i].kind) = q
                             /\ \A j \in 1 .. i - 1 : w[j].no < w[i].no
  BY <1>2 DEF InLane
<1>5. ASSUME NEW i \in 1 .. (Len(w) + 1)
      PROVE  /\ l < t[i].no /\ t[i].no <= n + 1 /\ QueueOf(t[i].kind) = q
             /\ \A j \in 1 .. i - 1 : t[j].no < t[i].no
  <2>1. CASE i = Len(w) + 1
    <3>1. t[i] = m /\ \A j \in 1 .. i - 1 : j \in 1 .. Len(w) /\ t[j] = w[j]
      BY <1>2, <2>1
    <3>2. \A j \in 1 .. i - 1 : t[j].no < t[i].no
      BY <1>3, <1>4, <3>1
    <3> QED
      BY <3>1, <3>2
  <2>2. CASE i # Len(w) + 1
    <3>1. /\ i \in 1 .. Len(w) /\ t[i] = w[i]
          /\ \A j \in 1 .. i - 1 : j \in 1 .. Len(w) /\ t[j] = w[j]
      BY <1>2, <2>2
    <3> QED
      BY <1>3, <1>4, <3>1
  <2> QED
    BY <2>1, <2>2
<1>6. m \notin ToSet(w)
  <2> SUFFICES ASSUME NEW i \in 1 .. Len(w), w[i] = m PROVE FALSE
    BY <1>2 DEF ToSet
  <2> QED
    BY <1>3, <1>4
<1> QED
  BY <1>2, <1>5, <1>6 DEF InLane

\* The first packet leaves.
LEMMA LaneShrinks ==
    ASSUME NEW q, NEW l \in Nat, NEW n \in Nat, NEW w, InLane(q, w, l, n), w # <<>>,
           NEW t, t = Tail(w)
    PROVE  /\ Head(w) \in Packets /\ Head(w) \in ToSet(w) /\ Head(w).no <= n
           /\ QueueOf(Head(w).kind) = q
           /\ InLane(q, t, Head(w).no, n)
           /\ Head(w) \notin ToSet(t) /\ ToSet(w) = {Head(w)} \cup ToSet(t)
<1>1. w \in Seq(Packets)
  BY DEF InLane
<1>2. /\ t \in Seq(Packets) /\ Len(w) \in Nat \ {0} /\ Len(t) = Len(w) - 1
      /\ DOMAIN w = 1 .. Len(w) /\ DOMAIN t = 1 .. (Len(w) - 1)
      /\ \A i \in 1 .. (Len(w) - 1) : t[i] = w[i + 1]
      /\ Head(w) = w[1] /\ Head(w) \in Packets
  BY <1>1, TailIs
<1>3. ToSet(w) = {Head(w)} \cup ToSet(t) /\ Head(w) \in ToSet(w)
  BY <1>1, TailFacts
<1>4. \A i \in 1 .. Len(w) : /\ l < w[i].no /\ w[i].no <= n /\ QueueOf(w[i].kind) = q
                             /\ \A j \in 1 .. i - 1 : w[j].no < w[i].no
  BY <1>2 DEF InLane
<1>5. \A i \in 1 .. Len(w) : w[i] \in Packets /\ w[i].no \in Nat
  BY <1>1, PacketFacts, ElementOfSeq
<1>6. ASSUME NEW i \in 1 .. (Len(w) - 1)
      PROVE  /\ Head(w).no < t[i].no /\ t[i].no <= n /\ QueueOf(t[i].kind) = q
             /\ \A j \in 1 .. i - 1 : t[j].no < t[i].no
  <2>1. /\ i + 1 \in 1 .. Len(w) /\ t[i] = w[i + 1] /\ 1 \in 1 .. (i + 1) - 1
        /\ \A j \in 1 .. i - 1 : j + 1 \in 1 .. (i + 1) - 1 /\ t[j] = w[j + 1]
    BY <1>2
  <2>2. \A k \in 1 .. (i + 1) - 1 : w[k].no < w[i + 1].no
    BY <1>4, <2>1
  <2> QED
    BY <1>2, <1>4, <2>1, <2>2
<1>7. Head(w) \notin ToSet(t)
  <2> SUFFICES ASSUME NEW i \in 1 .. (Len(w) - 1), t[i] = Head(w) PROVE FALSE
    BY <1>2 DEF ToSet
  <2>1. Head(w).no \in Nat
    BY <1>2, PacketFacts
  <2> QED
    BY <1>6, <2>1
<1>8. Head(w).no <= n /\ QueueOf(Head(w).kind) = q
  <2>1. 1 \in 1 .. Len(w)
    BY <1>2
  <2> QED
    BY <1>2, <1>4, <2>1
<1> QED
  BY <1>2, <1>3, <1>6, <1>7, <1>8 DEF InLane

\* The packets of textures among those that wait.
TexturesOf(w) == {m \in ToSet(w) : IsTexture(m)}

\* There are finitely many.
LEMMA TexturesFinite ==
    ASSUME NEW w \in Seq(Packets)
    PROVE  IsFiniteSet(TexturesOf(w)) /\ Cardinality(TexturesOf(w)) \in Nat
<1>1. /\ Len(w) \in Nat /\ DOMAIN w = 1 .. Len(w) /\ w \in [1 .. Len(w) -> Packets]
  BY LenProperties
<1>2. w \in Surjection(1 .. Len(w), ToSet(w))
  BY <1>1 DEF Surjection, ToSet
<1>3. IsFiniteSet(1 .. Len(w))
  BY <1>1, FS_Interval
<1>4. IsFiniteSet(ToSet(w))
  BY <1>2, <1>3, FS_Surjection
<1>5. TexturesOf(w) \in SUBSET ToSet(w)
  BY DEF TexturesOf
<1>6. IsFiniteSet(TexturesOf(w))
  BY <1>4, <1>5, FS_Subset
<1> QED
  BY <1>6, FS_CardinalityType

\* One more packet is one more texture, or none.
LEMMA TexturesGrow ==
    ASSUME NEW w \in Seq(Packets), NEW m \in Packets, m \notin ToSet(w),
           NEW t, t = Append(w, m)
    PROVE  Cardinality(TexturesOf(t)) =
               IF IsTexture(m) THEN Cardinality(TexturesOf(w)) + 1
               ELSE Cardinality(TexturesOf(w))
<1>1. ToSet(t) = ToSet(w) \cup {m}
  BY AppendFacts
<1>2. TexturesOf(t) = IF IsTexture(m) THEN TexturesOf(w) \cup {m} ELSE TexturesOf(w)
  BY <1>1 DEF TexturesOf
<1>3. m \notin TexturesOf(w)
  BY DEF TexturesOf
<1>4. IsFiniteSet(TexturesOf(w))
  BY TexturesFinite
<1>5. Cardinality(TexturesOf(w) \cup {m}) = Cardinality(TexturesOf(w)) + 1
  BY <1>3, <1>4, FS_AddElement
<1> QED
  BY <1>2, <1>5

\* One less is one texture less, or none.
LEMMA TexturesShrink ==
    ASSUME NEW w \in Seq(Packets), NEW t \in Seq(Packets), NEW m,
           m \notin ToSet(t), ToSet(w) = {m} \cup ToSet(t)
    PROVE  Cardinality(TexturesOf(w)) =
               IF IsTexture(m) THEN Cardinality(TexturesOf(t)) + 1
               ELSE Cardinality(TexturesOf(t))
<1>1. TexturesOf(w) = IF IsTexture(m) THEN TexturesOf(t) \cup {m} ELSE TexturesOf(t)
  BY DEF TexturesOf
<1>2. m \notin TexturesOf(t)
  BY DEF TexturesOf
<1>3. IsFiniteSet(TexturesOf(t))
  BY TexturesFinite
<1>4. Cardinality(TexturesOf(t) \cup {m}) = Cardinality(TexturesOf(t)) + 1
  BY <1>2, <1>3, FS_AddElement
<1> QED
  BY <1>1, <1>4

\* A packet appended to the second of two sequences is appended to both.
LEMMA AppendToBoth ==
    ASSUME NEW S, NEW s \in Seq(S), NEW t \in Seq(S), NEW e \in S,
           NEW u, u = Append(t, e), NEW v, v = s \o t
    PROVE  s \o u = Append(v, e)
<1>1. Append(t, e) = t \o <<e>> /\ <<e>> \in Seq(S)
  BY AppendIsConcat
<1>2. s \o t \in Seq(S)
  BY ConcatProperties
<1>3. Append(s \o t, e) = (s \o t) \o <<e>>
  BY <1>2, AppendIsConcat
<1> QED
  BY <1>1, <1>3, ConcatAssociative

\* The head of the first is the head of both.
LEMMA HeadOfBoth ==
    ASSUME NEW S, NEW s \in Seq(S), NEW t \in Seq(S), s # <<>>
    PROVE  /\ s \o t # <<>> /\ Head(s \o t) = Head(s)
           /\ Tail(s \o t) = Tail(s) \o t
<1> DEFINE u == s \o t
<1>1. /\ u \in Seq(S) /\ Len(u) = Len(s) + Len(t) /\ Len(t) \in Nat
      /\ \A i \in 1 .. Len(s) + Len(t) :
             u[i] = IF i <= Len(s) THEN s[i] ELSE t[i - Len(s)]
  BY ConcatProperties, LenProperties
<1>2. /\ Tail(s) \in Seq(S) /\ Len(s) \in Nat \ {0} /\ Len(Tail(s)) = Len(s) - 1
      /\ \A i \in 1 .. (Len(s) - 1) : Tail(s)[i] = s[i + 1]
      /\ Head(s) = s[1]
  BY TailIs
<1>3. u # <<>>
  BY <1>1, <1>2, EmptySeq
<1> HIDE DEF u
<1>4. /\ Tail(u) \in Seq(S) /\ Len(Tail(u)) = Len(u) - 1
      /\ \A i \in 1 .. (Len(u) - 1) : Tail(u)[i] = u[i + 1]
      /\ Head(u) = u[1]
  BY <1>1, <1>3, TailIs
<1> DEFINE v == Tail(s) \o t
<1>5. /\ v \in Seq(S) /\ Len(v) = Len(s) - 1 + Len(t)
      /\ \A i \in 1 .. Len(s) - 1 + Len(t) :
             v[i] = IF i <= Len(s) - 1 THEN Tail(s)[i] ELSE t[i - (Len(s) - 1)]
  BY <1>2, ConcatProperties
<1> HIDE DEF v
<1>6. ASSUME NEW i \in 1 .. Len(v) PROVE v[i] = Tail(u)[i]
  <2>1. /\ i \in 1 .. Len(s) - 1 + Len(t) /\ i \in 1 .. (Len(u) - 1)
        /\ i + 1 \in 1 .. Len(s) + Len(t)
    BY <1>1, <1>2, <1>5
  <2>2. CASE i <= Len(s) - 1
    BY <1>1, <1>2, <1>4, <1>5, <2>1, <2>2
  <2>3. CASE ~(i <= Len(s) - 1)
    <3>1. v[i] = t[i - (Len(s) - 1)] /\ Tail(u)[i] = t[i + 1 - Len(s)]
      BY <1>1, <1>2, <1>4, <1>5, <2>1, <2>3
    <3>2. i - (Len(s) - 1) = i + 1 - Len(s)
      BY <1>2
    <3> QED
      BY <3>1, <3>2
  <2> QED
    BY <2>2, <2>3
<1>7. Len(v) = Len(Tail(u))
  BY <1>1, <1>2, <1>4, <1>5
<1>8. v = Tail(u)
  BY <1>4, <1>5, <1>6, <1>7, SeqEqual
<1>9. Head(u) = Head(s)
  BY <1>1, <1>2, <1>4
<1> QED
  BY <1>3, <1>8, <1>9 DEF u, v

\* A sequence cut in two.
LEMMA CutInTwo ==
    ASSUME NEW S, NEW s \in Seq(S), NEW n \in 0 .. Len(s)
    PROVE  /\ SubSeq(s, 1, n) \in Seq(S) /\ Len(SubSeq(s, 1, n)) = n
           /\ SubSeq(s, n + 1, Len(s)) \in Seq(S)
           /\ SubSeq(s, 1, n) \o SubSeq(s, n + 1, Len(s)) = s
<1>1. Len(s) \in Nat /\ \A i \in 1 .. Len(s) : s[i] \in S
  BY LenProperties, ElementOfSeq
<1>2. SubSeq(s, 1, n) \in Seq(S) /\ Len(SubSeq(s, 1, n)) = n
  BY <1>1, SubSeqProperties
<1>3. SubSeq(s, n + 1, Len(s)) \in Seq(S)
  BY <1>1, SubSeqProperties
<1>4. SubSeq(s, 1, n) \o SubSeq(s, n + 1, Len(s)) = SubSeq(s, 1, Len(s))
  <2>1. 1 \in 1 .. Len(s) + 1 /\ n \in 1 - 1 .. Len(s) /\ Len(s) \in n .. Len(s)
    BY <1>1
  <2> QED
    BY <2>1, ConcatAdjacentSubSeq
<1> QED
  BY <1>2, <1>3, <1>4, SubSeqFull

----------------------------------------------------------------------------
(* The queues and the hand.                                                *)

QueueTypes ==
    /\ queue \in [Queues -> Seq(Packets)] /\ hand \in [Queues -> Seq(Packets)]
    /\ textureBytes \in Nat /\ arrivals \in 0 .. MaxArrivals
    /\ running \in Packets \cup {NoPacket}
    /\ executed \in 0 .. FrameLimit
    /\ last \in [Queues -> 0 .. MaxArrivals]
    /\ latest \in 0 .. MaxSessions
    /\ local # "none" => latest > 0

Lanes ==
    \A q \in Queues : last[q] <= arrivals /\ InLane(q, Waiting(q), last[q], arrivals)

\* What holds of the queues, whether or not sessions overlap.
QueuesInvariant == QueueTypes /\ Lanes /\ TextureBytesExact /\ HandsInStep

\* Sequences of packets, joined.
LEMMA WaitingType ==
    ASSUME QueueTypes, NEW q \in Queues
    PROVE  Waiting(q) \in Seq(Packets) /\ hand[q] \in Seq(Packets) /\ queue[q] \in Seq(Packets)
  BY ConcatProperties DEF QueueTypes, Waiting

\* Lanes is what ClientInvariant says of the order and the place of packets.
LEMMA LanesAre ==
    ASSUME QueueTypes
    PROVE  Lanes <=> QueuesInOrder /\ PacketsInPlace
<1>1. ASSUME Lanes PROVE QueuesInOrder /\ PacketsInPlace
  BY <1>1 DEF Lanes, InLane, QueuesInOrder, PacketsInPlace, ToSet
<1>2. ASSUME QueuesInOrder, PacketsInPlace PROVE Lanes
  <2> SUFFICES ASSUME NEW q \in Queues
               PROVE  last[q] <= arrivals /\ InLane(q, Waiting(q), last[q], arrivals)
    BY DEF Lanes
  <2>1. /\ \A i \in DOMAIN Waiting(q) : /\ last[q] < Waiting(q)[i].no
                                        /\ \A j \in 1 .. i - 1 :
                                               Waiting(q)[j].no < Waiting(q)[i].no
        /\ last[q] <= arrivals
    BY <1>2 DEF QueuesInOrder, PacketsInPlace
  <2>2. \A i \in DOMAIN Waiting(q) : /\ Waiting(q)[i].no <= arrivals
                                     /\ QueueOf(Waiting(q)[i].kind) = q
    BY <1>2 DEF PacketsInPlace, ToSet
  <2>3. Waiting(q) \in Seq(Packets)
    BY WaitingType
  <2> QED
    BY <2>1, <2>2, <2>3 DEF InLane
<1> QED
  BY <1>1, <1>2

\* A count of textures, by its name here.
LEMMA BytesAre == TextureBytesExact <=> textureBytes = Cardinality(TexturesOf(Waiting("gameplay")))
  BY DEF TextureBytesExact, TexturesOf

\* Steps that touch no queue.
LEMMA QueuesKept ==
    ASSUME QueuesInvariant,
           UNCHANGED <<queueVars, hand, executed, last>>, running' \in {running, NoPacket},
           latest' \in 0 .. MaxSessions, local' # "none" => latest' > 0,
           step' = step \/ ({step, step'} \cap {"gameplay", "terrain"} = {})
    PROVE  QueuesInvariant'
<1>1. QueueTypes'
  BY DEF QueuesInvariant, QueueTypes, queueVars
<1>2. /\ queue' = queue /\ hand' = hand /\ textureBytes' = textureBytes
      /\ arrivals' = arrivals /\ last' = last /\ executed' = executed
  BY DEF queueVars
<1>3. \A q : Waiting(q)' = Waiting(q)
  BY <1>2 DEF Waiting
<1>4. Lanes'
  BY <1>2, <1>3 DEF QueuesInvariant, Lanes
<1>5. TextureBytesExact'
  BY <1>2, <1>3 DEF QueuesInvariant, TextureBytesExact
<1>6. HandsInStep'
  BY <1>2 DEF QueuesInvariant, HandsInStep
<1> QED
  BY <1>1, <1>4, <1>5, <1>6 DEF QueuesInvariant

\* Network_Receive
LEMMA AcceptKeepsQueues ==
    ASSUME QueuesInvariant, NEW s \in Sessions, NEW kind \in Kinds, Accept(s, kind),
           UNCHANGED <<handVars, step, latest, local>>
    PROVE  /\ QueuesInvariant'
           /\ \A o \in Queues : \A x \in ToSet(Waiting(o)') : x \in ToSet(Waiting(o)) \/ x.of = s
<1> DEFINE q == QueueOf(kind)
           m == [of |-> s, no |-> arrivals + 1, kind |-> kind]
<1>1. q \in Queues
  BY DEF QueueOf, Queues
<1>2. /\ arrivals \in Nat /\ arrivals' = arrivals + 1 /\ arrivals' \in 0 .. MaxArrivals
      /\ m \in Packets /\ m.no = arrivals + 1 /\ m.kind = kind
  BY ClientAssumption DEF QueuesInvariant, QueueTypes, Accept, Packets
<1>3. queue' = [queue EXCEPT ![q] = Append(queue[q], m)]
  BY DEF Accept
<1>4. textureBytes' = IF kind = "texture" THEN textureBytes + 1 ELSE textureBytes
  BY DEF Accept
<1> HIDE DEF m, q
<1>5. /\ QueueTypes /\ Lanes /\ textureBytes = Cardinality(TexturesOf(Waiting("gameplay")))
      /\ textureBytes \in Nat
  BY BytesAre DEF QueuesInvariant, QueueTypes
<1>6. hand' = hand /\ last' = last /\ executed' = executed /\ running' = running
  BY DEF handVars
<1>7. queue[q] \in Seq(Packets) /\ hand[q] \in Seq(Packets) /\ Waiting(q) \in Seq(Packets)
  BY <1>1, <1>5, WaitingType
<1>8. Append(queue[q], m) \in Seq(Packets)
  BY <1>2, <1>7, AppendProperties
<1>9. /\ queue' \in [Queues -> Seq(Packets)]
      /\ queue'[q] = Append(queue[q], m) /\ \A o \in Queues \ {q} : queue'[o] = queue[o]
  BY <1>1, <1>3, <1>5, <1>8 DEF QueueTypes
<1>10. hand[q] \o queue'[q] = Append(Waiting(q), m)
  <2> DEFINE h == hand[q]
             before == queue[q]
             after == queue'[q]
             w == Waiting(q)
  <2>1. /\ h \in Seq(Packets) /\ before \in Seq(Packets) /\ m \in Packets
        /\ after = Append(before, m) /\ w = h \o before
    BY <1>2, <1>7, <1>9 DEF Waiting
  <2> HIDE DEF h, before, after, w
  <2>2. h \o after = Append(w, m)
    BY <2>1, AppendToBoth
  <2> QED
    BY <2>2 DEF h, after, w
<1>11. /\ \A o : Waiting(o)' = hand[o] \o queue'[o]
       /\ \A o \in Queues \ {q} : hand[o] \o queue'[o] = Waiting(o)
  BY <1>6, <1>9 DEF Waiting
<1>12. last[q] \in Nat /\ last[q] <= arrivals /\ InLane(q, Waiting(q), last[q], arrivals)
  BY <1>1, <1>5, ClientAssumption DEF Lanes, QueueTypes
<1>13. q = QueueOf(m.kind)
  BY <1>2 DEF q
<1>14. InLane(q, hand[q] \o queue'[q], last[q], arrivals + 1) /\ m \notin ToSet(Waiting(q))
  BY <1>2, <1>10, <1>12, <1>13, LaneGrows
<1>15. \A o \in Queues \ {q} : InLane(o, hand[o] \o queue'[o], last[o], arrivals + 1)
  <2> SUFFICES ASSUME NEW o \in Queues \ {q}
               PROVE  InLane(o, hand[o] \o queue'[o], last[o], arrivals + 1)
    OBVIOUS
  <2>1. last[o] \in Nat /\ InLane(o, Waiting(o), last[o], arrivals)
    BY <1>5, ClientAssumption DEF Lanes, QueueTypes
  <2>2. InLane(o, Waiting(o), last[o], arrivals + 1)
    BY <1>2, <2>1, LaneKept
  <2> QED
    BY <1>11, <2>2
<1>16. \A o \in Queues : last[o] <= arrivals + 1
  <2> SUFFICES ASSUME NEW o \in Queues PROVE last[o] <= arrivals + 1
    OBVIOUS
  <2>1. last[o] \in Nat /\ last[o] <= arrivals
    BY <1>5, ClientAssumption DEF Lanes, QueueTypes
  <2> QED
    BY <1>2, <2>1
<1>17. Lanes'
  BY <1>2, <1>6, <1>11, <1>14, <1>15, <1>16 DEF Lanes
<1>18. QueueTypes'
  BY <1>2, <1>4, <1>5, <1>6, <1>9 DEF QueueTypes
<1>19. textureBytes' = Cardinality(TexturesOf(Waiting("gameplay")'))
  <2>1. CASE q = "gameplay"
    <3>1. Cardinality(TexturesOf(Append(Waiting(q), m))) =
              IF IsTexture(m) THEN Cardinality(TexturesOf(Waiting(q))) + 1
              ELSE Cardinality(TexturesOf(Waiting(q)))
      BY <1>2, <1>7, <1>14, TexturesGrow
    <3>2. IsTexture(m) <=> kind = "texture"
      BY <1>2 DEF IsTexture
    <3>3. Waiting("gameplay")' = Append(Waiting(q), m)
      BY <1>10, <1>11, <2>1
    <3> QED
      BY <1>4, <1>5, <2>1, <3>1, <3>2, <3>3
  <2>2. CASE q # "gameplay"
    <3>1. kind # "texture"
      BY <2>2 DEF q, QueueOf, TerrainKinds
    <3>2. Waiting("gameplay")' = Waiting("gameplay")
      BY <1>11, <2>2 DEF Queues
    <3> QED
      BY <1>4, <1>5, <3>1, <3>2
  <2> QED
    BY <2>1, <2>2
<1>20. HandsInStep'
  BY <1>6 DEF QueuesInvariant, HandsInStep
<1>21. TextureBytesExact'
  BY <1>19 DEF TextureBytesExact, TexturesOf
<1>22. ASSUME NEW o \in Queues, NEW x \in ToSet(Waiting(o)')
       PROVE  x \in ToSet(Waiting(o)) \/ x.of = s
  <2>1. CASE o = q
    <3>1. ToSet(Append(Waiting(q), m)) = ToSet(Waiting(q)) \cup {m}
      BY <1>2, <1>7, AppendFacts
    <3>2. Waiting(o)' = Append(Waiting(q), m)
      BY <1>10, <1>11, <2>1
    <3>3. m.of = s
      BY DEF m
    <3> QED
      BY <1>22, <2>1, <3>1, <3>2, <3>3
  <2>2. CASE o # q
    BY <1>11, <1>22, <2>2
  <2> QED
    BY <2>1, <2>2
<1>23. QueuesInvariant'
  BY <1>17, <1>18, <1>20, <1>21 DEF QueuesInvariant
<1> QED
  BY <1>22, <1>23

\* Network_ExecutePacket
LEMMA ExecuteKeepsQueues ==
    ASSUME QueuesInvariant, ExecuteGameplay \/ ExecuteTerrain
    PROVE  /\ QueuesInvariant'
           /\ running' = NoPacket \/ \E q \in Queues : running' \in ToSet(Waiting(q))
           /\ \A o \in Queues : ToSet(Waiting(o)') \subseteq ToSet(Waiting(o))
<1>1. PICK q \in Queues : /\ Execute(q) /\ step = q /\ step' = step
                          /\ executed' = IF q = "terrain" THEN executed + 1 ELSE executed
  BY DEF ExecuteGameplay, ExecuteTerrain, Queues
<1> DEFINE m == Head(hand[q])
           w == Waiting(q)
<1>2. /\ hand[q] # <<>> /\ textureBytes' = Uncounted(m)
      /\ hand' = [hand EXCEPT ![q] = Tail(hand[q])]
      /\ last' = [last EXCEPT ![q] = m.no]
      /\ running' \in {NoPacket, m}
      /\ queue' = queue /\ arrivals' = arrivals /\ latest' = latest /\ local' = local
  BY <1>1 DEF Execute
<1>3. /\ QueueTypes /\ Lanes /\ textureBytes = Cardinality(TexturesOf(Waiting("gameplay")))
      /\ HandsInStep
  BY BytesAre DEF QueuesInvariant
<1>4. queue[q] \in Seq(Packets) /\ hand[q] \in Seq(Packets) /\ w \in Seq(Packets)
  BY <1>3, WaitingType
<1>5. w # <<>> /\ Head(w) = m /\ Tail(w) = Tail(hand[q]) \o queue[q]
  BY <1>2, <1>4, HeadOfBoth DEF Waiting
<1>6. /\ Tail(hand[q]) \in Seq(Packets) /\ Len(hand[q]) \in Nat \ {0}
      /\ Len(Tail(hand[q])) = Len(hand[q]) - 1
  BY <1>2, <1>4, TailIs
<1>7. /\ hand' \in [Queues -> Seq(Packets)]
      /\ hand'[q] = Tail(hand[q]) /\ \A o \in Queues \ {q} : hand'[o] = hand[o]
  BY <1>2, <1>3, <1>6 DEF QueueTypes
<1>8. /\ Waiting(q)' = Tail(w)
      /\ \A o \in Queues \ {q} : Waiting(o)' = Waiting(o)
  BY <1>2, <1>5, <1>7 DEF Waiting
<1>9. last[q] \in Nat /\ arrivals \in Nat /\ InLane(q, w, last[q], arrivals)
  BY <1>3, ClientAssumption DEF Lanes, QueueTypes
<1> HIDE DEF m, w
<1>10. /\ m \in Packets /\ m \in ToSet(w) /\ m.no <= arrivals
       /\ QueueOf(m.kind) = q
       /\ InLane(q, Tail(w), m.no, arrivals)
       /\ m \notin ToSet(Tail(w)) /\ ToSet(w) = {m} \cup ToSet(Tail(w))
  BY <1>5, <1>9, LaneShrinks
<1>11. /\ m.no \in 0 .. MaxArrivals
       /\ last' \in [Queues -> 0 .. MaxArrivals]
       /\ last'[q] = m.no /\ \A o \in Queues \ {q} : last'[o] = last[o]
  <2>1. m.no \in 0 .. MaxArrivals
    BY <1>10, ClientAssumption DEF Packets
  <2> QED
    BY <1>2, <1>3, <2>1 DEF QueueTypes
<1>12. Lanes'
  <2> SUFFICES ASSUME NEW o \in Queues
               PROVE  last'[o] <= arrivals' /\ InLane(o, Waiting(o)', last'[o], arrivals')
    BY DEF Lanes
  <2>1. CASE o = q
    BY <1>2, <1>8, <1>10, <1>11, <2>1
  <2>2. CASE o # q
    BY <1>2, <1>3, <1>8, <1>11, <2>2 DEF Lanes
  <2> QED
    BY <2>1, <2>2
<1>13. HandsInStep' /\ executed' \in 0 .. FrameLimit
  <2>1. /\ executed \in 0 .. FrameLimit /\ executed + Len(hand["terrain"]) <= FrameLimit
        /\ step = "terrain" => hand["gameplay"] = <<>>
        /\ FrameLimit \in Nat
    BY <1>3, ClientAssumption DEF QueueTypes, HandsInStep
  <2>2. CASE q = "gameplay"
    BY <1>1, <1>7, <2>1, <2>2 DEF HandsInStep, Queues
  <2>3. CASE q = "terrain"
    <3>1. executed' = executed + 1 /\ Len(hand'["terrain"]) = Len(hand["terrain"]) - 1
      BY <1>1, <1>6, <1>7, <2>3
    <3>2. hand'["gameplay"] = <<>> /\ step' = "terrain"
      BY <1>1, <1>7, <2>1, <2>3 DEF Queues
    <3>3. Len(hand["terrain"]) \in Nat \ {0}
      BY <1>6, <2>3
    <3>4. executed' + Len(hand'["terrain"]) <= FrameLimit /\ executed' \in 0 .. FrameLimit
      <4> DEFINE k == Len(hand["terrain"])
                 l == Len(hand'["terrain"])
      <4>1. /\ executed' = executed + 1 /\ l = k - 1 /\ k \in Nat \ {0}
            /\ executed \in 0 .. FrameLimit /\ executed + k <= FrameLimit /\ FrameLimit \in Nat
        BY <2>1, <3>1, <3>3
      <4> HIDE DEF k, l
      <4>2. executed' + l <= FrameLimit /\ executed' \in 0 .. FrameLimit
        BY <4>1
      <4> QED
        BY <4>2 DEF l
    <3> QED
      BY <3>2, <3>4 DEF HandsInStep
  <2> QED
    BY <2>2, <2>3 DEF Queues
<1>14. textureBytes' = Cardinality(TexturesOf(Waiting("gameplay")')) /\ textureBytes' \in Nat
  <2>1. CASE q = "gameplay"
    <3>1. Tail(w) \in Seq(Packets)
      BY <1>10 DEF InLane
    <3>2. Cardinality(TexturesOf(w)) =
              IF IsTexture(m) THEN Cardinality(TexturesOf(Tail(w))) + 1
              ELSE Cardinality(TexturesOf(Tail(w)))
      BY <1>4, <1>10, <3>1, TexturesShrink DEF w
    <3>3. Cardinality(TexturesOf(Tail(w))) \in Nat
      BY <3>1, TexturesFinite
    <3>4. textureBytes = Cardinality(TexturesOf(w))
      BY <1>3, <2>1 DEF w
    <3>5. textureBytes' = Cardinality(TexturesOf(Tail(w)))
      BY <1>2, <3>2, <3>3, <3>4 DEF Uncounted
    <3> QED
      BY <1>8, <2>1, <3>3, <3>5
  <2>2. CASE q # "gameplay"
    <3>1. ~IsTexture(m)
      BY <1>10, <2>2 DEF QueueOf, IsTexture, TerrainKinds
    <3>2. textureBytes' = textureBytes
      BY <1>2, <3>1 DEF Uncounted
    <3>3. Waiting("gameplay")' = Waiting("gameplay")
      BY <1>8, <2>2 DEF Queues
    <3> QED
      BY <1>3, <3>2, <3>3 DEF QueueTypes
  <2> QED
    BY <2>1, <2>2
<1>15. QueueTypes'
  BY <1>2, <1>3, <1>7, <1>10, <1>11, <1>13, <1>14 DEF QueueTypes
<1>16. TextureBytesExact'
  BY <1>14 DEF TextureBytesExact, TexturesOf
<1>17. running' = NoPacket \/ \E o \in Queues : running' \in ToSet(Waiting(o))
  BY <1>2, <1>10 DEF w
<1>18. ASSUME NEW o \in Queues PROVE ToSet(Waiting(o)') \subseteq ToSet(Waiting(o))
  BY <1>8, <1>10 DEF w
<1>19. QueuesInvariant'
  BY <1>12, <1>13, <1>15, <1>16 DEF QueuesInvariant
<1> QED
  BY <1>17, <1>18, <1>19

\* What waits is the same, only more or less of it is in hand.
LEMMA SameWaiting ==
    ASSUME QueuesInvariant,
           queue' \in [Queues -> Seq(Packets)], hand' \in [Queues -> Seq(Packets)],
           \A q \in Queues : Waiting(q)' = Waiting(q),
           HandsInStep', executed' \in 0 .. FrameLimit,
           UNCHANGED <<textureBytes, arrivals, running, last, latest, local>>
    PROVE  QueuesInvariant'
<1>1. QueueTypes /\ Lanes /\ TextureBytesExact
  BY DEF QueuesInvariant
<1>2. QueueTypes'
  BY <1>1 DEF QueueTypes
<1>3. Lanes'
  BY <1>1 DEF Lanes
<1>4. Waiting("gameplay")' = Waiting("gameplay")
  BY DEF Queues
<1>5. TextureBytesExact'
  BY <1>1, <1>4 DEF TextureBytesExact
<1> QED
  BY <1>2, <1>3, <1>5 DEF QueuesInvariant

\* Network_ProcessIncomingPackets, second critical section
LEMMA TakePacketsKeepsQueues ==
    ASSUME QueuesInvariant, TakePackets
    PROVE  /\ QueuesInvariant'
           /\ \A q \in Queues : Waiting(q)' = Waiting(q)
<1>1. QueueTypes /\ HandsInStep
  BY DEF QueuesInvariant
<1>2. /\ step = "take" /\ step' = "gameplay" /\ executed' = 0
      /\ hand' = [q \in Queues |-> AtMost(FrameLimit, queue[q])]
      /\ queue' = [q \in Queues |-> SubSeq(queue[q], Len(hand'[q]) + 1, Len(queue[q]))]
      /\ UNCHANGED <<textureBytes, arrivals, running, last, latest, local>>
  BY DEF TakePackets
<1>3. \A q \in Queues : hand[q] = <<>>
  BY <1>1, <1>2 DEF HandsInStep, Empty
<1>4. ASSUME NEW q \in Queues
      PROVE  /\ hand'[q] \in Seq(Packets) /\ queue'[q] \in Seq(Packets)
             /\ Len(hand'[q]) <= FrameLimit /\ Len(hand'[q]) \in Nat
             /\ Waiting(q)' = Waiting(q)
  <2> DEFINE n == IF Len(queue[q]) < FrameLimit THEN Len(queue[q]) ELSE FrameLimit
  <2>1. queue[q] \in Seq(Packets) /\ hand[q] \in Seq(Packets)
    BY <1>1, WaitingType
  <2>2. Len(queue[q]) \in Nat /\ FrameLimit \in Nat
    BY <2>1, LenProperties, ClientAssumption
  <2>3. n \in 0 .. Len(queue[q]) /\ n <= FrameLimit
    BY <2>2
  <2>4. hand'[q] = SubSeq(queue[q], 1, n)
    BY <1>2 DEF AtMost
  <2> HIDE DEF n
  <2>5. /\ hand'[q] \in Seq(Packets) /\ Len(hand'[q]) = n
        /\ SubSeq(queue[q], n + 1, Len(queue[q])) \in Seq(Packets)
        /\ hand'[q] \o SubSeq(queue[q], n + 1, Len(queue[q])) = queue[q]
    BY <2>1, <2>3, <2>4, CutInTwo
  <2>6. queue'[q] = SubSeq(queue[q], n + 1, Len(queue[q]))
    BY <1>2, <2>5
  <2>7. Waiting(q) = queue[q]
    BY <1>3, <2>1, ConcatEmptySeq DEF Waiting
  <2>8. Waiting(q)' = Waiting(q)
    BY <2>5, <2>6, <2>7 DEF Waiting
  <2>9. Len(hand'[q]) <= FrameLimit /\ Len(hand'[q]) \in Nat
    BY <2>2, <2>3, <2>5
  <2> QED
    BY <2>5, <2>6, <2>8, <2>9
<1>5. queue' \in [Queues -> Seq(Packets)] /\ hand' \in [Queues -> Seq(Packets)]
  BY <1>2, <1>4
<1>6. HandsInStep' /\ executed' \in 0 .. FrameLimit
  BY <1>2, <1>4, ClientAssumption DEF HandsInStep, Queues
<1>7. \A q \in Queues : Waiting(q)' = Waiting(q)
  BY <1>4
<1> QED
  BY <1>2, <1>5, <1>6, <1>7, SameWaiting

\* The packets the frame had no time for go back in front.
LEMMA TerrainDoneKeepsQueues ==
    ASSUME QueuesInvariant, TerrainDone
    PROVE  /\ QueuesInvariant'
           /\ \A q \in Queues : Waiting(q)' = Waiting(q)
<1>1. QueueTypes /\ HandsInStep
  BY DEF QueuesInvariant
<1>2. /\ step = "terrain" /\ running = NoPacket /\ step' = "play" /\ executed' = executed
      /\ queue' = [queue EXCEPT !["terrain"] = hand["terrain"] \o queue["terrain"]]
      /\ hand' = [hand EXCEPT !["terrain"] = <<>>]
      /\ UNCHANGED <<textureBytes, arrivals, running, last, latest, local>>
  BY DEF TerrainDone, PutBack
<1>3. "terrain" \in Queues /\ \A q \in Queues : q # "terrain" => q = "gameplay"
  BY DEF Queues
<1>4. /\ hand["terrain"] \in Seq(Packets) /\ queue["terrain"] \in Seq(Packets)
      /\ hand["terrain"] \o queue["terrain"] \in Seq(Packets)
  BY <1>1, <1>3, WaitingType DEF Waiting
<1>5. <<>> \in Seq(Packets) /\ Len(<<>>) = 0
  BY EmptySeq
<1>6. /\ queue' \in [Queues -> Seq(Packets)] /\ hand' \in [Queues -> Seq(Packets)]
      /\ hand'["terrain"] = <<>> /\ hand'["gameplay"] = hand["gameplay"]
      /\ queue'["terrain"] = hand["terrain"] \o queue["terrain"]
      /\ queue'["gameplay"] = queue["gameplay"]
  BY <1>1, <1>2, <1>3, <1>4, <1>5 DEF QueueTypes
<1>7. <<>> \o (hand["terrain"] \o queue["terrain"]) = hand["terrain"] \o queue["terrain"]
  BY <1>4, ConcatEmptySeq
<1>8. \A q \in Queues : Waiting(q)' = Waiting(q)
  BY <1>3, <1>6, <1>7 DEF Waiting
<1>9. hand["gameplay"] = <<>>
  BY <1>1, <1>2 DEF HandsInStep
<1>10. hand' = Empty
  BY <1>3, <1>6, <1>9 DEF Empty
<1>11. executed \in 0 .. FrameLimit /\ executed + 0 <= FrameLimit
  BY <1>1, ClientAssumption DEF QueueTypes
<1>12. HandsInStep'
  BY <1>2, <1>5, <1>6, <1>10, <1>11 DEF HandsInStep
<1> QED
  BY <1>2, <1>6, <1>8, <1>11, <1>12, SameWaiting

\* Network_ClearQueue
LEMMA PurgedKeepsQueues ==
    ASSUME QueuesInvariant, Purged, step \in {"join", "purge"},
           step' \notin {"gameplay", "terrain"},
           UNCHANGED <<arrivals, handVars, latest>>, local' # "none" => local # "none"
    PROVE  QueuesInvariant' /\ \A q \in Queues : Waiting(q)' = <<>>
<1>1. QueueTypes /\ HandsInStep /\ Lanes
  BY DEF QueuesInvariant
<1>2. /\ hand = Empty /\ running = NoPacket /\ hand' = hand /\ running' = running
      /\ executed' = executed /\ last' = last /\ arrivals' = arrivals
  BY <1>1 DEF HandsInStep, handVars
<1>3. queue' = Empty /\ textureBytes' = 0
  BY DEF Purged
<1>4. <<>> \in Seq(Packets) /\ <<>> \o <<>> = <<>>
  BY EmptySeq, ConcatEmptySeq
<1>5. Empty \in [Queues -> Seq(Packets)] /\ \A q \in Queues : Empty[q] = <<>>
  BY <1>4 DEF Empty
<1>6. \A q \in Queues : Waiting(q)' = <<>>
  BY <1>2, <1>3, <1>4, <1>5 DEF Waiting
<1>7. Lanes'
  BY <1>1, <1>2, <1>6, LaneEmpty DEF Lanes
<1>8. TexturesOf(<<>>) = {}
  BY EmptyFacts DEF TexturesOf
<1>9. TextureBytesExact'
  <2>1. "gameplay" \in Queues
    BY DEF Queues
  <2> QED
    BY <1>3, <1>6, <1>8, <2>1, FS_EmptySet DEF TextureBytesExact, TexturesOf
<1>10. QueueTypes'
  BY <1>1, <1>2, <1>3, <1>5 DEF QueueTypes
<1>11. HandsInStep'
  BY <1>1, <1>2 DEF HandsInStep
<1> QED
  BY <1>6, <1>7, <1>9, <1>10, <1>11 DEF QueuesInvariant

\* What the threads do without a queue.
QueuesAside ==
    /\ UNCHANGED <<queueVars, hand, executed, last>> /\ running' \in {running, NoPacket}
    /\ latest' \in {latest, latest + 1} /\ latest' <= MaxSessions
    /\ local' # "none" => local # "none" \/ latest' = latest + 1
    /\ step' = step \/ ({step, step'} \cap {"gameplay", "terrain"} = {})

LEMMA AsideKeepsQueues ==
    ASSUME QueuesInvariant, QueuesAside
    PROVE  QueuesInvariant'
<1>1. latest \in 0 .. MaxSessions /\ MaxSessions \in Nat /\ (local # "none" => latest > 0)
  BY ClientAssumption DEF QueuesInvariant, QueueTypes
<1>2. latest' \in 0 .. MaxSessions /\ (local' # "none" => latest' > 0)
  BY <1>1 DEF QueuesAside
<1> QED
  BY <1>2, QueuesKept DEF QueuesAside

LEMMA NetAside ==
    ASSUME QueuesInvariant, NEW s \in Sessions,
           \/ NetStarts(s) \/ NetConnects(s) \/ NetFails(s) \/ NetLosesPeer(s)
           \/ NetFlushes(s) \/ NetLeaves(s) \/ NetClears(s) \/ NetEnds(s)
    PROVE  QueuesAside
<1>1. latest <= MaxSessions
  BY ClientAssumption DEF QueuesInvariant, QueueTypes
<1>2. UNCHANGED <<queueVars, handVars, step, local, latest>>
  BY DEF NetStarts, NetConnects, NetFails, NetLosesPeer, NetFlushes, NetLeaves, NetClears,
         NetEnds
<1> QED
  BY <1>1, <1>2 DEF QueuesAside, handVars

LEMMA MainAside ==
    ASSUME QueuesInvariant,
           \/ LocalEnds \/ StartFrame \/ Handle \/ StartDisconnect \/ ClearWorld
           \/ FinishDisconnect \/ StartLocal \/ EndFrame \/ Shutdown \/ User
    PROVE  QueuesAside
<1>1. latest <= MaxSessions /\ latest \in Nat /\ MaxSessions \in Nat
  BY ClientAssumption DEF QueuesInvariant, QueueTypes
<1>2. CASE LocalEnds \/ StartFrame \/ StartDisconnect \/ ClearWorld \/ FinishDisconnect
           \/ EndFrame \/ Shutdown
  <2>1. UNCHANGED <<queueVars, handVars, latest>>
    BY <1>2 DEF LocalEnds, StartFrame, StartDisconnect, ClearWorld, FinishDisconnect, EndFrame,
                Shutdown
  <2>2. /\ local' # "none" => local # "none"
        /\ step' = step \/ ({step, step'} \cap {"gameplay", "terrain"} = {})
    BY <1>2 DEF LocalEnds, StartFrame, StartDisconnect, ClearWorld, FinishDisconnect, EndFrame,
                Shutdown, Told
  <2> QED
    BY <1>1, <2>1, <2>2 DEF QueuesAside, handVars
<1>3. CASE Handle
  <2>1. UNCHANGED <<queueVars, hand, executed, last, step, local, latest>> /\ running' = NoPacket
    BY <1>3 DEF Handle, HandleMapInit, HandleBadInit, HandleLoadChunk, HandleUnloadChunk,
                HandleSetBlock, HandleTexture, HandleOther, Handled
  <2> QED
    BY <1>1, <2>1 DEF QueuesAside
<1>4. CASE StartLocal \/ User
  <2>1. /\ UNCHANGED <<queueVars, handVars>>
        /\ latest' = latest \/ (latest < MaxSessions /\ latest' = latest + 1)
    BY <1>4 DEF StartLocal, User, Edit, SendPosition, LoadChunks, Login, Singleplayer, MainMenu,
                Quit
  <2>2. /\ local' # "none" => local # "none" \/ latest' = latest + 1
        /\ step' = step \/ ({step, step'} \cap {"gameplay", "terrain"} = {})
    BY <1>4 DEF StartLocal, User, Edit, SendPosition, LoadChunks, Login, Singleplayer, MainMenu,
                Quit, Told
  <2> QED
    BY <1>1, <2>1, <2>2 DEF QueuesAside, handVars
<1> QED
  BY <1>2, <1>3, <1>4

\* After the last gameplay packet.
LEMMA GameplayDoneKeepsQueues ==
    ASSUME QueuesInvariant, GameplayDone
    PROVE  QueuesInvariant' /\ UNCHANGED <<queueVars, handVars, latest, local>>
<1>1. /\ UNCHANGED <<queueVars, handVars, latest, local>> /\ step' = "terrain"
      /\ hand["gameplay"] = <<>>
  BY DEF GameplayDone
<1>2. QueueTypes' /\ Lanes' /\ TextureBytesExact'
  BY <1>1 DEF QueuesInvariant, QueueTypes, Lanes, TextureBytesExact, Waiting, queueVars, handVars
<1>3. HandsInStep'
  BY <1>1 DEF QueuesInvariant, HandsInStep, handVars
<1> QED
  BY <1>1, <1>2, <1>3 DEF QueuesInvariant

LEMMA QueuesStep == QueuesInvariant /\ [Next]_vars => QueuesInvariant'
<1> SUFFICES ASSUME QueuesInvariant, [Next]_vars PROVE QueuesInvariant'
  OBVIOUS
<1>1. ASSUME NEW s \in Sessions, NetStep(s) PROVE QueuesInvariant'
  <2>1. ASSUME NEW kind \in Kinds, NetReceives(s, kind) PROVE QueuesInvariant'
    <3>1. Accept(s, kind) /\ UNCHANGED <<handVars, step, latest, local>>
      BY <2>1 DEF NetReceives
    <3> QED
      BY <3>1, AcceptKeepsQueues
  <2> QED
    BY <1>1, <2>1, NetAside, AsideKeepsQueues DEF NetStep
<1>2. CASE LocalStep
  <2>1. ASSUME NEW kind \in Kinds, LocalSends(kind) PROVE QueuesInvariant'
    <3>1. Accept(latest, kind) /\ UNCHANGED <<handVars, step, latest, local>>
      BY <2>1 DEF LocalSends
    <3>2. latest \in Sessions
      BY <2>1, ClientAssumption DEF LocalSends, QueuesInvariant, QueueTypes, Sessions
    <3> QED
      BY <3>1, <3>2, AcceptKeepsQueues
  <2> QED
    BY <1>2, <2>1, MainAside, AsideKeepsQueues DEF LocalStep
<1>3. CASE Processing
  <2>1. CASE ExecuteGameplay \/ ExecuteTerrain
    BY <2>1, ExecuteKeepsQueues
  <2>2. CASE TakePackets \/ TerrainDone \/ GameplayDone
    BY <2>2, TakePacketsKeepsQueues, TerrainDoneKeepsQueues, GameplayDoneKeepsQueues
  <2>3. CASE JoinLocal \/ PurgeQueues
    <3>1. /\ Purged /\ step \in {"join", "purge"} /\ step' \notin {"gameplay", "terrain"}
          /\ UNCHANGED <<arrivals, handVars, latest>> /\ (local' # "none" => local # "none")
      BY <2>3 DEF JoinLocal, PurgeQueues
    <3> QED
      BY <3>1, PurgedKeepsQueues
  <2> QED
    BY <1>3, <2>1, <2>2, <2>3, MainAside, AsideKeepsQueues DEF Processing
<1>4. CASE StartLocal \/ EndFrame \/ Shutdown \/ User
  BY <1>4, MainAside, AsideKeepsQueues
<1>5. CASE UNCHANGED vars
  <2>1. UNCHANGED <<queueVars, hand, executed, last, running, latest, local, step>>
    BY <1>5 DEF vars, handVars
  <2>2. QueuesAside
    BY <2>1, ClientAssumption DEF QueuesAside, QueuesInvariant, QueueTypes
  <2> QED
    BY <2>2, AsideKeepsQueues
<1> QED
  BY <1>1, <1>2, <1>3, <1>4, <1>5 DEF Next, Exited

LEMMA QueuesInit == Init => QueuesInvariant
<1> SUFFICES ASSUME Init PROVE QueuesInvariant
  OBVIOUS
<1>1. /\ queue = Empty /\ hand = Empty /\ textureBytes = 0 /\ arrivals = 0 /\ running = NoPacket
      /\ executed = 0 /\ last = [q \in Queues |-> 0] /\ latest = 0 /\ local = "none"
      /\ step = "frame"
  BY DEF Init
<1>2. <<>> \in Seq(Packets) /\ <<>> \o <<>> = <<>> /\ Len(<<>>) = 0
  BY EmptySeq, ConcatEmptySeq
<1>3. Empty \in [Queues -> Seq(Packets)] /\ \A q \in Queues : Empty[q] = <<>>
  BY <1>2 DEF Empty
<1>4. QueueTypes
  BY <1>1, <1>3, ClientAssumption DEF QueueTypes
<1>5. \A q \in Queues : Waiting(q) = <<>>
  BY <1>1, <1>2, <1>3 DEF Waiting
<1>6. Lanes
  BY <1>1, <1>5, LaneEmpty DEF Lanes
<1>7. TexturesOf(<<>>) = {}
  BY EmptyFacts DEF TexturesOf
<1>8. TextureBytesExact
  <2>1. "gameplay" \in Queues
    BY DEF Queues
  <2> QED
    BY <1>1, <1>5, <1>7, <2>1, FS_EmptySet DEF TextureBytesExact, TexturesOf
<1>9. HandsInStep
  <2>1. hand["terrain"] = <<>>
    BY <1>1, <1>3 DEF Queues
  <2> QED
    BY <1>1, <1>2, <2>1, ClientAssumption DEF HandsInStep
<1> QED
  BY <1>4, <1>6, <1>8, <1>9 DEF QueuesInvariant

\* QueuesInOrder and TextureBytesExact: a queue's packets run in the order of
\* their arrival, and the cap on textures counts what is there, through frames
\* cut short, requests in the middle of one and cleared queues, even when a
\* session begins while the last one's thread is still receiving
\* (Network_Receive, Network_ProcessIncomingPackets, Network_ClearQueue).
THEOREM QueuesAreExact == Spec => [](QueuesInOrder /\ TextureBytesExact)
<1>1. QueuesInvariant => QueuesInOrder /\ TextureBytesExact
  BY LanesAre DEF QueuesInvariant
<1> QED
  BY <1>1, QueuesInit, QueuesStep, PTL DEF Spec

----------------------------------------------------------------------------
(* Control.                                                                *)

\* The types of what several threads look at.
FlagTypes ==
    /\ screen \in {"login", "joining", "loading", "game", "closing"}
    /\ connected \in BOOLEAN /\ threadState \in {"run", "end"}
    /\ sendTo \in {"nobody", "remote", "local"}
    /\ stop \in BOOLEAN /\ accepting \in BOOLEAN /\ reset \in BOOLEAN
    /\ step \in {"frame", "take", "gameplay", "terrain", "play", "disconnect", "join", "clear",
                 "purge", "part", "shutdown", "exited"}
    /\ local \in {"none", "running", "told", "ended"}

\* The types of what belongs to sessions.
SessionTypes ==
    /\ net \in [Sessions -> {"unborn", "created", "connecting", "up", "lost", "leaving",
                             "cleared", "gone"}]
    /\ latest \in 0 .. MaxSessions
    /\ chunk \in [of : Sessions, modified : BOOLEAN] \cup {NoChunk}

\* Which flags, screens, steps and threads go together.
Control ==
    /\ FlagTypes
    /\ ThreadsInTurn /\ LocalInTurn /\ ConnectedToSomebody /\ ScreensInTurn
    /\ DisconnectsInOrder

\* Where the hand is empty.
LEMMA HandFacts ==
    ASSUME QueuesInvariant
    PROVE  /\ step \notin {"gameplay", "terrain"} => hand = Empty /\ running = NoPacket
           /\ step = "terrain" => hand["gameplay"] = <<>>
  BY DEF QueuesInvariant, HandsInStep

\* Steps of the main thread that concern no session's thread.
LEMMA FrameKeepsControl ==
    ASSUME QueuesInvariant, Control,
           \/ StartFrame \/ GameplayDone \/ EndFrame \/ SendPosition
    PROVE  Control'
<1>1. /\ step \notin {"gameplay", "terrain"} => hand = Empty /\ running = NoPacket
  BY HandFacts
<1>2. Thread' = Thread
  BY DEF StartFrame, GameplayDone, EndFrame, SendPosition, Thread
<1>3. CASE StartFrame
  BY ZenonT(60), <1>1, <1>2, <1>3
  DEF Control, FlagTypes, ThreadsInTurn, LocalInTurn, ConnectedToSomebody, ScreensInTurn,
      DisconnectsInOrder, Over, Quiet, DisconnectSteps, NoThread, StartFrame, queueVars, handVars,
      worldVars
<1>4. CASE GameplayDone
  BY <1>1, <1>2, <1>4
  DEF Control, FlagTypes, ThreadsInTurn, LocalInTurn, ConnectedToSomebody, ScreensInTurn,
      DisconnectsInOrder, Over, Quiet, DisconnectSteps, NoThread, GameplayDone, queueVars,
      handVars, worldVars, flagVars, talkVars
<1>5. CASE EndFrame \/ SendPosition
  BY <1>1, <1>2, <1>5
  DEF Control, FlagTypes, ThreadsInTurn, LocalInTurn, ConnectedToSomebody, ScreensInTurn,
      DisconnectsInOrder, Over, Quiet, DisconnectSteps, NoThread, EndFrame, SendPosition, queueVars,
      handVars, worldVars, flagVars, talkVars
<1> QED
  BY <1>3, <1>4, <1>5

\* A thread that is neither to begin nor over is that of the last session.
LEMMA ThreadOf ==
    ASSUME SessionTypes, OneThread, NEW s \in Sessions, net[s] \notin {"unborn", "gone"}
    PROVE  s = latest /\ latest # 0 /\ Thread = net[s]
<1>1. latest \in Nat /\ s \in Nat /\ s # 0
  BY PacketFacts, ClientAssumption DEF SessionTypes
<1>2. ~(s > latest) /\ ~(s < latest)
  BY DEF OneThread
<1> QED
  BY <1>1, <1>2 DEF Thread

\* What it becomes.
LEMMA ThreadBecomes ==
    ASSUME SessionTypes, OneThread, NEW s \in Sessions, net[s] \notin {"unborn", "gone"},
           NEW x, net' = [net EXCEPT ![s] = x], latest' = latest
    PROVE  Thread' = x /\ OneThread'
<1>1. s = latest /\ latest # 0
  BY ThreadOf
<1>2. \A o \in Sessions : net'[o] = IF o = s THEN x ELSE net[o]
  BY DEF SessionTypes
<1>3. Thread' = x
  BY <1>1, <1>2 DEF Thread
<1>4. ~(s > latest) /\ ~(s < latest)
  BY <1>1, ClientAssumption DEF SessionTypes
<1>5. OneThread'
  BY <1>1, <1>2, <1>4 DEF OneThread
<1> QED
  BY <1>3, <1>5

\* Nobody is alive just when the last session has no thread.
LEMMA AliveIs ==
    ASSUME SessionTypes, OneThread
    PROVE  Alive = {} <=> NoThread
<1>1. ASSUME NEW s \in Alive PROVE ~NoThread
  <2>1. s \in Sessions /\ net[s] \notin {"unborn", "gone"}
    BY <1>1 DEF Alive
  <2> QED
    BY <2>1, ThreadOf DEF NoThread
<1>2. ASSUME ~NoThread PROVE Alive # {}
  <2>1. latest \in Sessions /\ net[latest] \notin {"unborn", "gone"}
    BY <1>2, ClientAssumption DEF NoThread, Thread, SessionTypes, Sessions
  <2> QED
    BY <2>1 DEF Alive
<1> QED
  BY <1>1, <1>2

\* Client_Do
LEMMA NetKeepsControl ==
    ASSUME QueuesInvariant, SessionTypes, OneThread, Control, NEW s \in Sessions, NetStep(s)
    PROVE  Control' /\ OneThread'
<1>1. /\ step \notin {"gameplay", "terrain"} => hand = Empty /\ running = NoPacket
  BY HandFacts
<1>2. CASE NetStarts(s)
  <2>1. /\ net[s] = "created" /\ net' = [net EXCEPT ![s] = "connecting"] /\ latest' = latest
        /\ screen' = screen /\ step' = step /\ local' = local
        /\ queue' = queue /\ hand' = hand /\ running' = running /\ chunk' = chunk
        /\ defined' = defined /\ connected' = connected /\ threadState' = threadState
        /\ stop' = stop /\ reset' = reset /\ sendTo' = "remote" /\ accepting' = TRUE
    BY <1>2 DEF NetStarts, queueVars, handVars, worldVars, talkVars
  <2>2. Thread = "created"
    BY <2>1, ThreadOf
  <2>3. Thread' = "connecting" /\ OneThread'
    BY <2>1, ThreadBecomes
  <2> QED
    BY <1>1, <2>1, <2>2, <2>3
    DEF Control, FlagTypes, ThreadsInTurn, LocalInTurn, ConnectedToSomebody, ScreensInTurn,
        DisconnectsInOrder, Over, Quiet, DisconnectSteps, NoThread
<1>3. CASE NetConnects(s)
  <2>1. /\ net[s] = "connecting" /\ net' = [net EXCEPT ![s] = "up"] /\ latest' = latest
        /\ screen' = screen /\ step' = step /\ local' = local
        /\ queue' = queue /\ hand' = hand /\ running' = running /\ chunk' = chunk
        /\ defined' = defined /\ threadState' = threadState /\ sendTo' = sendTo
        /\ connected' = TRUE /\ stop' = FALSE /\ accepting' = TRUE /\ reset' = TRUE
    BY <1>3 DEF NetConnects, queueVars, handVars, worldVars
  <2>2. Thread = "connecting"
    BY <2>1, ThreadOf
  <2>3. Thread' = "up" /\ OneThread'
    BY <2>1, ThreadBecomes
  <2>4. ThreadsInTurn' /\ LocalInTurn' /\ ConnectedToSomebody'
    BY <1>1, <2>1, <2>2, <2>3
    DEF Control, FlagTypes, ThreadsInTurn, LocalInTurn, ConnectedToSomebody, Over, DisconnectSteps,
        NoThread
  <2>5. ScreensInTurn'
    BY <1>1, <2>1, <2>2, <2>3
    DEF Control, FlagTypes, ThreadsInTurn, LocalInTurn, ScreensInTurn, Over, Quiet,
        DisconnectSteps, NoThread
  <2>6. FlagTypes' /\ DisconnectsInOrder'
    BY <1>1, <2>1, <2>2, <2>3
    DEF Control, FlagTypes, ThreadsInTurn, DisconnectsInOrder, DisconnectSteps
  <2> QED
    BY <2>3, <2>4, <2>5, <2>6 DEF Control
<1>4. CASE NetFails(s)
  <2>1. /\ net[s] = "connecting" /\ net' = [net EXCEPT ![s] = "gone"] /\ latest' = latest
        /\ screen' = screen /\ step' = step /\ local' = local
        /\ queue' = queue /\ hand' = hand /\ running' = running /\ chunk' = chunk
        /\ defined' = defined /\ connected' = connected /\ sendTo' = sendTo /\ reset' = reset
        /\ stop' = TRUE /\ accepting' = FALSE /\ threadState' = "end"
    BY <1>4 DEF NetFails, Requested, queueVars, handVars, worldVars, talkVars
  <2>2. Thread = "connecting"
    BY <2>1, ThreadOf
  <2>3. Thread' = "gone" /\ OneThread'
    BY <2>1, ThreadBecomes
  <2> QED
    BY <1>1, <2>1, <2>2, <2>3
    DEF Control, FlagTypes, ThreadsInTurn, LocalInTurn, ConnectedToSomebody, ScreensInTurn,
        DisconnectsInOrder, Over, Quiet, DisconnectSteps, NoThread
<1>5. CASE NetLosesPeer(s)
  <2>1. /\ net[s] = "up" /\ net' = [net EXCEPT ![s] = "lost"] /\ latest' = latest
        /\ screen' = screen /\ step' = step /\ local' = local
        /\ queue' = queue /\ hand' = hand /\ running' = running /\ chunk' = chunk
        /\ defined' = defined /\ connected' = connected /\ sendTo' = sendTo /\ reset' = reset
        /\ stop' = TRUE /\ accepting' = FALSE /\ threadState' = "end"
    BY <1>5 DEF NetLosesPeer, Requested, queueVars, handVars, worldVars, talkVars
  <2>2. Thread = "up"
    BY <2>1, ThreadOf
  <2>3. Thread' = "lost" /\ OneThread'
    BY <2>1, ThreadBecomes
  <2>4. ThreadsInTurn' /\ LocalInTurn' /\ ConnectedToSomebody'
    BY <1>1, <2>1, <2>2, <2>3
    DEF Control, FlagTypes, ThreadsInTurn, LocalInTurn, ConnectedToSomebody, Over, DisconnectSteps,
        NoThread
  <2>5. ScreensInTurn'
    BY <1>1, <2>1, <2>2, <2>3
    DEF Control, FlagTypes, ThreadsInTurn, LocalInTurn, ScreensInTurn, Over, Quiet,
        DisconnectSteps, NoThread
  <2>6. FlagTypes' /\ DisconnectsInOrder'
    BY ZenonT(60), <1>1, <2>1, <2>2, <2>3
    DEF Control, FlagTypes, ThreadsInTurn, DisconnectsInOrder, DisconnectSteps
  <2> QED
    BY <2>3, <2>4, <2>5, <2>6 DEF Control
<1>6. CASE NetFlushes(s)
  <2>1. Thread' = Thread /\ OneThread'
    BY <1>6 DEF NetFlushes, OneThread, Thread
  <2> QED
    BY <1>1, <1>6, <2>1
    DEF Control, FlagTypes, ThreadsInTurn, LocalInTurn, ConnectedToSomebody, ScreensInTurn,
        DisconnectsInOrder, Over, Quiet, DisconnectSteps, NoThread, NetFlushes,
        flagVars, queueVars, handVars, worldVars
<1>7. CASE NetLeaves(s)
  <2>1. Thread \in {"up", "lost"} /\ Thread' = "leaving" /\ OneThread'
    BY <1>7, ThreadOf, ThreadBecomes DEF NetLeaves
  <2> QED
    BY <1>1, <1>7, <2>1
    DEF Control, FlagTypes, ThreadsInTurn, LocalInTurn, ConnectedToSomebody, ScreensInTurn,
        DisconnectsInOrder, Over, Quiet, DisconnectSteps, NoThread, NetLeaves,
        flagVars, queueVars, handVars, worldVars, talkVars
<1>8. CASE NetClears(s)
  <2>1. /\ net[s] = "leaving" /\ net' = [net EXCEPT ![s] = "cleared"] /\ latest' = latest
        /\ screen' = screen /\ step' = step /\ local' = local
        /\ queue' = queue /\ hand' = hand /\ running' = running /\ chunk' = chunk
        /\ defined' = defined
        /\ connected' = connected /\ threadState' = threadState /\ sendTo' = sendTo
        /\ stop' = stop /\ accepting' = accepting /\ reset' = reset
    BY <1>8 DEF NetClears, flagVars, queueVars, handVars, worldVars
  <2>2. Thread = "leaving"
    BY <2>1, ThreadOf
  <2>3. Thread' = "cleared" /\ OneThread'
    BY <2>1, ThreadBecomes
  <2> QED
    BY <1>1, <2>1, <2>2, <2>3
    DEF Control, FlagTypes, ThreadsInTurn, LocalInTurn, ConnectedToSomebody, ScreensInTurn,
        DisconnectsInOrder, Over, Quiet, DisconnectSteps, NoThread
<1>9. CASE NetEnds(s)
  <2>1. /\ net[s] = "cleared" /\ net' = [net EXCEPT ![s] = "gone"] /\ latest' = latest
        /\ screen' = screen /\ step' = step /\ local' = local
        /\ queue' = queue /\ hand' = hand /\ running' = running /\ chunk' = chunk
        /\ defined' = defined /\ sendTo' = sendTo /\ reset' = reset /\ stop' = stop
        /\ accepting' = accepting /\ threadState' = "run" /\ connected' = FALSE
    BY <1>9 DEF NetEnds, Parted, queueVars, handVars, worldVars, talkVars
  <2>2. Thread = "cleared"
    BY <2>1, ThreadOf
  <2>3. Thread' = "gone" /\ OneThread'
    BY <2>1, ThreadBecomes
  <2>4. ThreadsInTurn' /\ LocalInTurn' /\ ConnectedToSomebody'
    BY <1>1, <2>1, <2>2, <2>3
    DEF Control, FlagTypes, ThreadsInTurn, LocalInTurn, ConnectedToSomebody, Over, DisconnectSteps,
        NoThread
  <2>5. ScreensInTurn'
    BY <1>1, <2>1, <2>2, <2>3
    DEF Control, FlagTypes, ThreadsInTurn, LocalInTurn, ScreensInTurn, Over, Quiet,
        DisconnectSteps, NoThread
  <2>6. FlagTypes' /\ DisconnectsInOrder'
    BY ZenonT(60), <1>1, <2>1, <2>2, <2>3
    DEF Control, FlagTypes, ThreadsInTurn, DisconnectsInOrder, DisconnectSteps
  <2> QED
    BY <2>3, <2>4, <2>5, <2>6 DEF Control
<1>10. CASE \E kind \in Kinds : NetReceives(s, kind)
  <2>1. /\ net[s] = "up" /\ accepting /\ ~stop
        /\ UNCHANGED <<screen, flagVars, handVars, step, net, local, latest, worldVars, talkVars>>
    BY <1>10 DEF NetReceives, Accept
  <2>2. Thread = "up"
    BY <2>1, ThreadOf
  <2>3. Thread' = Thread /\ OneThread'
    BY <2>1 DEF OneThread, Thread
  <2> QED
    BY <1>1, <2>1, <2>2, <2>3
    DEF Control, FlagTypes, ThreadsInTurn, LocalInTurn, ConnectedToSomebody, ScreensInTurn,
        DisconnectsInOrder, Over, Quiet, DisconnectSteps, NoThread, flagVars,
        handVars, worldVars, talkVars
<1> QED
  BY <1>2, <1>3, <1>4, <1>5, <1>6, <1>7, <1>8, <1>9, <1>10 DEF NetStep

\* The thread of the local server.
LEMMA LocalKeepsControl ==
    ASSUME QueuesInvariant, OneThread, Control, LocalStep
    PROVE  Control' /\ OneThread'
<1>1. /\ step \notin {"gameplay", "terrain"} => hand = Empty /\ running = NoPacket
  BY HandFacts
<1>2. CASE LocalEnds
  <2>1. Thread' = Thread /\ OneThread'
    BY <1>2 DEF LocalEnds, OneThread, Thread
  <2> QED
    BY <1>1, <1>2, <2>1
    DEF Control, FlagTypes, ThreadsInTurn, LocalInTurn, ConnectedToSomebody, ScreensInTurn,
        DisconnectsInOrder, Over, Quiet, DisconnectSteps, NoThread, LocalEnds,
        flagVars, queueVars, handVars, worldVars, talkVars
<1>3. CASE \E kind \in Kinds : LocalSends(kind)
  <2>1. /\ local \in {"running", "told"} /\ accepting /\ ~stop
        /\ UNCHANGED <<screen, flagVars, handVars, step, net, local, latest, worldVars, talkVars>>
    BY <1>3 DEF LocalSends, Accept
  <2>2. Thread' = Thread /\ OneThread'
    BY <2>1 DEF OneThread, Thread
  <2> QED
    BY <1>1, <2>1, <2>2
    DEF Control, FlagTypes, ThreadsInTurn, LocalInTurn, ConnectedToSomebody, ScreensInTurn,
        DisconnectsInOrder, Over, Quiet, DisconnectSteps, NoThread, flagVars,
        handVars, worldVars, talkVars
<1> QED
  BY <1>2, <1>3 DEF LocalStep

\* Nothing comes to wait by going from hand to hand.
LEMMA EmptyStays ==
    ASSUME QueuesInvariant, QueuesInvariant', \A q \in Queues : Waiting(q)' = Waiting(q),
           queue = Empty, hand = Empty
    PROVE  queue' = Empty /\ hand' = Empty
<1>1. /\ queue' \in [Queues -> Seq(Packets)] /\ hand' \in [Queues -> Seq(Packets)]
  BY DEF QueuesInvariant, QueueTypes
<1>2. <<>> \in Seq(Packets) /\ <<>> \o <<>> = <<>>
  BY EmptySeq, ConcatEmptySeq
<1>3. ASSUME NEW q \in Queues PROVE queue'[q] = <<>> /\ hand'[q] = <<>>
  <2>1. hand'[q] \o queue'[q] = <<>>
    BY <1>2 DEF Waiting, Empty
  <2>2. hand'[q] \in Seq(Packets) /\ queue'[q] \in Seq(Packets)
    BY <1>1
  <2> QED
    BY <2>1, <2>2, ConcatEqualIffEmpty
<1> QED
  BY <1>1, <1>3 DEF Empty

\* Network_ProcessIncomingPackets.
LEMMA PacketsKeepControl ==
    ASSUME QueuesInvariant, QueuesInvariant', Control,
           TakePackets \/ ExecuteGameplay \/ ExecuteTerrain \/ TerrainDone
    PROVE  Control'
<1>1. /\ step \notin {"gameplay", "terrain"} => hand = Empty /\ running = NoPacket
      /\ step' \notin {"gameplay", "terrain"} => hand' = Empty /\ running' = NoPacket
  BY DEF QueuesInvariant, HandsInStep
<1>2. /\ UNCHANGED <<screen, flagVars, net, local, latest, worldVars, talkVars>>
      /\ Thread' = Thread
  BY DEF TakePackets, ExecuteGameplay, ExecuteTerrain, Execute, TerrainDone, Thread
<1>3. CASE TakePackets
  <2>1. step = "take" /\ step' = "gameplay" /\ running' = running
    BY <1>3 DEF TakePackets
  <2>2. queue = Empty /\ hand = Empty => queue' = Empty /\ hand' = Empty
    BY <1>3, TakePacketsKeepsQueues, EmptyStays
  <2> QED
    BY <1>1, <1>2, <2>1, <2>2
    DEF Control, FlagTypes, ThreadsInTurn, LocalInTurn, ConnectedToSomebody, ScreensInTurn,
        DisconnectsInOrder, Over, Quiet, DisconnectSteps, NoThread, flagVars, worldVars, talkVars
<1>4. CASE ExecuteGameplay \/ ExecuteTerrain
  <2>1. step \in {"gameplay", "terrain"} /\ step' = step /\ hand # Empty /\ queue' = queue
    BY <1>4 DEF ExecuteGameplay, ExecuteTerrain, Execute, Empty, Queues
  <2> QED
    BY <1>1, <1>2, <2>1
    DEF Control, FlagTypes, ThreadsInTurn, LocalInTurn, ConnectedToSomebody, ScreensInTurn,
        DisconnectsInOrder, Over, Quiet, DisconnectSteps, NoThread, flagVars, worldVars, talkVars
<1>5. CASE TerrainDone
  <2>1. step = "terrain" /\ step' = "play" /\ running' = running
    BY <1>5 DEF TerrainDone
  <2>2. queue = Empty /\ hand = Empty => queue' = Empty /\ hand' = Empty
    BY <1>5, TerrainDoneKeepsQueues, EmptyStays
  <2> QED
    BY <1>1, <1>2, <2>1, <2>2
    DEF Control, FlagTypes, ThreadsInTurn, LocalInTurn, ConnectedToSomebody, ScreensInTurn,
        DisconnectsInOrder, Over, Quiet, DisconnectSteps, NoThread, flagVars, worldVars, talkVars
<1> QED
  BY <1>3, <1>4, <1>5

\* The handlers.
LEMMA HandleKeepsControl ==
    ASSUME QueuesInvariant, Control, Handle, running # NoPacket, latest > 0
    PROVE  Control'
<1>1. step \in {"gameplay", "terrain"}
  BY HandFacts
<1>2. /\ UNCHANGED <<queueVars, hand, step, net, local, latest, connected, sendTo, reset>>
      /\ running' = NoPacket /\ Thread' = Thread
  BY DEF Handle, HandleMapInit, HandleBadInit, HandleLoadChunk, HandleUnloadChunk, HandleSetBlock,
         HandleTexture, HandleOther, Handled, Thread, flagVars, talkVars
<1>3. \/ screen' \in {screen, "game"} /\ UNCHANGED <<threadState, stop, accepting>>
      \/ screen' = screen /\ stop' = TRUE /\ accepting' = FALSE /\ threadState' = "end"
  BY DEF Handle, HandleMapInit, HandleBadInit, HandleLoadChunk, HandleUnloadChunk, HandleSetBlock,
         HandleTexture, HandleOther, flagVars, Requested
<1>4. Thread \notin {"created", "connecting"} /\ ~Quiet
  BY DEF Control, ThreadsInTurn, Quiet
<1>5. screen \notin {"login", "closing"} /\ (screen = "loading" => local # "none")
  BY <1>1, <1>4 DEF Control, ScreensInTurn, DisconnectsInOrder, DisconnectSteps, FlagTypes
<1>6. ThreadsInTurn' /\ LocalInTurn' /\ ConnectedToSomebody'
  BY <1>1, <1>2, <1>3, <1>4, <1>5
  DEF Control, FlagTypes, ThreadsInTurn, LocalInTurn, ConnectedToSomebody, Over, DisconnectSteps,
      NoThread
<1>7. ScreensInTurn'
  BY <1>1, <1>2, <1>3, <1>4, <1>5
  DEF Control, FlagTypes, LocalInTurn, ScreensInTurn, Over, DisconnectSteps, NoThread
<1>8. FlagTypes'
  BY ZenonT(60), <1>2, <1>3 DEF Control, FlagTypes
<1>9. DisconnectsInOrder'
  <2>1. step' = step /\ (stop => ~accepting)
    BY <1>2 DEF Control, DisconnectsInOrder
  <2> QED
    BY <1>1, <1>3, <2>1 DEF DisconnectsInOrder, DisconnectSteps
<1> QED
  BY <1>6, <1>7, <1>8, <1>9 DEF Control

\* Network_PerformDisconnect and LocalServer_Stop.
LEMMA DisconnectKeepsControl ==
    ASSUME QueuesInvariant, SessionTypes, Control,
           StartDisconnect \/ JoinLocal \/ ClearWorld \/ PurgeQueues \/ FinishDisconnect
    PROVE  Control'
<1>1. step \notin {"gameplay", "terrain"} => hand = Empty /\ running = NoPacket
  BY HandFacts
<1>2. Thread' = Thread
  BY DEF StartDisconnect, JoinLocal, ClearWorld, PurgeQueues, FinishDisconnect, Thread
<1>3. NoChunk.modified = FALSE
  BY DEF NoChunk
<1>4. CASE StartDisconnect
  <2>1. chunk'.modified = FALSE /\ (chunk = NoChunk => chunk' = NoChunk)
    <3>1. chunk' = [chunk EXCEPT !.modified = FALSE]
      BY <1>4 DEF StartDisconnect, EditsForgotten
    <3>2. CASE chunk = NoChunk
      BY <3>1, <3>2 DEF NoChunk
    <3>3. CASE chunk # NoChunk
      <4>1. chunk \in [of : Sessions, modified : BOOLEAN]
        BY <3>3 DEF SessionTypes
      <4> QED
        BY <3>1, <3>3, <4>1
    <3> QED
      BY <3>2, <3>3
  <2> QED
    BY <1>1, <1>2, <1>4, <2>1
    DEF Control, FlagTypes, ThreadsInTurn, LocalInTurn, ConnectedToSomebody, ScreensInTurn,
        DisconnectsInOrder, Over, Quiet, DisconnectSteps, NoThread, StartDisconnect, Told,
        queueVars, handVars, flagVars, talkVars
<1>5. CASE JoinLocal
  BY <1>1, <1>2, <1>3, <1>5
  DEF Control, FlagTypes, ThreadsInTurn, LocalInTurn, ConnectedToSomebody, ScreensInTurn,
      DisconnectsInOrder, Over, Quiet, DisconnectSteps, NoThread, JoinLocal, Purged, ChunkRemoved,
      handVars, talkVars
<1>6. CASE ClearWorld
  BY <1>1, <1>2, <1>3, <1>6
  DEF Control, FlagTypes, ThreadsInTurn, LocalInTurn, ConnectedToSomebody, ScreensInTurn,
      DisconnectsInOrder, Over, Quiet, DisconnectSteps, NoThread, ClearWorld, ChunkRemoved,
      queueVars, handVars, flagVars, talkVars
<1>7. CASE PurgeQueues
  BY <1>1, <1>2, <1>3, <1>7
  DEF Control, FlagTypes, ThreadsInTurn, LocalInTurn, ConnectedToSomebody, ScreensInTurn,
      DisconnectsInOrder, Over, Quiet, DisconnectSteps, NoThread, PurgeQueues, Purged,
      handVars, flagVars, worldVars, talkVars
<1>8. CASE FinishDisconnect
  BY <1>1, <1>2, <1>3, <1>8
  DEF Control, FlagTypes, ThreadsInTurn, LocalInTurn, ConnectedToSomebody, ScreensInTurn,
      DisconnectsInOrder, Over, Quiet, DisconnectSteps, NoThread, FinishDisconnect,
      queueVars, handVars, worldVars
<1> QED
  BY <1>4, <1>5, <1>6, <1>7, <1>8

\* A new session takes the next number, whose thread is still to be born.
LEMMA NextSession ==
    ASSUME SessionTypes, OneThread, NoThread, latest < MaxSessions, latest' = latest + 1,
           \A s \in Sessions : s # latest + 1 => net'[s] = net[s]
    PROVE  /\ latest + 1 \in Sessions /\ net[latest + 1] = "unborn"
           /\ Thread' = net'[latest + 1] /\ OneThread'
<1>1. latest \in Nat /\ MaxSessions \in Nat /\ Sessions = 1 .. MaxSessions
  BY ClientAssumption DEF SessionTypes, Sessions
<1>2. latest + 1 \in Sessions /\ net[latest + 1] = "unborn"
  BY <1>1 DEF OneThread
<1>3. Thread' = net'[latest + 1]
  BY <1>1 DEF Thread
<1>4. OneThread'
  <2> SUFFICES ASSUME NEW s \in Sessions
               PROVE  /\ s > latest + 1 => net'[s] = "unborn"
                      /\ s < latest + 1 => net'[s] \in {"unborn", "gone"}
    BY DEF OneThread
  <2>1. s \in Nat
    BY <1>1
  <2>2. CASE s = latest + 1
    BY <1>1, <2>2
  <2>3. CASE s = latest
    BY <1>1, <2>3 DEF NoThread, Thread
  <2>4. CASE s # latest + 1 /\ s # latest
    BY <1>1, <2>1, <2>4 DEF OneThread
  <2> QED
    BY <2>2, <2>3, <2>4
<1> QED
  BY <1>2, <1>3, <1>4

\* A session begins.
LEMMA BeginKeepsControl ==
    ASSUME ~Overlap, QueuesInvariant, SessionTypes, OneThread, Control,
           Login \/ StartLocal
    PROVE  Control' /\ OneThread' /\ Quiet
<1>1. step = "play" /\ hand = Empty /\ running = NoPacket
  BY HandFacts DEF Login, StartLocal
<1>2. CASE Login
  <2>1. /\ screen = "login" /\ latest < MaxSessions /\ ~stop /\ Alive = {}
        /\ screen' = "joining" /\ threadState' = "run" /\ latest' = latest + 1
        /\ net' = [net EXCEPT ![latest + 1] = "created"] /\ step' = "frame"
        /\ UNCHANGED <<connected, sendTo, stop, accepting, queue, hand, running, local, chunk,
                       defined, reset>>
    BY <1>2 DEF Login, Ready, queueVars, handVars, worldVars, talkVars
  <2>2. NoThread
    BY <2>1, AliveIs
  <2>3. \A s \in Sessions : net'[s] = IF s = latest + 1 THEN "created" ELSE net[s]
    BY <2>1 DEF SessionTypes
  <2>4. Thread' = "created" /\ OneThread'
    BY <2>1, <2>2, <2>3, NextSession
  <2>5. Quiet /\ local = "none"
    BY <1>1, <2>1 DEF Control, ScreensInTurn, DisconnectSteps
  <2>6. latest' > 0
    BY <2>1, ClientAssumption DEF SessionTypes
  <2>7. Control'
    BY <1>1, <2>1, <2>4, <2>5, <2>6
    DEF Control, FlagTypes, ThreadsInTurn, LocalInTurn, ConnectedToSomebody, ScreensInTurn,
        DisconnectsInOrder, Over, Quiet, DisconnectSteps, NoThread
  <2> QED
    BY <2>4, <2>5, <2>7
<1>3. CASE StartLocal
  <2>1. /\ screen = "loading" /\ local = "none" /\ latest < MaxSessions
        /\ local' = "running" /\ latest' = latest + 1 /\ connected' = TRUE /\ sendTo' = "local"
        /\ stop' = FALSE /\ accepting' = TRUE /\ reset' = TRUE /\ step' = "frame"
        /\ UNCHANGED <<screen, threadState, queue, hand, running, net, chunk, defined>>
    BY <1>3 DEF StartLocal, queueVars, handVars, worldVars
  <2>2. Quiet /\ NoThread
    BY <1>1, <2>1 DEF Control, ScreensInTurn
  <2>3. Thread' = "unborn" /\ OneThread'
    BY <2>1, <2>2, NextSession
  <2>4. latest' > 0
    BY <2>1, ClientAssumption DEF SessionTypes
  <2>5. Control'
    BY <1>1, <2>1, <2>2, <2>3, <2>4
    DEF Control, FlagTypes, ThreadsInTurn, LocalInTurn, ConnectedToSomebody, ScreensInTurn,
        DisconnectsInOrder, Over, Quiet, DisconnectSteps, NoThread
  <2> QED
    BY <2>2, <2>3, <2>5
<1> QED
  BY <1>2, <1>3

\* The user, and the end.
LEMMA UserKeepsControl ==
    ASSUME ~Overlap, QueuesInvariant, SessionTypes, OneThread, Control,
           Edit \/ LoadChunks \/ Singleplayer \/ MainMenu \/ Quit \/ Shutdown
    PROVE  Control'
<1>1. step \notin {"gameplay", "terrain"} => hand = Empty /\ running = NoPacket
  BY HandFacts
<1>2. Thread' = Thread
  BY DEF Edit, LoadChunks, Singleplayer, MainMenu, Quit, Shutdown, Thread
<1>3. NoChunk.modified = FALSE
  BY DEF NoChunk
<1>4. CASE Edit \/ LoadChunks
  <2>1. /\ step = "play" /\ screen = "game"
        /\ UNCHANGED <<screen, flagVars, queueVars, handVars, step, net, local, latest,
                       reset, defined>>
    BY <1>4 DEF Edit, LoadChunks, talkVars
  <2> QED
    BY <1>1, <1>2, <2>1
    DEF Control, FlagTypes, ThreadsInTurn, LocalInTurn, ConnectedToSomebody, ScreensInTurn,
        DisconnectsInOrder, Over, Quiet, DisconnectSteps, NoThread, queueVars, handVars, flagVars
<1>5. CASE Singleplayer
  <2>1. NoThread /\ ~stop
    BY <1>5, AliveIs DEF Singleplayer, Ready
  <2> QED
    BY <1>1, <1>2, <1>5, <2>1
    DEF Control, FlagTypes, ThreadsInTurn, LocalInTurn, ConnectedToSomebody, ScreensInTurn,
        DisconnectsInOrder, Over, Quiet, DisconnectSteps, NoThread, Singleplayer,
        queueVars, handVars, flagVars, worldVars, talkVars
<1>6. CASE MainMenu
  BY <1>1, <1>2, <1>3, <1>6
  DEF Control, FlagTypes, ThreadsInTurn, LocalInTurn, ConnectedToSomebody, ScreensInTurn,
      DisconnectsInOrder, Over, Quiet, DisconnectSteps, NoThread, MainMenu, ChunkRemoved, Requested,
      queueVars, handVars, worldVars, talkVars
<1>7. CASE Quit
  BY <1>1, <1>2, <1>3, <1>7
  DEF Control, FlagTypes, ThreadsInTurn, LocalInTurn, ConnectedToSomebody, ScreensInTurn,
      DisconnectsInOrder, Over, Quiet, DisconnectSteps, NoThread, Quit, Told,
      queueVars, handVars, worldVars, talkVars
<1>8. CASE Shutdown
  BY <1>1, <1>2, <1>3, <1>8
  DEF Control, FlagTypes, ThreadsInTurn, LocalInTurn, ConnectedToSomebody, ScreensInTurn,
      DisconnectsInOrder, Over, Quiet, DisconnectSteps, NoThread, Shutdown, ChunkRemoved,
      queueVars, handVars, flagVars, talkVars
<1> QED
  BY <1>4, <1>5, <1>6, <1>7, <1>8

----------------------------------------------------------------------------
(* What belongs to which session.                                          *)

\* What the client has of a world and of definitions is of the last session.
Shown ==
    /\ chunk \in [of : Sessions, modified : BOOLEAN] \cup {NoChunk}
    /\ chunk # NoChunk => chunk.of = latest
    /\ defined \in {0, latest}
    /\ saved \subseteq Sessions

\* What waits or runs is.
Received ==
    /\ \A q \in Queues : \A m \in ToSet(Waiting(q)) : m.of = latest
    /\ running # NoPacket => running.of = latest

\* What waits to be sent is.
Sending ==
    /\ outbox \in Seq(Messages) /\ greeted \in 0 .. latest
    /\ strayed = {}
    /\ OutboxInTurn

\* Whatever the main thread does to the chunk.
ChunkTurns ==
    \/ UNCHANGED worldVars
    \/ ChunkRemoved
    \/ saved' = saved /\ chunk' = [chunk EXCEPT !.modified = FALSE]
    \/ saved' = saved /\ chunk # NoChunk /\ chunk' = [chunk EXCEPT !.modified = TRUE]
    \/ saved' = saved /\ latest > 0 /\ chunk' = [of |-> latest, modified |-> FALSE]

LEMMA ChunkKept ==
    ASSUME SessionTypes, Shown, ChunkTurns, latest' = latest, defined' \in {0, defined, latest}
    PROVE  Shown'
<1>1. latest \in Nat /\ MaxSessions \in Nat /\ Sessions = 1 .. MaxSessions
      /\ latest \in 0 .. MaxSessions
  BY ClientAssumption DEF SessionTypes, Sessions
<1>2. NoChunk.modified = FALSE
  BY DEF NoChunk
<1>3. CASE UNCHANGED worldVars
  BY <1>3 DEF Shown, worldVars
<1>4. CASE ChunkRemoved
  <2>1. chunk.modified = TRUE => chunk.of \in Sessions
    BY <1>2 DEF Shown
  <2>2. chunk' = NoChunk /\ saved' \subseteq Sessions
    <3>1. CASE chunk.modified = TRUE
      BY <1>4, <2>1, <3>1 DEF ChunkRemoved, Shown
    <3>2. CASE chunk.modified # TRUE
      <4>1. chunk.modified = FALSE
        BY <1>2, <3>2 DEF Shown
      <4> QED
        BY <1>4, <4>1 DEF ChunkRemoved, Shown
    <3> QED
      BY <3>1, <3>2
  <2> QED
    BY <2>2 DEF Shown
<1>5. ASSUME NEW b \in BOOLEAN, chunk # NoChunk, chunk' = [chunk EXCEPT !.modified = b],
             saved' = saved
      PROVE  Shown'
  <2>1. chunk \in [of : Sessions, modified : BOOLEAN] /\ chunk.of = latest
    BY <1>5 DEF Shown
  <2>2. chunk' \in [of : Sessions, modified : BOOLEAN] /\ chunk'.of = latest
    BY <1>5, <2>1
  <2> QED
    BY <1>5, <2>2 DEF Shown
<1>6. CASE saved' = saved /\ chunk' = [chunk EXCEPT !.modified = FALSE]
  <2>1. CASE chunk = NoChunk
    <3>1. chunk' = NoChunk
      BY <1>6, <2>1 DEF NoChunk
    <3> QED
      BY <1>6, <3>1 DEF Shown
  <2> QED
    BY <1>5, <1>6, <2>1
<1>7. CASE saved' = saved /\ latest > 0 /\ chunk' = [of |-> latest, modified |-> FALSE]
  BY <1>1, <1>7 DEF Shown
<1> QED
  BY <1>3, <1>4, <1>5, <1>6, <1>7 DEF ChunkTurns

\* The thread that may have identified itself still may have.
Greeters == {"up", "lost", "leaving"}

LEMMA OutboxKept ==
    ASSUME Sending, UNCHANGED <<outbox, greeted, strayed, latest>>,
           Thread \in Greeters => Thread' \in Greeters
    PROVE  Sending'
  BY DEF Sending, OutboxInTurn, Greeters

LEMMA OutboxCleared ==
    ASSUME Sending, outbox' = <<>>, greeted' \in {greeted, latest}, strayed' = {},
           latest' = latest, latest \in Nat
    PROVE  Sending'
<1>1. outbox' \in Seq(Messages) /\ DOMAIN outbox' = {}
  BY EmptySeq
<1> QED
  BY <1>1 DEF Sending, OutboxInTurn

\* Client_Send
LEMMA OutboxGrows ==
    ASSUME Sending, NEW m \in Messages, outbox' = Queued(m), m.of = latest,
           UNCHANGED <<greeted, strayed, latest>>,
           Thread \in Greeters => Thread' \in Greeters,
           m.kind = "identification" => Thread' \in Greeters
    PROVE  Sending'
<1>1. CASE outbox' = outbox
  BY <1>1, OutboxKept
<1>2. CASE outbox' = Append(outbox, m)
  <2>1. /\ outbox' \in Seq(Messages) /\ Len(outbox) \in Nat
        /\ DOMAIN outbox = 1 .. Len(outbox) /\ DOMAIN outbox' = 1 .. (Len(outbox) + 1)
        /\ \A i \in 1 .. Len(outbox) : outbox'[i] = outbox[i]
        /\ outbox'[Len(outbox) + 1] = m
    BY <1>2, AppendIs DEF Sending
  <2> DEFINE n == Len(outbox)
  <2>2. \A i \in DOMAIN outbox' : i \in DOMAIN outbox \/ i = n + 1
    BY <2>1
  <2>3. ASSUME NEW i \in DOMAIN outbox', outbox'[i].kind = "identification"
        PROVE  outbox'[i].of = latest' /\ Thread' \in Greeters
    <3>1. CASE i \in DOMAIN outbox
      BY <2>1, <2>3, <3>1 DEF Sending, OutboxInTurn, Greeters
    <3>2. CASE i = n + 1
      BY <2>1, <2>3, <3>2
    <3> QED
      BY <2>2, <3>1, <3>2
  <2>4. ASSUME NEW i \in DOMAIN outbox', outbox'[i].kind = "play",
               \/ greeted' = latest'
               \/ \E j \in 1 .. i - 1 : outbox'[j].kind = "identification"
        PROVE  outbox'[i].of = latest'
    <3>1. CASE i \in DOMAIN outbox
      <4>1. \A j \in 1 .. i - 1 : outbox'[j] = outbox[j]
        BY <2>1, <3>1
      <4>2. outbox[i].kind = "play" /\ outbox'[i] = outbox[i]
        BY <2>1, <2>4, <3>1
      <4>3. greeted = latest \/ \E j \in 1 .. i - 1 : outbox[j].kind = "identification"
        BY <2>4, <4>1
      <4> QED
        BY <3>1, <4>2, <4>3 DEF Sending, OutboxInTurn
    <3>2. CASE i = n + 1
      BY <2>1, <3>2
    <3> QED
      BY <2>2, <3>1, <3>2
  <2>5. OutboxInTurn'
    BY <2>3, <2>4 DEF OutboxInTurn, Greeters
  <2> QED
    BY <2>1, <2>5 DEF Sending
<1> QED
  BY <1>1, <1>2 DEF Queued

\* Network_Send
LEMMA SentKeepsSending ==
    ASSUME SessionTypes, Control, Sending, Sent, UNCHANGED <<greeted, strayed, latest>>,
           Thread' = Thread
    PROVE  Sending'
<1>1. CASE outbox' = outbox
  BY <1>1, OutboxKept
<1>2. CASE outbox' # outbox
  <2>1. /\ connected /\ sendTo = "remote"
        /\ outbox' = Queued([of |-> latest, kind |-> "play"])
    BY <1>2 DEF Sent
  <2>2. latest # 0
    BY <2>1 DEF Control, ConnectedToSomebody, Thread
  <2>3. latest \in Sessions
    BY <2>2, ClientAssumption DEF SessionTypes, Sessions
  <2> DEFINE m == [of |-> latest, kind |-> "play"]
  <2>4. m \in Messages /\ m.of = latest /\ m.kind = "play"
    BY <2>3 DEF Messages
  <2> HIDE DEF m
  <2>5. outbox' = Queued(m)
    BY <2>1 DEF m
  <2> QED
    BY <2>4, <2>5, OutboxGrows
<1> QED
  BY <1>1, <1>2

\* Everything that holds wherever the threads are, if sessions do not overlap.
SessionInvariant ==
    /\ QueuesInvariant /\ SessionTypes /\ OneThread /\ Control
    /\ Shown /\ Received /\ Sending

\* Where nothing comes in.
LEMMA ReceivedKept ==
    ASSUME Received, QueuesAside, latest' = latest
    PROVE  Received'
<1>1. /\ queue' = queue /\ hand' = hand /\ running' \in {running, NoPacket}
  BY DEF QueuesAside, queueVars
<1> QED
  BY <1>1 DEF Received, Waiting

\* What comes in is of the session.
LEMMA AcceptKeepsReceived ==
    ASSUME QueuesInvariant, Received, latest \in Sessions, NEW kind \in Kinds,
           Accept(latest, kind), UNCHANGED <<handVars, step, latest, local>>
    PROVE  Received'
<1>1. \A o \in Queues : \A x \in ToSet(Waiting(o)') : x \in ToSet(Waiting(o)) \/ x.of = latest
  BY AcceptKeepsQueues
<1>2. running' = running
  BY DEF handVars
<1> QED
  BY <1>1, <1>2 DEF Received

\* Client_Do
LEMMA NetKeepsSession ==
    ASSUME SessionInvariant, NEW s \in Sessions, NetStep(s)
    PROVE  SessionTypes' /\ Shown' /\ Received' /\ Sending'
<1>1. /\ QueuesInvariant /\ SessionTypes /\ OneThread /\ Control
      /\ Shown /\ Received /\ Sending
  BY DEF SessionInvariant
<1>2. /\ latest' = latest /\ chunk' = chunk /\ saved' = saved /\ defined' = defined
      /\ net[s] \notin {"unborn", "gone"}
  BY DEF NetStep, NetStarts, NetConnects, NetFails, NetLosesPeer, NetFlushes, NetLeaves,
         NetClears, NetEnds, NetReceives, worldVars, talkVars
<1>3. s = latest /\ latest # 0 /\ Thread = net[s] /\ latest \in Nat
  BY <1>1, <1>2, ThreadOf, ClientAssumption DEF SessionTypes
<1>4. Shown'
  BY <1>1, <1>2, ChunkKept DEF ChunkTurns, worldVars
<1>5. SessionTypes'
  <2>1. \/ net' = net
        \/ \E x \in {"connecting", "up", "lost", "leaving", "cleared", "gone"} :
               net' = [net EXCEPT ![s] = x]
    BY DEF NetStep, NetStarts, NetConnects, NetFails, NetLosesPeer, NetFlushes, NetLeaves,
           NetClears, NetEnds, NetReceives
  <2> QED
    BY <1>1, <1>2, <2>1 DEF SessionTypes
<1>6. CASE \/ NetStarts(s) \/ NetFails(s) \/ NetLosesPeer(s) \/ NetLeaves(s) \/ NetEnds(s)
  <2>1. Received'
    BY <1>1, <1>2, <1>6, NetAside, ReceivedKept
  <2>2. UNCHANGED <<outbox, greeted, strayed, latest>>
    BY <1>6 DEF NetStarts, NetFails, NetLosesPeer, NetLeaves, NetEnds, talkVars, sendVars
  <2>3. Thread \in Greeters => Thread' \in Greeters
    BY <1>1, <1>3, <1>6, ThreadBecomes
    DEF NetStarts, NetFails, NetLosesPeer, NetLeaves, NetEnds, Greeters
  <2> QED
    BY <1>1, <1>4, <1>5, <2>1, <2>2, <2>3, OutboxKept
<1>7. CASE NetConnects(s)
  <2>1. Received'
    BY <1>1, <1>2, <1>7, NetAside, ReceivedKept
  <2> DEFINE m == [of |-> s, kind |-> "identification"]
  <2>2. m \in Messages /\ m.of = latest /\ m.kind = "identification"
    BY <1>3 DEF Messages
  <2>3. UNCHANGED <<greeted, strayed, latest>> /\ outbox' = Queued(m)
        /\ net' = [net EXCEPT ![s] = "up"]
    BY <1>7 DEF NetConnects
  <2>4. Thread' = "up"
    BY <1>1, <1>2, <2>3, ThreadBecomes
  <2> HIDE DEF m
  <2>5. Sending'
    BY <1>1, <2>2, <2>3, <2>4, OutboxGrows DEF Greeters
  <2> QED
    BY <1>4, <1>5, <2>1, <2>5
<1>8. CASE NetFlushes(s)
  <2>1. Received'
    BY <1>1, <1>2, <1>8, NetAside, ReceivedKept
  <2>2. outbox' = <<>> /\ greeted' \in {greeted, latest}
    BY <1>3, <1>8 DEF NetFlushes
  <2>3. \A i \in Heeded(s) : outbox[i].of = s
    <3> SUFFICES ASSUME NEW i \in Heeded(s) PROVE outbox[i].of = s
      OBVIOUS
    <3>1. /\ i \in DOMAIN outbox /\ outbox[i].kind = "play"
          /\ \/ greeted = s
             \/ \E j \in 1 .. i - 1 : outbox[j] = [of |-> s, kind |-> "identification"]
      BY DEF Heeded
    <3>2. \/ greeted = latest
          \/ \E j \in 1 .. i - 1 : outbox[j].kind = "identification"
      BY <1>3, <3>1
    <3> QED
      BY <1>1, <1>3, <3>1, <3>2 DEF Sending, OutboxInTurn
  <2>4. strayed' = {}
    BY <1>1, <1>8, <2>3 DEF NetFlushes, Sending
  <2> QED
    BY <1>1, <1>2, <1>3, <1>4, <1>5, <2>1, <2>2, <2>4, OutboxCleared
<1>9. CASE NetClears(s)
  <2>1. Received'
    BY <1>1, <1>2, <1>9, NetAside, ReceivedKept
  <2>2. outbox' = <<>> /\ greeted' = greeted /\ strayed' = {}
    BY <1>1, <1>9 DEF NetClears, Sending
  <2> QED
    BY <1>1, <1>2, <1>3, <1>4, <1>5, <2>1, <2>2, OutboxCleared
<1>10. CASE \E kind \in Kinds : NetReceives(s, kind)
  <2>1. PICK kind \in Kinds : NetReceives(s, kind)
    BY <1>10
  <2>2. /\ Accept(latest, kind) /\ UNCHANGED <<handVars, step, latest, local>>
        /\ UNCHANGED <<outbox, greeted, strayed, net>>
    BY <1>3, <2>1 DEF NetReceives, talkVars, sendVars
  <2>3. Received'
    BY <1>1, <1>3, <2>2, AcceptKeepsReceived
  <2>4. Thread' = Thread
    BY <2>2 DEF Thread
  <2> QED
    BY <1>1, <1>4, <1>5, <2>2, <2>3, <2>4, OutboxKept
<1> QED
  BY <1>6, <1>7, <1>8, <1>9, <1>10 DEF NetStep

\* The thread of the local server.
LEMMA LocalKeepsSession ==
    ASSUME SessionInvariant, LocalStep
    PROVE  SessionTypes' /\ Shown' /\ Received' /\ Sending'
<1>1. /\ QueuesInvariant /\ SessionTypes /\ OneThread /\ Control
      /\ Shown /\ Received /\ Sending
  BY DEF SessionInvariant
<1>2. /\ UNCHANGED <<latest, net, worldVars, defined, outbox, greeted, strayed>>
      /\ Thread' = Thread
  BY DEF LocalStep, LocalEnds, LocalSends, talkVars, sendVars, Thread
<1>3. SessionTypes' /\ Shown' /\ Sending'
  BY <1>1, <1>2, ChunkKept, OutboxKept DEF ChunkTurns, SessionTypes, worldVars
<1>4. CASE LocalEnds
  BY <1>1, <1>2, <1>3, <1>4, MainAside, ReceivedKept
<1>5. CASE \E kind \in Kinds : LocalSends(kind)
  <2>1. PICK kind \in Kinds : LocalSends(kind)
    BY <1>5
  <2>2. /\ Accept(latest, kind) /\ UNCHANGED <<handVars, step, latest, local>>
        /\ local # "none"
    BY <2>1 DEF LocalSends
  <2>3. latest \in Sessions
    BY <1>1, <2>2, ClientAssumption DEF QueuesInvariant, QueueTypes, Sessions
  <2>4. Received'
    BY <1>1, <2>2, <2>3, AcceptKeepsReceived
  <2> QED
    BY <1>3, <2>4
<1> QED
  BY <1>4, <1>5 DEF LocalStep

\* Network_ProcessIncomingPackets.
LEMMA PacketsKeepSession ==
    ASSUME SessionInvariant,
           TakePackets \/ ExecuteGameplay \/ ExecuteTerrain \/ TerrainDone \/ GameplayDone
    PROVE  SessionTypes' /\ Shown' /\ Received' /\ Sending'
<1>1. /\ QueuesInvariant /\ SessionTypes /\ OneThread /\ Control
      /\ Shown /\ Received /\ Sending
  BY DEF SessionInvariant
<1>2. /\ UNCHANGED <<latest, net, worldVars, defined, outbox, greeted, strayed>>
      /\ Thread' = Thread
  BY DEF TakePackets, ExecuteGameplay, ExecuteTerrain, Execute, TerrainDone, GameplayDone,
         talkVars, sendVars, Thread
<1>3. SessionTypes' /\ Shown' /\ Sending'
  BY <1>1, <1>2, ChunkKept, OutboxKept DEF ChunkTurns, SessionTypes, worldVars
<1>4. CASE ExecuteGameplay \/ ExecuteTerrain
  <2>1. /\ running' = NoPacket \/ \E q \in Queues : running' \in ToSet(Waiting(q))
        /\ \A o \in Queues : ToSet(Waiting(o)') \subseteq ToSet(Waiting(o))
    BY <1>1, <1>4, ExecuteKeepsQueues
  <2>2. Received'
    BY <1>1, <1>2, <2>1 DEF Received
  <2> QED
    BY <1>3, <2>2
<1>5. CASE TakePackets \/ TerrainDone
  <2>1. \A q \in Queues : Waiting(q)' = Waiting(q)
    BY <1>1, <1>5, TakePacketsKeepsQueues, TerrainDoneKeepsQueues
  <2>2. running' = running
    BY <1>5 DEF TakePackets, TerrainDone
  <2>3. Received'
    BY <1>1, <1>2, <2>1, <2>2 DEF Received
  <2> QED
    BY <1>3, <2>3
<1>6. CASE GameplayDone
  <2>1. queue' = queue /\ hand' = hand /\ running' = running
    BY <1>6 DEF GameplayDone, queueVars, handVars
  <2>2. Received'
    BY <1>1, <1>2, <2>1 DEF Received, Waiting
  <2> QED
    BY <1>3, <2>2
<1> QED
  BY <1>4, <1>5, <1>6

\* The main thread, where it sends nothing and clears no queue.
LEMMA MainKeepsSession ==
    ASSUME SessionInvariant,
           \/ StartFrame \/ StartDisconnect \/ ClearWorld \/ FinishDisconnect
           \/ HandleMapInit \/ HandleBadInit \/ HandleLoadChunk \/ HandleUnloadChunk
           \/ HandleSetBlock \/ HandleOther
           \/ LoadChunks \/ Singleplayer \/ MainMenu \/ Quit \/ EndFrame \/ Shutdown
    PROVE  SessionTypes' /\ Shown' /\ Received' /\ Sending'
<1>1. /\ QueuesInvariant /\ SessionTypes /\ OneThread /\ Control
      /\ Shown /\ Received /\ Sending
  BY DEF SessionInvariant
<1>2. CASE StartFrame \/ FinishDisconnect \/ Singleplayer \/ Quit \/ EndFrame
  <2>1. /\ UNCHANGED <<latest, net, worldVars, outbox, greeted, strayed>>
        /\ defined' \in {0, defined, latest}
    BY <1>2 DEF StartFrame, FinishDisconnect, Singleplayer, Quit, EndFrame, talkVars, sendVars
  <2>2. QueuesAside
    BY <1>1, <1>2, MainAside DEF User
  <2>3. Thread' = Thread
    BY <2>1 DEF Thread
  <2> QED
    BY <1>1, <2>1, <2>2, <2>3, ChunkKept, OutboxKept, ReceivedKept
    DEF ChunkTurns, SessionTypes, worldVars, Shown
<1>3. CASE \/ HandleMapInit \/ HandleBadInit \/ HandleLoadChunk \/ HandleUnloadChunk
           \/ HandleSetBlock \/ HandleOther
  <2>1. /\ UNCHANGED <<latest, net, outbox, greeted, strayed, defined>>
    BY <1>3 DEF HandleMapInit, HandleBadInit, HandleLoadChunk, HandleUnloadChunk, HandleSetBlock,
                HandleOther, Handled, talkVars, sendVars
  <2>2. QueuesAside
    BY <1>1, <1>3, MainAside DEF Handle
  <2>3. Thread' = Thread
    BY <2>1 DEF Thread
  <2>4. running # NoPacket => latest > 0 /\ running.of = latest
    <3>1. running # NoPacket => running.of \in Sessions
      BY <1>1, PacketFacts DEF QueuesInvariant, QueueTypes
    <3>2. \A x \in Sessions : x > 0
      BY PacketFacts
    <3>3. running # NoPacket => running.of = latest
      BY <1>1 DEF Received
    <3> QED
      BY <3>1, <3>2, <3>3
  <2>5. ChunkTurns
    <3>1. CASE HandleMapInit \/ HandleBadInit \/ HandleOther
      BY <3>1 DEF HandleMapInit, HandleBadInit, HandleOther, ChunkTurns
    <3>2. CASE HandleLoadChunk
      <4>1. running # NoPacket
        BY <3>2 DEF HandleLoadChunk, NoPacket
      <4> QED
        BY <2>4, <3>2, <4>1 DEF HandleLoadChunk, ChunkTurns, worldVars
    <3>3. CASE HandleUnloadChunk
      BY <3>3 DEF HandleUnloadChunk, ChunkTurns
    <3>4. CASE HandleSetBlock
      BY <3>4 DEF HandleSetBlock, ChunkTurns, worldVars
    <3> QED
      BY <1>3, <3>1, <3>2, <3>3, <3>4
  <2> QED
    BY <1>1, <2>1, <2>2, <2>3, <2>5, ChunkKept, OutboxKept, ReceivedKept DEF SessionTypes, Shown
<1>4. CASE StartDisconnect \/ ClearWorld \/ LoadChunks \/ MainMenu \/ Shutdown
  <2>1. /\ UNCHANGED <<latest, net, outbox, greeted, strayed, defined>>
    BY <1>4 DEF StartDisconnect, ClearWorld, LoadChunks, MainMenu, Shutdown, talkVars, sendVars
  <2>2. QueuesAside
    BY <1>1, <1>4, MainAside DEF User
  <2>3. Thread' = Thread
    BY <2>1 DEF Thread
  <2>4. ChunkTurns
    <3>1. LoadChunks => latest > 0
      BY <1>1 DEF LoadChunks, Control, ScreensInTurn
    <3> QED
      BY <1>4, <3>1
      DEF StartDisconnect, EditsForgotten, ClearWorld, LoadChunks, MainMenu, Shutdown, ChunkTurns,
          worldVars
  <2> QED
    BY <1>1, <2>1, <2>2, <2>3, <2>4, ChunkKept, OutboxKept, ReceivedKept DEF SessionTypes, Shown
<1> QED
  BY <1>2, <1>3, <1>4

\* Where it clears the queues.
LEMMA PurgeKeepsSession ==
    ASSUME SessionInvariant, JoinLocal \/ PurgeQueues
    PROVE  SessionTypes' /\ Shown' /\ Received' /\ Sending'
<1>1. /\ QueuesInvariant /\ SessionTypes /\ OneThread /\ Control
      /\ Shown /\ Received /\ Sending
  BY DEF SessionInvariant
<1>2. /\ UNCHANGED <<latest, net, outbox, greeted, strayed, defined>>
      /\ ChunkTurns
  BY DEF JoinLocal, PurgeQueues, ChunkTurns, talkVars, sendVars
<1>3. /\ Purged /\ step \in {"join", "purge"} /\ step' \notin {"gameplay", "terrain"}
      /\ UNCHANGED <<arrivals, handVars, latest>> /\ (local' # "none" => local # "none")
  BY DEF JoinLocal, PurgeQueues
<1>4. \A q \in Queues : Waiting(q)' = <<>>
  BY <1>1, <1>3, PurgedKeepsQueues
<1>5. running' = NoPacket
  BY <1>1, <1>3, HandFacts DEF handVars
<1>6. Received'
  BY <1>4, <1>5, EmptyFacts DEF Received
<1>7. Thread' = Thread
  BY <1>2 DEF Thread
<1> QED
  BY <1>1, <1>2, <1>6, <1>7, ChunkKept, OutboxKept DEF SessionTypes, Shown

\* Where it sends.
LEMMA SendingKeepsSession ==
    ASSUME SessionInvariant, HandleTexture \/ Edit \/ SendPosition
    PROVE  SessionTypes' /\ Shown' /\ Received' /\ Sending'
<1>1. /\ QueuesInvariant /\ SessionTypes /\ OneThread /\ Control
      /\ Shown /\ Received /\ Sending
  BY DEF SessionInvariant
<1>2. UNCHANGED <<latest, net, greeted, strayed>> /\ Sent
  BY DEF HandleTexture, Edit, SendPosition, Handled
<1>3. QueuesAside
  BY <1>1, MainAside DEF Handle, User
<1>4. Thread' = Thread
  BY <1>2 DEF Thread
<1>5. defined' \in {0, defined, latest}
  <2>1. CASE HandleTexture
    <3>1. running # NoPacket /\ defined' = running.of
      BY <2>1 DEF HandleTexture, NoPacket
    <3> QED
      BY <1>1, <3>1 DEF Received
  <2>2. CASE Edit \/ SendPosition
    BY <2>2 DEF Edit, SendPosition
  <2> QED
    BY <2>1, <2>2
<1>6. ChunkTurns
  BY DEF HandleTexture, Edit, SendPosition, ChunkTurns, worldVars
<1>7. Sending'
  BY <1>1, <1>2, <1>4, SentKeepsSending
<1>8. Shown'
  BY <1>1, <1>2, <1>5, <1>6, ChunkKept
<1>9. Received'
  BY <1>1, <1>2, <1>3, ReceivedKept
<1> QED
  BY <1>1, <1>2, <1>7, <1>8, <1>9 DEF SessionTypes, Shown

\* A session begins with nothing of the last one.
LEMMA BeginKeepsSession ==
    ASSUME ~Overlap, SessionInvariant, Login \/ StartLocal
    PROVE  SessionTypes' /\ Shown' /\ Received' /\ Sending'
<1>1. /\ QueuesInvariant /\ SessionTypes /\ OneThread /\ Control
      /\ Shown /\ Received /\ Sending
  BY DEF SessionInvariant
<1>2. Quiet /\ NoThread
  <2>1. CASE Login
    BY <1>1, <2>1, BeginKeepsControl, AliveIs DEF Login, Ready
  <2>2. CASE StartLocal
    <3>1. step = "play" /\ screen = "loading" /\ local = "none"
      BY <2>2 DEF StartLocal
    <3> QED
      BY <1>1, <3>1 DEF Control, ScreensInTurn
  <2> QED
    BY <2>1, <2>2
<1>3. /\ latest' = latest + 1 /\ latest < MaxSessions
      /\ UNCHANGED <<queue, hand, running, chunk, saved, defined, outbox, greeted, strayed>>
  BY DEF Login, StartLocal, queueVars, handVars, worldVars, talkVars, sendVars
<1>4. latest \in Nat /\ MaxSessions \in Nat /\ Sessions = 1 .. MaxSessions
      /\ latest' \in 0 .. MaxSessions /\ latest' \in Nat /\ latest < latest'
  BY <1>1, <1>3, ClientAssumption DEF SessionTypes, Sessions
<1>5. SessionTypes'
  <2>1. net' = net \/ net' = [net EXCEPT ![latest + 1] = "created"]
    BY DEF Login, StartLocal
  <2> QED
    BY <1>1, <1>3, <1>4, <2>1 DEF SessionTypes
<1>6. Shown'
  BY <1>1, <1>2, <1>3 DEF Shown, Quiet
<1>7. Received'
  <2>1. <<>> \o <<>> = <<>> /\ \A q \in Queues : Empty[q] = <<>>
    BY EmptySeq, ConcatEmptySeq DEF Empty
  <2>2. \A q \in Queues : Waiting(q)' = <<>>
    BY <1>2, <1>3, <2>1 DEF Quiet, Waiting
  <2> QED
    BY <1>2, <1>3, <2>2, EmptyFacts DEF Received, Quiet
<1>8. Sending'
  <2>1. \A i \in DOMAIN outbox : outbox[i].kind # "identification"
    BY <1>1, <1>2 DEF Sending, OutboxInTurn, NoThread
  <2>2. greeted \in 0 .. latest' /\ greeted # latest'
    <3>1. greeted \in 0 .. latest
      BY <1>1 DEF Sending
    <3> QED
      BY <1>4, <3>1
  <2>3. \A i \in DOMAIN outbox : \A j \in 1 .. i - 1 : j \in DOMAIN outbox
    <3>1. DOMAIN outbox = 1 .. Len(outbox) /\ Len(outbox) \in Nat
      BY <1>1, LenProperties DEF Sending
    <3> QED
      BY <3>1
  <2>4. OutboxInTurn'
    BY <1>3, <2>1, <2>2, <2>3 DEF OutboxInTurn
  <2> QED
    BY <1>1, <1>3, <2>2, <2>4 DEF Sending
<1> QED
  BY <1>5, <1>6, <1>7, <1>8

----------------------------------------------------------------------------
(* The inductive invariant.                                                *)

LEMMA SessionInit == Init => SessionInvariant
<1> SUFFICES ASSUME Init PROVE SessionInvariant
  OBVIOUS
<1>1. QueuesInvariant
  BY QueuesInit
<1>2. /\ screen = "login" /\ connected = FALSE /\ threadState = "run" /\ sendTo = "nobody"
      /\ stop = FALSE /\ accepting = FALSE /\ reset = FALSE /\ step = "frame" /\ local = "none"
      /\ queue = Empty /\ hand = Empty /\ running = NoPacket /\ chunk = NoChunk /\ defined = 0
      /\ net = [s \in Sessions |-> "unborn"] /\ latest = 0 /\ saved = {}
      /\ outbox = <<>> /\ greeted = 0 /\ strayed = {}
  BY DEF Init
<1>3. NoChunk.modified = FALSE /\ Thread = "unborn" /\ 0 \in 0 .. MaxSessions
  BY <1>2, ClientAssumption DEF NoChunk, Thread
<1>4. SessionTypes /\ OneThread
  BY <1>2, <1>3 DEF SessionTypes, OneThread
<1>5. Control
  BY <1>2, <1>3
  DEF Control, FlagTypes, ThreadsInTurn, LocalInTurn, ConnectedToSomebody, ScreensInTurn,
      DisconnectsInOrder, Over, Quiet, DisconnectSteps, NoThread
<1>6. Shown
  BY <1>2 DEF Shown
<1>7. Received
  <2>1. <<>> \o <<>> = <<>> /\ \A q \in Queues : Empty[q] = <<>>
    BY EmptySeq, ConcatEmptySeq DEF Empty
  <2>2. \A q \in Queues : Waiting(q) = <<>>
    BY <1>2, <2>1 DEF Waiting
  <2> QED
    BY <1>2, <2>2, EmptyFacts DEF Received
<1>8. Sending
  <2>1. outbox \in Seq(Messages) /\ DOMAIN outbox = {}
    BY <1>2, EmptySeq
  <2> QED
    BY <1>2, <2>1 DEF Sending, OutboxInTurn
<1> QED
  BY <1>1, <1>4, <1>5, <1>6, <1>7, <1>8 DEF SessionInvariant

\* The control, step by step.
LEMMA ControlStep ==
    ASSUME ~Overlap, SessionInvariant, QueuesInvariant', Next
    PROVE  Control' /\ OneThread'
<1>1. /\ QueuesInvariant /\ SessionTypes /\ OneThread /\ Control
      /\ Shown /\ Received /\ Sending
  BY DEF SessionInvariant
<1>2. ASSUME UNCHANGED <<net, latest>> PROVE OneThread'
  BY <1>1, <1>2 DEF OneThread
<1>3. ASSUME NEW s \in Sessions, NetStep(s) PROVE Control' /\ OneThread'
  BY <1>1, <1>3, NetKeepsControl
<1>4. CASE LocalStep
  BY <1>1, <1>4, LocalKeepsControl
<1>5. CASE TakePackets \/ ExecuteGameplay \/ ExecuteTerrain \/ TerrainDone
  <2>1. UNCHANGED <<net, latest>>
    BY <1>5 DEF TakePackets, ExecuteGameplay, ExecuteTerrain, Execute, TerrainDone
  <2> QED
    BY <1>1, <1>2, <1>5, <2>1, PacketsKeepControl
<1>6. CASE Handle
  <2>1. UNCHANGED <<net, latest>> /\ running # NoPacket
    BY <1>6 DEF Handle, HandleMapInit, HandleBadInit, HandleLoadChunk, HandleUnloadChunk,
                HandleSetBlock, HandleTexture, HandleOther, Handled, NoPacket
  <2>2. running.of \in Sessions /\ running.of = latest
    BY <1>1, <2>1 DEF QueuesInvariant, QueueTypes, Packets, Received
  <2>3. \A x \in Sessions : x > 0
    BY PacketFacts
  <2>4. latest > 0
    BY <2>2, <2>3
  <2> QED
    BY <1>1, <1>2, <1>6, <2>1, <2>4, HandleKeepsControl
<1>7. CASE StartDisconnect \/ JoinLocal \/ ClearWorld \/ PurgeQueues \/ FinishDisconnect
  <2>1. UNCHANGED <<net, latest>>
    BY <1>7 DEF StartDisconnect, JoinLocal, ClearWorld, PurgeQueues, FinishDisconnect
  <2> QED
    BY <1>1, <1>2, <1>7, <2>1, DisconnectKeepsControl
<1>8. CASE Login \/ StartLocal
  BY <1>1, <1>8, BeginKeepsControl
<1>9. CASE Edit \/ LoadChunks \/ Singleplayer \/ MainMenu \/ Quit \/ Shutdown
  <2>1. UNCHANGED <<net, latest>>
    BY <1>9 DEF Edit, LoadChunks, Singleplayer, MainMenu, Quit, Shutdown
  <2> QED
    BY <1>1, <1>2, <1>9, <2>1, UserKeepsControl
<1>10. CASE StartFrame \/ GameplayDone \/ EndFrame \/ SendPosition
  <2>1. UNCHANGED <<net, latest>>
    BY <1>10 DEF StartFrame, GameplayDone, EndFrame, SendPosition
  <2> QED
    BY <1>1, <1>2, <1>10, <2>1, FrameKeepsControl
<1>11. CASE Exited
  <2>1. UNCHANGED vars
    BY <1>11 DEF Exited
  <2>2. UNCHANGED <<net, latest>> /\ Thread' = Thread
    BY <2>1 DEF vars, Thread
  <2> QED
    BY <1>1, <1>2, <2>1, <2>2
    DEF Control, FlagTypes, ThreadsInTurn, LocalInTurn, ConnectedToSomebody, ScreensInTurn,
        DisconnectsInOrder, Over, Quiet, DisconnectSteps, NoThread, vars, flagVars, queueVars,
        handVars, worldVars, talkVars
<1> QED
  BY <1>3, <1>4, <1>5, <1>6, <1>7, <1>8, <1>9, <1>10, <1>11 DEF Next, Processing, User

LEMMA SessionStep ==
    ASSUME ~Overlap
    PROVE  SessionInvariant /\ [Next]_vars => SessionInvariant'
<1> SUFFICES ASSUME SessionInvariant, [Next]_vars PROVE SessionInvariant'
  OBVIOUS
<1>1. QueuesInvariant'
  BY QueuesStep DEF SessionInvariant
<1>2. CASE Next /\ ~Exited
  <2>1. Control' /\ OneThread'
    BY <1>1, <1>2, ControlStep
  <2>2. SessionTypes' /\ Shown' /\ Received' /\ Sending'
    BY <1>2, NetKeepsSession, LocalKeepsSession, PacketsKeepSession, MainKeepsSession,
       PurgeKeepsSession, SendingKeepsSession, BeginKeepsSession
    DEF Next, Processing, Handle, User
  <2> QED
    BY <1>1, <2>1, <2>2 DEF SessionInvariant
<1>3. CASE UNCHANGED vars \/ Exited
  <2>1. UNCHANGED vars
    BY <1>3 DEF Exited
  <2>2. /\ UNCHANGED <<flagVars, queueVars, handVars, worldVars, sendVars>>
        /\ UNCHANGED <<screen, step, net, local, latest, reset, defined>>
        /\ Thread' = Thread
    BY <2>1 DEF vars, talkVars, Thread
  <2>3. SessionTypes' /\ Shown' /\ Received' /\ Sending' /\ OneThread'
    BY <2>2
    DEF SessionInvariant, SessionTypes, Shown, Received, Sending, OneThread, Waiting, OutboxInTurn,
        queueVars, handVars, worldVars, sendVars
  <2>4. Control'
    BY <2>2
    DEF SessionInvariant, Control, FlagTypes, ThreadsInTurn, LocalInTurn, ConnectedToSomebody,
        ScreensInTurn, DisconnectsInOrder, Over, Quiet, NoThread, flagVars, queueVars, handVars,
        worldVars
  <2> QED
    BY <1>1, <2>3, <2>4 DEF SessionInvariant
<1> QED
  BY <1>2, <1>3

\* What the properties say, from the invariant.
LEMMA SessionMeans ==
    ASSUME SessionInvariant
    PROVE  ClientInvariant /\ SessionsApart /\ LoginIsQuiet
<1>1. /\ QueuesInvariant /\ SessionTypes /\ OneThread /\ Control
      /\ Shown /\ Received /\ Sending
  BY DEF SessionInvariant
<1>2. /\ QueueTypes /\ Lanes /\ TextureBytesExact /\ HandsInStep
  BY <1>1 DEF QueuesInvariant
<1>3. QueuesInOrder /\ PacketsInPlace
  BY <1>2, LanesAre
<1>4. TypeOK
  <2>1. defined \in 0 .. latest
    BY <1>1, ClientAssumption DEF Shown, SessionTypes
  <2>2. strayed \subseteq Sessions
    BY <1>1 DEF Sending
  <2> QED
    BY <1>1, <1>2, <2>1, <2>2
    DEF TypeOK, QueueTypes, SessionTypes, Control, FlagTypes, Shown, Sending
<1>5. SendsHaveAPeer
  <2>1. ASSUME connected, step \in {"gameplay", "terrain", "play"}, sendTo = "local"
        PROVE  local = "running"
    BY <1>1, <2>1 DEF Control, FlagTypes, LocalInTurn, ConnectedToSomebody
  <2>2. ASSUME connected, sendTo # "local"
        PROVE  Alive # {}
    BY <1>1, <2>2, AliveIs DEF Control, ConnectedToSomebody, NoThread
  <2> QED
    BY <2>1, <2>2 DEF SendsHaveAPeer
<1>6. ClientInvariant
  BY <1>1, <1>2, <1>3, <1>4, <1>5 DEF ClientInvariant, Control, Sending
<1>7. SessionsApart
  BY <1>1 DEF SessionsApart, Received, Shown, Sending
<1>8. LoginIsQuiet
  BY <1>1 DEF LoginIsQuiet, Control, ScreensInTurn, Quiet, DisconnectSteps
<1> QED
  BY <1>6, <1>7, <1>8

\* ClientInvariant: the order of the queues, the count of textures and which
\* flags, screens, steps and threads go together (main thread, Client_Do and
\* the local server's thread), when no session begins before the thread of the
\* last one has ended.
THEOREM ClientInvariantHolds ==
    ASSUME ~Overlap
    PROVE  Spec => []ClientInvariant
<1>1. SessionInvariant /\ [Next]_vars => SessionInvariant'
  BY SessionStep
<1>2. SessionInvariant => ClientInvariant
  BY SessionMeans
<1> QED
  BY <1>1, <1>2, SessionInit, PTL DEF Spec

\* LoginIsQuiet: once Network_PerformDisconnect has brought the login screen
\* back, nothing of the old session is left to run on it or let in.
THEOREM LoginIsQuietHolds ==
    ASSUME ~Overlap
    PROVE  Spec => []LoginIsQuiet
<1>1. SessionInvariant /\ [Next]_vars => SessionInvariant'
  BY SessionStep
<1>2. SessionInvariant => LoginIsQuiet
  BY SessionMeans
<1> QED
  BY <1>1, <1>2, SessionInit, PTL DEF Spec

\* SessionsApart: no packet, chunk or definition of a session reaches a later
\* one, and what was queued for one server is acted on by no other
\* (Network_Receive, Network_ClearQueue, Client_ClearOutgoing).
THEOREM SessionsApartHolds ==
    ASSUME ~Overlap
    PROVE  Spec => []SessionsApart
<1>1. SessionInvariant /\ [Next]_vars => SessionInvariant'
  BY SessionStep
<1>2. SessionInvariant => SessionsApart
  BY SessionMeans
<1> QED
  BY <1>1, <1>2, SessionInit, PTL DEF Spec

\* A disconnect under way meets no edited chunk.
LEMMA NothingToWrite ==
    ASSUME SessionInvariant, [Next]_vars, Disconnecting
    PROVE  saved' = saved
<1>1. /\ step \in DisconnectSteps /\ screen # "closing"
      /\ step \in {"join", "clear"} => ~chunk.modified
      /\ HandsInStep
  BY DEF Disconnecting, SessionInvariant, Control, DisconnectsInOrder, QueuesInvariant
<1>2. running # NoPacket => step \in {"gameplay", "terrain"}
  BY <1>1 DEF HandsInStep
<1>3. CASE JoinLocal \/ ClearWorld
  BY <1>1, <1>3 DEF JoinLocal, ClearWorld, ChunkRemoved
<1>4. CASE StartDisconnect \/ PurgeQueues \/ FinishDisconnect
  BY <1>4 DEF StartDisconnect, PurgeQueues, FinishDisconnect, worldVars
<1>5. CASE Handle
  <2>1. running # NoPacket
    BY <1>5 DEF Handle, HandleMapInit, HandleBadInit, HandleLoadChunk, HandleUnloadChunk,
                HandleSetBlock, HandleTexture, HandleOther, NoPacket
  <2> QED
    BY <1>1, <1>2, <2>1 DEF DisconnectSteps
<1>6. CASE \/ StartFrame \/ TakePackets \/ ExecuteGameplay \/ GameplayDone \/ ExecuteTerrain
           \/ TerrainDone \/ StartLocal \/ EndFrame \/ Shutdown \/ User
  BY <1>1, <1>6
  DEF DisconnectSteps, StartFrame, TakePackets, ExecuteGameplay, GameplayDone, ExecuteTerrain,
      TerrainDone, StartLocal, EndFrame, Shutdown, User, Edit, SendPosition, LoadChunks, Login,
      Singleplayer, MainMenu, Quit
<1>7. CASE LocalStep
  BY <1>7 DEF LocalStep, LocalEnds, LocalSends, worldVars
<1>8. ASSUME NEW s \in Sessions, NetStep(s) PROVE saved' = saved
  BY <1>8 DEF NetStep, NetStarts, NetConnects, NetFails, NetLosesPeer, NetFlushes, NetLeaves,
              NetClears, NetEnds, NetReceives, worldVars
<1>9. CASE UNCHANGED vars
  BY <1>9 DEF vars, worldVars
<1> QED
  BY <1>3, <1>4, <1>5, <1>6, <1>7, <1>8, <1>9 DEF Next, Processing, Exited

\* DisconnectWritesNothing: a disconnect puts no chunk of a server into the
\* client's own world/, although the flag that keeps Chunk_SaveFile from it
\* belongs to the network thread as well (Network_PerformDisconnect).
THEOREM DisconnectWritesNothingHolds ==
    ASSUME ~Overlap
    PROVE  Spec => DisconnectWritesNothing
<1>1. SessionInvariant /\ [Next]_vars => SessionInvariant'
  BY SessionStep
<1>2. SessionInvariant /\ [Next]_vars => [Disconnecting => saved' = saved]_vars
  BY NothingToWrite
<1> QED
  BY <1>1, <1>2, SessionInit, PTL DEF Spec, DisconnectWritesNothing
=============================================================================
