-------------------------- MODULE ChunkLightProofs --------------------------
(***************************************************************************)
(* That light in the chunks of a client is never too dark nor too bright,  *)
(* that no mesh is forgotten, and that the queue of chunks is worked off,  *)
(* for every size of world and chunk, every level of light and any number  *)
(* of changes.                                                             *)
(*                                                                         *)
(* The walks are recursive functions: each is shown to be a sequence of    *)
(* rounds, and a round to keep what matters.  Spread is what they are for: *)
(* light of every cell has gone on to the next, but for nodes that are     *)
(* still in the queue and faces that are marked.  Improves carries it from *)
(* the walks to the lighting of chunks, Removes to edits, and Lightened    *)
(* to the states.                                                          *)
(*                                                                         *)
(* That nothing is too bright: what a walk adds comes from beside (Fed),   *)
(* what an edit leaves does (Upheld), and while chunks are away there are  *)
(* levels, none below the light there is, each with a reason (Reasoned).   *)
(* Where none is away light has gone on as far as those levels do, so they *)
(* are the light.                                                          *)
(***************************************************************************)
EXTENDS ChunkLight, SequenceFacts, FiniteSetTheorems

----------------------------------------------------------------------------
(* Where cells and chunks are.                                             *)

\* Division by the side of a chunk: one step further is the same chunk or the
\* next one.
LEMMA Dividing ==
    ASSUME NEW s \in Nat \ {0}, NEW a \in Int
    PROVE  /\ a \div s \in Int
           /\ s * (a \div s) <= a /\ a < s * (a \div s) + s
           /\ \A q \in Int : s * q <= a /\ a < s * q + s => q = a \div s
<1>1. a \div s \in Int /\ s * (a \div s) <= a /\ a < s * (a \div s) + s
  OBVIOUS
<1>2. ASSUME NEW q \in Int, s * q <= a, a < s * q + s PROVE q = a \div s
  <2>1. CASE q > a \div s
    <3>1. s * q >= s * (a \div s + 1)
      BY <1>1, <2>1
    <3> QED
      BY <1>1, <1>2, <3>1
  <2>2. CASE q < a \div s
    <3>1. s * (q + 1) <= s * (a \div s)
      BY <1>1, <2>2
    <3> QED
      BY <1>1, <1>2, <3>1
  <2> QED
    BY <1>1, <2>1, <2>2
<1> QED
  BY <1>1, <1>2

LEMMA NextDivided ==
    ASSUME NEW s \in Nat \ {0}, NEW a \in Int
    PROVE  (a + 1) \div s \in {a \div s, a \div s + 1}
<1> DEFINE q == a \div s
<1>1. q \in Int /\ s * q <= a /\ a < s * q + s
  BY Dividing
<1> HIDE DEF q
<1>2. CASE a + 1 < s * q + s
  <2>1. s * q <= a + 1
    BY <1>1
  <2> QED
    BY <1>1, <1>2, <2>1, Dividing DEF q
<1>3. CASE a + 1 = s * q + s
  <2>1. s * (q + 1) <= a + 1 /\ a + 1 < s * (q + 1) + s
    BY <1>1, <1>3
  <2> QED
    BY <1>1, <2>1, Dividing DEF q
<1> QED
  BY <1>1, <1>2, <1>3

LEMMA InRange ==
    ASSUME NEW s \in Nat \ {0}, NEW w \in Nat \ {0}, NEW a \in 0 .. (w * s - 1)
    PROVE  a \div s \in 0 .. (w - 1)
<1>1. a \div s \in Int /\ s * (a \div s) <= a /\ a < s * (a \div s) + s
  BY Dividing
<1>2. a \div s >= 0
  <2> SUFFICES ASSUME a \div s <= -1 PROVE FALSE
    BY <1>1
  <2>1. s * (a \div s) <= s * (-1)
    BY <1>1
  <2> QED
    BY <1>1, <2>1
<1>3. a \div s < w
  <2> SUFFICES ASSUME a \div s >= w PROVE FALSE
    BY <1>1
  <2>1. s * (a \div s) >= s * w
    BY <1>1
  <2> QED
    BY <1>1, <2>1
<1> QED
  BY <1>1, <1>2, <1>3

\* Cells and chunks are positions; a step and a step back.
LEMMA Stepping ==
    ASSUME NEW p \in Int \X Int, NEW f \in Faces
    PROVE  /\ Step(p, f) \in Int \X Int /\ Step(p, f) # p
           /\ Opposite(f) \in Faces /\ Opposite(Opposite(f)) = f
           /\ Step(Step(p, f), Opposite(f)) = p /\ Step(Step(p, Opposite(f)), f) = p
           /\ Step(p, Opposite(f)) \in Int \X Int
<1>1. PICK x \in Int, y \in Int : p = <<x, y>>
  OBVIOUS
<1>2. CASE f = "left"
  BY <1>1, <1>2 DEF Step, Opposite, Faces
<1>3. CASE f = "right"
  BY <1>1, <1>3 DEF Step, Opposite, Faces
<1>4. CASE f = "top"
  BY <1>1, <1>4 DEF Step, Opposite, Faces
<1>5. CASE f = "bottom"
  BY <1>1, <1>5 DEF Step, Opposite, Faces
<1> QED
  BY <1>2, <1>3, <1>4, <1>5 DEF Faces

LEMMA Positions ==
    /\ Cells \subseteq Int \X Int /\ Chunks \subseteq Int \X Int
    /\ \A c \in Cells : Home(c) \in Chunks
<1>1. Width * Side \in Int /\ Height * Side \in Int
  BY SizesAssumption
<1>2. ASSUME NEW c \in Cells PROVE Home(c) \in Chunks
  <2>1. c[1] \in 0 .. Width * Side - 1 /\ c[2] \in 0 .. Height * Side - 1
    BY <1>2 DEF Cells
  <2>2. c[1] \div Side \in 0 .. Width - 1 /\ c[2] \div Side \in 0 .. Height - 1
    BY <2>1, SizesAssumption, InRange
  <2> QED
    BY <2>2 DEF Home, Chunks
<1> QED
  BY <1>1, <1>2, SizesAssumption DEF Cells, Chunks

\* A step from a cell stays in its chunk or goes to the chunk on that side.
LEMMA Across ==
    ASSUME NEW c \in Cells, NEW f \in Faces
    PROVE  Home(Step(c, f)) \in {Home(c), Step(Home(c), f)}
<1>1. PICK x \in Int, y \in Int : c = <<x, y>>
  BY Positions
<1>2. Side \in Nat \ {0}
  BY SizesAssumption
<1>3. /\ x \div Side \in Int /\ y \div Side \in Int
      /\ (x + 1) \div Side \in {x \div Side, x \div Side + 1}
      /\ (y + 1) \div Side \in {y \div Side, y \div Side + 1}
  BY <1>2, Dividing, NextDivided
<1>4. /\ (x - 1) \div Side \in {x \div Side, x \div Side - 1}
      /\ (y - 1) \div Side \in {y \div Side, y \div Side - 1}
  <2>1. \A a \in Int : a - 1 \in Int /\ (a - 1) + 1 = a
    OBVIOUS
  <2>2. \A a \in Int : a \div Side \in {(a - 1) \div Side, (a - 1) \div Side + 1} /\ (a - 1) \div Side \in Int
    BY <1>2, <2>1, Dividing, NextDivided
  <2>3. \A a, b \in Int : a \in {b, b + 1} => b \in {a, a - 1}
    OBVIOUS
  <2> QED
    BY <1>3, <2>2, <2>3
<1>5. Home(c) = <<x \div Side, y \div Side>>
  BY <1>1 DEF Home
<1>6. CASE f = "left"
  BY <1>1, <1>3, <1>4, <1>5, <1>6 DEF Step, Home
<1>7. CASE f = "right"
  BY <1>1, <1>3, <1>4, <1>5, <1>7 DEF Step, Home
<1>8. CASE f = "top"
  BY <1>1, <1>3, <1>4, <1>5, <1>8 DEF Step, Home
<1>9. CASE f = "bottom"
  BY <1>1, <1>3, <1>4, <1>5, <1>9 DEF Step, Home, Faces
<1> QED
  BY <1>6, <1>7, <1>8, <1>9 DEF Faces

\* The top row of the world is in the top row of its chunk, which is a top one.
LEMMA TopRow ==
    ASSUME NEW c \in Cells, IsTopRow(c)
    PROVE  /\ Home(Step(c, "top")) # Home(c)
           /\ Step(c, "top") \notin Cells
           /\ Step(Home(c), "top") \notin Chunks
<1> DEFINE top == (Height * Side - 1) \div Side
<1>1. Height \in Nat \ {0} /\ Side \in Nat \ {0} /\ Height * Side \in Int
  BY SizesAssumption
<1>2. top = Height - 1
  <2>1. Side * (Height - 1) <= Height * Side - 1 /\ Height * Side - 1 < Side * (Height - 1) + Side
    BY <1>1
  <2> QED
    BY <1>1, <2>1, Dividing
<1>3. (Height * Side) \div Side = Height
  <2>1. Side * Height <= Height * Side /\ Height * Side < Side * Height + Side
    BY <1>1
  <2> QED
    BY <1>1, <2>1, Dividing
<1>4. PICK x \in Int : c = <<x, Height * Side - 1>>
  BY <1>1 DEF Cells, IsTopRow
<1>5. Step(c, "top") = <<x, Height * Side>>
  BY <1>1, <1>4 DEF Step
<1>6. Home(c)[2] = Height - 1 /\ Home(Step(c, "top"))[2] = Height
  BY <1>2, <1>3, <1>4, <1>5 DEF Home
<1> QED
  BY <1>1, <1>5, <1>6 DEF Cells, Chunks, Step

----------------------------------------------------------------------------
(* Walks that go a number of rounds.                                       *)

\* What holds at the start and in each round holds after the last.
LEMMA Reaching ==
    ASSUME NEW N \in Nat, NEW Good, 0 \in Good, \A n \in 1 .. N : n - 1 \in Good => n \in Good
    PROVE  0 .. N \subseteq Good
<1> DEFINE Bad == (0 .. N) \ Good
<1> SUFFICES ASSUME Bad # {} PROVE FALSE
  OBVIOUS
<1>1. Bad \in SUBSET Nat
  OBVIOUS
<1>2. PICK n \in Bad : \A k \in Bad : n <= k
  <2> HIDE DEF Bad
  <2> QED
    BY <1>1, LeastOne
<1>3. n \in 1 .. N /\ n - 1 \in 0 .. N /\ n - 1 \notin Bad
  BY <1>2
<1> QED
  BY <1>2, <1>3

\* w goes N rounds from a.
Walks(w, N, S, a, r) ==
    w \in [0 .. N -> S] /\ w[0] = a /\ \A n \in 1 .. N : w[n] = r[n][w[n - 1]]

\* Rounds can be gone one after the other.
LEMMA Iterates ==
    ASSUME NEW N \in Nat, NEW S, NEW a \in S, NEW r \in [1 .. N -> [S -> S]]
    PROVE  \E w : Walks(w, N, S, a, r)
<1> DEFINE Upto(n) == \E w \in [0 .. n -> S] : w[0] = a /\ \A k \in 1 .. n : w[k] = r[k][w[k - 1]]
           Good == {n \in 0 .. N : Upto(n)}
<1>1. Upto(0)
  <2> DEFINE w == [k \in 0 .. 0 |-> a]
  <2>1. w \in [0 .. 0 -> S] /\ w[0] = a /\ \A k \in 1 .. 0 : FALSE
    OBVIOUS
  <2> HIDE DEF w
  <2> QED
    BY <2>1
<1>2. ASSUME NEW n \in 1 .. N, Upto(n - 1) PROVE Upto(n)
  <2>1. PICK w \in [0 .. n - 1 -> S] : w[0] = a /\ \A k \in 1 .. n - 1 : w[k] = r[k][w[k - 1]]
    BY <1>2
  <2> DEFINE v == [k \in 0 .. n |-> IF k = n THEN r[n][w[n - 1]] ELSE w[k]]
  <2>2. r[n][w[n - 1]] \in S
    <3>1. n - 1 \in 0 .. n - 1
      OBVIOUS
    <3> QED
      BY <3>1
  <2>3. \A k \in 0 .. n : k # n => k \in 0 .. n - 1
    OBVIOUS
  <2>4. v \in [0 .. n -> S]
    BY <2>2, <2>3
  <2>5. v[n] = r[n][w[n - 1]] /\ \A k \in 0 .. n - 1 : v[k] = w[k]
    <3>1. n \in 0 .. n /\ \A k \in 0 .. n - 1 : k \in 0 .. n /\ k # n
      OBVIOUS
    <3> QED
      BY <3>1
  <2> HIDE DEF v
  <2>6. \A k \in 1 .. n : k - 1 \in 0 .. n - 1
    OBVIOUS
  <2>7. \A k \in 1 .. n : k # n => k \in 1 .. n - 1 /\ k \in 0 .. n - 1
    OBVIOUS
  <2>8. \A k \in 1 .. n : v[k] = r[k][v[k - 1]]
    BY <2>1, <2>5, <2>6, <2>7
  <2>9. v[0] = a
    <3>1. 0 \in 0 .. n - 1
      OBVIOUS
    <3> QED
      BY <2>1, <2>5, <3>1
  <2> QED
    BY <2>4, <2>8, <2>9
<1>3. 0 .. N \subseteq Good
  <2>1. 0 \in Good
    BY <1>1
  <2>2. \A n \in 1 .. N : n - 1 \in Good => n \in Good
    <3> HIDE DEF Upto
    <3> QED
      BY <1>2
  <2> HIDE DEF Good
  <2> QED
    BY <2>1, <2>2, Reaching
<1> QED
  BY <1>3 DEF Walks

----------------------------------------------------------------------------
(* What the walks work on.                                                 *)

Grids == [definition : [Blocks -> Kinds], data : [Cells -> Blocks], open : SUBSET Chunks,
          level : [Banks -> [Cells -> 0 .. MaxLight]],
          incomplete : [Banks -> SUBSET (Chunks \X Faces)], changed : SUBSET Chunks]

\* h is g with other light.
SameWorld(g, h) == h.definition = g.definition /\ h.data = g.data /\ h.open = g.open

\* The facts about a grid.
LEMMA GridFacts ==
    ASSUME NEW g \in Grids
    PROVE  /\ \A c \in Cells : Of(g, c) \in Kinds
           /\ \A c \in Cells : BlocksLight(g, c) \in BOOLEAN /\ Of(g, c).emits \in BOOLEAN
           /\ \A b \in Banks, c \in Cells : g.level[b][c] \in 0 .. MaxLight /\ g.level[b][c] \in Int
           /\ \A b, c, f : Loss(g, b, c, f) \in {0, 1}
           /\ \A b \in Banks : g.incomplete[b] \subseteq Chunks \X Faces
           /\ MaxLight \in Int /\ MaxLight >= 1
<1>1. MaxLight \in Int /\ MaxLight >= 1
  BY SizesAssumption
<1>2. \A c \in Cells : Of(g, c) \in Kinds
  BY DEF Of, Grids
<1>3. \A c \in Cells : BlocksLight(g, c) \in BOOLEAN /\ Of(g, c).emits \in BOOLEAN
  BY <1>2 DEF BlocksLight, Kinds
<1>4. \A b \in Banks, c \in Cells : g.level[b][c] \in 0 .. MaxLight
  BY DEF Grids
<1>5. \A b \in Banks : g.incomplete[b] \subseteq Chunks \X Faces
  BY DEF Grids
<1>6. \A b, c, f : Loss(g, b, c, f) \in {0, 1}
  BY DEF Loss
<1> QED
  BY <1>1, <1>2, <1>3, <1>4, <1>5, <1>6

\* What raises a cell comes from a node beside it.
LEMMA RaisedBy ==
    ASSUME NEW g \in Grids, NEW b \in Banks, NEW nodes \in SUBSET Cells, NEW n \in Cells,
           NEW l \in Raising(g, b, nodes, n)
    PROVE  /\ l \in 1 .. MaxLight /\ l > g.level[b][n]
           /\ \E c \in nodes, f \in Faces : Step(c, f) = n /\ Enters(g, c, f) /\ l = Offer(g, b, c, f)
<1>1. g.level[b][n] \in 0 .. MaxLight /\ MaxLight \in Nat
  BY GridFacts
<1>2. \A f \in Faces : Step(Step(n, Opposite(f)), f) = n
  BY Positions, Stepping
<1> QED
  BY <1>1, <1>2 DEF Raising

\* The brightest light that raises a cell.
LEMMA RaisingFacts ==
    ASSUME NEW g \in Grids, NEW b \in Banks, NEW nodes \in SUBSET Cells, NEW n \in Cells
    PROVE  /\ Raising(g, b, nodes, n) \subseteq 1 .. MaxLight
           /\ \A c \in nodes, f \in Faces :
                 Step(c, f) = n /\ Enters(g, c, f) =>
                    Offer(g, b, c, f) <= g.level[b][n] \/ Offer(g, b, c, f) \in Raising(g, b, nodes, n)
           /\ Raising(g, b, nodes, n) # {} =>
                 /\ Max(Raising(g, b, nodes, n)) \in Raising(g, b, nodes, n)
                 /\ \A l \in Raising(g, b, nodes, n) : Max(Raising(g, b, nodes, n)) >= l
<1> DEFINE R == Raising(g, b, nodes, n)
<1>1. g.level[b][n] \in 0 .. MaxLight /\ MaxLight \in Nat
  BY GridFacts
<1>2. R \subseteq 1 .. MaxLight
  BY <1>1 DEF Raising
<1>3. \A f \in Faces, c \in nodes : Step(c, f) = n => c = Step(n, Opposite(f))
  BY Positions, Stepping
<1>5. ASSUME NEW c \in nodes, NEW f \in Faces, Step(c, f) = n, Enters(g, c, f),
             Offer(g, b, c, f) > g.level[b][n]
      PROVE  Offer(g, b, c, f) \in R
  <2>1. Offer(g, b, c, f) \in Int /\ Offer(g, b, c, f) <= MaxLight
    BY GridFacts DEF Offer
  <2>2. c = Step(n, Opposite(f))
    BY <1>3, <1>5
  <2> QED
    BY <1>1, <1>5, <2>1, <2>2 DEF Raising
<1>6. \A c \in nodes, f \in Faces : Offer(g, b, c, f) \in Int
  BY GridFacts DEF Offer
<1>7. R # {} => Max(R) \in R /\ \A l \in R : Max(R) >= l
  <2> HIDE DEF R
  <2> QED
    BY <1>1, <1>2, MaxFacts
<1> QED
  BY <1>1, <1>2, <1>5, <1>6, <1>7

\* What one round does.
Turns(g, b, nodes, r) ==
    /\ r \in [g : Grids, nodes : SUBSET Cells]
    /\ SameWorld(g, r.g)
    /\ r.nodes = {n \in Cells : Raising(g, b, nodes, n) # {}}
    /\ \A c \in r.nodes : r.g.level[b][c] = Max(Raising(g, b, nodes, c))
    /\ \A c \in Cells \ r.nodes : r.g.level[b][c] = g.level[b][c]
    /\ r.g.incomplete[b] = g.incomplete[b] \cup CutOff(g, nodes, FALSE)
    /\ \A o \in Banks \ {b} : r.g.level[o] = g.level[o] /\ r.g.incomplete[o] = g.incomplete[o]
    /\ r.g.changed = g.changed \cup {Home(c) : c \in r.nodes}

LEMMA RoundIs ==
    ASSUME NEW g \in Grids, NEW b \in Banks, NEW nodes \in SUBSET Cells
    PROVE  Turns(g, b, nodes, Round(g, b, nodes))
<1> DEFINE r == Round(g, b, nodes)
           raised == {n \in UNION {Next4[c] : c \in nodes} : Raising(g, b, nodes, n) # {}}
           brighter == [c \in Cells |-> IF c \in raised THEN Max(Raising(g, b, nodes, c)) ELSE g.level[b][c]]
           marked == g.incomplete[b] \cup CutOff(g, nodes, FALSE)
           homes == {Home(c) : c \in raised}
<1>1. r = [g |-> [g EXCEPT !.level = [@ EXCEPT ![b] = brighter], !.incomplete = [@ EXCEPT ![b] = marked],
                           !.changed = @ \cup homes],
           nodes |-> raised]
  BY DEF Round
<1>2. raised = {n \in Cells : Raising(g, b, nodes, n) # {}}
  <2>1. \A c \in Cells : Next4[c] \subseteq Cells
    BY DEF Next4
  <2>2. ASSUME NEW n \in Cells, Raising(g, b, nodes, n) # {} PROVE n \in raised
    <3> PICK l \in Raising(g, b, nodes, n) : TRUE
      BY <2>2
    <3>1. PICK c \in nodes, f \in Faces : Step(c, f) = n
      BY RaisedBy
    <3>2. n \in Next4[c]
      BY <3>1 DEF Next4
    <3> QED
      BY <2>2, <3>2
  <2> QED
    BY <2>1, <2>2
<1> HIDE DEF raised
<1>3. brighter \in [Cells -> 0 .. MaxLight]
  <2>1. \A c \in raised : Max(Raising(g, b, nodes, c)) \in 0 .. MaxLight
    <3> SUFFICES ASSUME NEW c \in raised PROVE Max(Raising(g, b, nodes, c)) \in 0 .. MaxLight
      OBVIOUS
    <3>1. c \in Cells /\ Raising(g, b, nodes, c) # {}
      BY <1>2
    <3>2. Max(Raising(g, b, nodes, c)) \in 1 .. MaxLight
      BY <3>1, RaisingFacts
    <3>3. 1 .. MaxLight \subseteq 0 .. MaxLight
      OBVIOUS
    <3> QED
      BY <3>2, <3>3
  <2>2. \A c \in Cells : g.level[b][c] \in 0 .. MaxLight
    BY GridFacts
  <2> QED
    BY <2>1, <2>2
<1>4. \A c \in Cells : brighter[c] = IF c \in raised THEN Max(Raising(g, b, nodes, c)) ELSE g.level[b][c]
  OBVIOUS
<1>5. homes \subseteq Chunks
  BY <1>2, Positions
<1>6. marked \subseteq Chunks \X Faces
  <2>1. g.open \subseteq Chunks
    BY DEF Grids
  <2> QED
    BY <2>1, GridFacts DEF CutOff
<1>7. r.nodes = raised /\ raised \in SUBSET Cells
  BY <1>1, <1>2
<1> HIDE DEF brighter, marked, homes, r
<1>8. r.g = [g EXCEPT !.level = [@ EXCEPT ![b] = brighter], !.incomplete = [@ EXCEPT ![b] = marked],
                      !.changed = @ \cup homes]
  BY <1>1
<1>9. r.g \in Grids /\ r.g.level[b] = brighter /\ r.g.incomplete[b] = marked
         /\ r.g.changed = g.changed \cup homes
  <2>1. /\ r.g.level = [g.level EXCEPT ![b] = brighter]
        /\ r.g.incomplete = [g.incomplete EXCEPT ![b] = marked]
        /\ r.g.changed = g.changed \cup homes
    BY <1>8 DEF Grids
  <2>2. /\ r.g.level \in [Banks -> [Cells -> 0 .. MaxLight]] /\ r.g.level[b] = brighter
        /\ r.g.incomplete \in [Banks -> SUBSET (Chunks \X Faces)] /\ r.g.incomplete[b] = marked
    BY <1>3, <1>6, <2>1 DEF Grids
  <2>3. r.g.changed \in SUBSET Chunks
    BY <1>5, <2>1 DEF Grids
  <2>4. r.g \in Grids
    BY <1>8, <2>1, <2>2, <2>3 DEF Grids
  <2> QED
    BY <2>1, <2>2, <2>4
<1>10. SameWorld(g, r.g)
  BY <1>8 DEF SameWorld, Grids
<1>11. \A o \in Banks \ {b} : r.g.level[o] = g.level[o] /\ r.g.incomplete[o] = g.incomplete[o]
  BY <1>8 DEF Grids
<1>12. r \in [g : Grids, nodes : SUBSET Cells]
  BY <1>1, <1>7, <1>8, <1>9
<1>13. /\ \A c \in r.nodes : r.g.level[b][c] = Max(Raising(g, b, nodes, c))
       /\ \A c \in Cells \ r.nodes : r.g.level[b][c] = g.level[b][c]
  BY <1>4, <1>7, <1>9
<1>14. r.g.changed = g.changed \cup {Home(c) : c \in r.nodes}
  BY <1>7, <1>9 DEF homes
<1> QED
  BY <1>2, <1>7, <1>9, <1>10, <1>11, <1>12, <1>13, <1>14 DEF marked, Turns, r

----------------------------------------------------------------------------
(* Spreading.                                                              *)

\* Light is in open chunks only, and what is not clear has less than the sky;
\* some cells may be left apart.
Proper(g, apart) ==
    /\ g \in Grids
    /\ g.changed \subseteq g.open
    /\ \A b \in Banks, c \in Cells : ~IsOpen(g, c) => g.level[b][c] = 0
    /\ \A c \in Cells \ apart : ~Of(g, c).clear => g.level["sunlight"][c] <= MaxLight - 1

\* A mask makes a cell darker only if it was overlooked that it is not clear.
Recovers(b, h, c) ==
    /\ b = "sunlight" /\ c \in overlooked
    /\ ~Of(h, c).clear /\ h.level[b][c] >= MaxLight - 1

\* Where the light of two grids differs is noted.
Noted(g, h) ==
    /\ g.changed \subseteq h.changed
    /\ \A b \in Banks, c \in Cells : h.level[b][c] # g.level[b][c] => Home(c) \in h.changed

\* h is g with more light.
Brightens(g, h) ==
    /\ SameWorld(g, h) /\ Noted(g, h)
    /\ \A b \in Banks, c \in Cells : h.level[b][c] >= g.level[b][c] \/ Recovers(b, h, c)

\* No face of an open chunk is marked anew where there is an open chunk.
Marking(g, h) ==
    \A b \in Banks :
        /\ g.incomplete[b] \subseteq h.incomplete[b]
        /\ \A i \in h.incomplete[b] \ g.incomplete[b] : i[1] \in g.open /\ Step(i[1], i[2]) \notin g.open

\* The face between two cells of different chunks is marked.
Marked(g, b, c, f) ==
    /\ Home(Step(c, f)) # Home(c)
    /\ \/ <<Home(c), f>> \in g.incomplete[b]
       \/ <<Home(Step(c, f)), Opposite(f)>> \in g.incomplete[b]

\* The light of every cell but the nodes has gone on, or a mark tells where it
\* has not.  Some cells may be left apart.
Spread(g, b, nodes, apart) ==
    \A c \in Cells \ (nodes \cup apart), f \in Faces :
        /\ IsOpen(g, c) /\ Step(c, f) \in Cells \ apart
        /\ ~BlocksLight(g, c) /\ Passes(g, c, f)
        => /\ IsOpen(g, Step(c, f)) =>
                 \/ BlocksLight(g, Step(c, f))
                 \/ g.level[b][Step(c, f)] >= Offer(g, b, c, f)
                 \/ Marked(g, b, c, f)
           /\ ~IsOpen(g, Step(c, f)) => g.level[b][c] = 0 \/ <<Home(c), f>> \in g.incomplete[b]

\* The same world, the same sentences about it.
LEMMA SameSaid ==
    ASSUME NEW g, NEW h, SameWorld(g, h)
    PROVE  /\ \A c : Of(h, c) = Of(g, c) /\ BlocksLight(h, c) = BlocksLight(g, c)
           /\ \A c : IsOpen(h, c) = IsOpen(g, c)
           /\ \A c, f : Passes(h, c, f) = Passes(g, c, f)
           /\ \A b, c, f : Loss(h, b, c, f) = Loss(g, b, c, f)
           /\ \A c, f : Enters(h, c, f) = Enters(g, c, f)
<1>1. \A c : Of(h, c) = Of(g, c) /\ BlocksLight(h, c) = BlocksLight(g, c)
  BY DEF SameWorld, Of, BlocksLight
<1>2. \A c : IsOpen(h, c) = IsOpen(g, c)
  BY DEF SameWorld, IsOpen
<1>3. \A c, f : Passes(h, c, f) = Passes(g, c, f)
  BY <1>1 DEF Passes
<1>4. \A b, c, f : Loss(h, b, c, f) = Loss(g, b, c, f)
  BY <1>1 DEF Loss
<1>5. \A c, f : Enters(h, c, f) = Enters(g, c, f)
  BY <1>1, <1>2, <1>3 DEF Enters, Reaches
<1> QED
  BY <1>1, <1>2, <1>3, <1>4, <1>5

LEMMA NotedTwice ==
    ASSUME NEW g, NEW h, NEW k, Noted(g, h), Noted(h, k)
    PROVE  Noted(g, k)
  BY DEF Noted

LEMMA BrightensTwice ==
    ASSUME NEW g \in Grids, NEW h \in Grids, NEW k \in Grids, Brightens(g, h), Brightens(h, k)
    PROVE  Brightens(g, k)
<1>1. \A b \in Banks, c \in Cells : g.level[b][c] \in Int /\ h.level[b][c] \in Int /\ k.level[b][c] \in Int
  BY GridFacts
<1>2. SameWorld(g, k) /\ SameWorld(h, k)
  BY DEF Brightens, SameWorld
<1>3. Noted(g, k)
  BY NotedTwice DEF Brightens
<1>4. ASSUME NEW b \in Banks, NEW c \in Cells PROVE k.level[b][c] >= g.level[b][c] \/ Recovers(b, k, c)
  <2>1. CASE Recovers(b, k, c)
    BY <2>1
  <2>2. CASE k.level[b][c] >= h.level[b][c] /\ h.level[b][c] >= g.level[b][c]
    BY <1>1, <2>2
  <2>3. CASE k.level[b][c] >= h.level[b][c] /\ Recovers(b, h, c)
    <3>1. Of(k, c) = Of(h, c)
      BY <1>2, SameSaid
    <3>2. h.level[b][c] >= MaxLight - 1 /\ MaxLight \in Int
      BY <2>3, SizesAssumption DEF Recovers
    <3>3. k.level[b][c] >= MaxLight - 1
      BY <1>1, <2>3, <3>2
    <3> QED
      BY <2>3, <3>1, <3>3 DEF Recovers
  <2> QED
    BY <2>1, <2>2, <2>3 DEF Brightens
<1> QED
  BY <1>2, <1>3, <1>4 DEF Brightens

LEMMA MarkingTwice ==
    ASSUME NEW g, NEW h, NEW k, SameWorld(g, h), Marking(g, h), Marking(h, k)
    PROVE  Marking(g, k)
<1>1. h.open = g.open
  BY DEF SameWorld
<1> SUFFICES ASSUME NEW b \in Banks
             PROVE  /\ g.incomplete[b] \subseteq k.incomplete[b]
                    /\ \A i \in k.incomplete[b] \ g.incomplete[b] : i[1] \in g.open /\ Step(i[1], i[2]) \notin g.open
  BY DEF Marking
<1>2. g.incomplete[b] \subseteq h.incomplete[b] /\ h.incomplete[b] \subseteq k.incomplete[b]
  BY DEF Marking
<1>3. ASSUME NEW i \in k.incomplete[b] \ g.incomplete[b]
      PROVE i[1] \in g.open /\ Step(i[1], i[2]) \notin g.open
  BY <1>1, <1>3 DEF Marking
<1> QED
  BY <1>2, <1>3

\* Light that is given: by a lamp, or by the sky masks of these chunks.
Given(g, ks, b, c) ==
    \/ b = "light" /\ Of(g, c).emits
    \/ b = "sunlight" /\ c \in mask /\ Home(c) \in ks /\ ~BlocksLight(g, c)

\* A cell gets all its light from one beside it.
Feeds(g, b, c) ==
    \E n \in Cells, f \in Faces : /\ Step(n, f) = c /\ IsOpen(g, n) /\ Enters(g, n, f)
                                  /\ Offer(g, b, n, f) >= g.level[b][c]

\* What is brighter in h is given its light or gets it from beside.
Fed(g, h, ks) ==
    overlooked = {} =>
        \A b \in Banks, c \in Cells :
            h.level[b][c] # g.level[b][c] => Given(g, ks, b, c) \/ Feeds(h, b, c)

LEMMA FedMore ==
    ASSUME NEW g, NEW h, NEW ks, NEW more, ks \subseteq more, Fed(g, h, ks)
    PROVE  Fed(g, h, more)
  BY DEF Fed, Given

\* What feeds a cell still does when there is more light elsewhere.
LEMMA FeedsStill ==
    ASSUME NEW g \in Grids, NEW h \in Grids, SameWorld(g, h), NEW b \in Banks, NEW c \in Cells,
           \A n \in Cells : h.level[b][n] >= g.level[b][n],
           h.level[b][c] = g.level[b][c], Feeds(g, b, c)
    PROVE  Feeds(h, b, c)
<1>1. PICK n \in Cells, f \in Faces : /\ Step(n, f) = c /\ IsOpen(g, n) /\ Enters(g, n, f)
                                     /\ Offer(g, b, n, f) >= g.level[b][c]
  BY DEF Feeds
<1>2. IsOpen(h, n) /\ Enters(h, n, f) /\ Loss(h, b, c, f) = Loss(g, b, c, f)
  BY <1>1, SameSaid
<1>3. h.level[b][n] >= g.level[b][n] /\ h.level[b][n] \in Int /\ g.level[b][n] \in Int
  BY GridFacts
<1>4. Loss(g, b, c, f) \in Int /\ g.level[b][c] \in Int
  BY GridFacts
<1>5. Offer(h, b, n, f) >= h.level[b][c]
  BY <1>1, <1>2, <1>3, <1>4 DEF Offer
<1> QED
  BY <1>1, <1>2, <1>5 DEF Feeds

LEMMA FedTwice ==
    ASSUME NEW g \in Grids, NEW h \in Grids, NEW k \in Grids, Brightens(g, h), Brightens(h, k),
           NEW ks, Fed(g, h, ks), Fed(h, k, ks)
    PROVE  Fed(g, k, ks)
<1> SUFFICES ASSUME overlooked = {}, NEW b \in Banks, NEW c \in Cells, k.level[b][c] # g.level[b][c]
             PROVE  Given(g, ks, b, c) \/ Feeds(k, b, c)
  BY DEF Fed
<1>1. SameWorld(g, h) /\ SameWorld(h, k)
  BY DEF Brightens
<1>2. CASE k.level[b][c] # h.level[b][c]
  <2>1. Given(h, ks, b, c) \/ Feeds(k, b, c)
    BY <1>2 DEF Fed
  <2> QED
    BY <1>1, <2>1, SameSaid DEF Given
<1>3. CASE k.level[b][c] = h.level[b][c]
  <2>1. Given(g, ks, b, c) \/ Feeds(h, b, c)
    BY <1>3 DEF Fed
  <2>2. \A n \in Cells : k.level[b][n] >= h.level[b][n]
    BY DEF Brightens, Recovers
  <2> QED
    BY <1>1, <1>3, <2>1, <2>2, FeedsStill
<1> QED
  BY <1>2, <1>3

\* The facts of one round that the next lemmas need.
LEMMA RoundRaises ==
    ASSUME NEW g \in Grids, NEW b \in Banks, NEW nodes \in SUBSET Cells,
           NEW r, Turns(g, b, nodes, r), NEW n \in r.nodes
    PROVE  /\ n \in Cells /\ IsOpen(g, n) /\ ~BlocksLight(g, n)
           /\ r.g.level[b][n] > g.level[b][n] /\ r.g.level[b][n] \in 1 .. MaxLight
           /\ \E c \in nodes, f \in Faces : Step(c, f) = n /\ r.g.level[b][n] = Offer(g, b, c, f)
<1>1. n \in Cells /\ Raising(g, b, nodes, n) # {} /\ r.g.level[b][n] = Max(Raising(g, b, nodes, n))
  BY DEF Turns
<1>2. Max(Raising(g, b, nodes, n)) \in Raising(g, b, nodes, n)
  BY <1>1, RaisingFacts
<1> DEFINE l == r.g.level[b][n]
<1>3. l \in Raising(g, b, nodes, n)
  BY <1>1, <1>2
<1> HIDE DEF l
<1>4. l > g.level[b][n] /\ l \in 1 .. MaxLight
  BY <1>1, <1>3, RaisedBy
<1>5. PICK c \in nodes, f \in Faces : Step(c, f) = n /\ Enters(g, c, f) /\ l = Offer(g, b, c, f)
  BY <1>1, <1>3, RaisedBy
<1>6. IsOpen(g, n) /\ ~BlocksLight(g, n)
  BY <1>5 DEF Enters, Reaches
<1> QED
  BY <1>1, <1>4, <1>5, <1>6 DEF l

LEMMA RoundBrightens ==
    ASSUME NEW apart, NEW g, Proper(g, apart), NEW b \in Banks, NEW nodes \in SUBSET Cells,
           NEW r, Turns(g, b, nodes, r)
    PROVE  Proper(r.g, apart) /\ Brightens(g, r.g)
<1>1. g \in Grids /\ r.g \in Grids /\ SameWorld(g, r.g)
  BY DEF Turns, Proper
<1>2. \A n \in r.nodes : n \in Cells /\ IsOpen(g, n) /\ r.g.level[b][n] > g.level[b][n]
  BY <1>1, RoundRaises
<1>3. /\ \A c \in Cells \ r.nodes : r.g.level[b][c] = g.level[b][c]
      /\ \A o \in Banks \ {b} : r.g.level[o] = g.level[o]
      /\ r.g.changed = g.changed \cup {Home(c) : c \in r.nodes}
  BY <1>1 DEF Turns
<1>4. ASSUME NEW o \in Banks, NEW c \in Cells
      PROVE  r.g.level[o][c] = g.level[o][c] \/ (o = b /\ c \in r.nodes)
  BY <1>3
<1>5. \A o \in Banks, c \in Cells : r.g.level[o][c] >= g.level[o][c]
  BY <1>1, <1>2, <1>4, GridFacts
<1>6. Noted(g, r.g)
  BY <1>3, <1>4 DEF Noted
<1>7. Brightens(g, r.g)
  BY <1>1, <1>5, <1>6 DEF Brightens
<1>8. r.g.changed \subseteq r.g.open
  BY <1>1, <1>2, <1>3 DEF Proper, SameWorld, IsOpen
<1>9. \A o \in Banks, c \in Cells : ~IsOpen(r.g, c) => r.g.level[o][c] = 0
  BY <1>1, <1>2, <1>4, SameSaid DEF Proper
<1>10. ASSUME NEW n \in Cells \ apart, ~Of(r.g, n).clear PROVE r.g.level["sunlight"][n] <= MaxLight - 1
  <2>1. "sunlight" \in Banks /\ ~Of(g, n).clear
    BY <1>1, <1>10, SameSaid DEF Banks
  <2>2. CASE b = "sunlight" /\ n \in r.nodes
    <3>1. PICK c \in nodes, f \in Faces : Step(c, f) = n /\ r.g.level[b][n] = Offer(g, b, c, f)
      BY <1>1, <2>2, RoundRaises
    <3>2. Loss(g, b, n, f) = 1
      BY <2>1 DEF Loss
    <3> QED
      BY <1>1, <2>2, <3>1, <3>2, GridFacts DEF Offer
  <2>3. CASE ~(b = "sunlight" /\ n \in r.nodes)
    BY <1>4, <2>1, <2>3 DEF Proper
  <2> QED
    BY <2>2, <2>3
<1>11. Proper(r.g, apart)
  BY <1>1, <1>8, <1>9, <1>10 DEF Proper
<1> QED
  BY <1>7, <1>11

LEMMA RoundFeeds ==
    ASSUME NEW g, Proper(g, overlooked), NEW b \in Banks, NEW nodes \in SUBSET Cells,
           NEW r, Turns(g, b, nodes, r)
    PROVE  Fed(g, r.g, {})
<1>1. g \in Grids /\ r.g \in Grids /\ SameWorld(g, r.g) /\ Brightens(g, r.g)
  <2>1. g \in Grids /\ r.g \in Grids /\ SameWorld(g, r.g)
    BY DEF Turns, Proper
  <2> QED
    BY <2>1, RoundBrightens
<1> SUFFICES ASSUME overlooked = {}, NEW o \in Banks, NEW n \in Cells, r.g.level[o][n] # g.level[o][n]
             PROVE  Feeds(r.g, o, n)
  BY DEF Fed
<1>2. o = b /\ n \in r.nodes
  BY DEF Turns
<1>3. PICK c \in nodes, f \in Faces :
         Step(c, f) = n /\ Enters(g, c, f) /\ r.g.level[b][n] = Offer(g, b, c, f)
  <2>1. Raising(g, b, nodes, n) # {} /\ r.g.level[b][n] = Max(Raising(g, b, nodes, n))
    BY <1>2 DEF Turns
  <2>2. Max(Raising(g, b, nodes, n)) \in Raising(g, b, nodes, n)
    BY <1>1, <2>1, RaisingFacts
  <2>3. PICK l : l = r.g.level[b][n] /\ l \in Raising(g, b, nodes, n)
    BY <2>1, <2>2
  <2> QED
    BY <1>1, <2>3, RaisedBy
<1>4. r.g.level[b][n] \in 1 .. MaxLight
  BY <1>1, <1>2, RoundRaises
<1>5. /\ g.level[b][c] \in Int /\ r.g.level[b][c] \in Int /\ r.g.level[b][c] >= g.level[b][c]
      /\ Loss(g, b, n, f) \in {0, 1} /\ Loss(r.g, b, n, f) = Loss(g, b, n, f)
  BY <1>1, SameSaid, GridFacts DEF Brightens, Recovers
<1>6. g.level[b][c] # 0
  BY <1>3, <1>4, <1>5 DEF Offer
<1>7. IsOpen(g, c)
  BY <1>6 DEF Proper
<1>8. IsOpen(r.g, c) /\ Enters(r.g, c, f)
  BY <1>1, <1>3, <1>7, SameSaid
<1>9. Offer(r.g, b, c, f) >= r.g.level[b][n]
  BY <1>3, <1>4, <1>5 DEF Offer
<1> QED
  BY <1>2, <1>3, <1>8, <1>9 DEF Feeds

LEMMA RoundMarks ==
    ASSUME NEW g \in Grids, NEW b \in Banks, NEW nodes \in SUBSET Cells,
           NEW r, Turns(g, b, nodes, r)
    PROVE  Marking(g, r.g)
<1>1. /\ r.g.incomplete[b] = g.incomplete[b] \cup CutOff(g, nodes, FALSE)
      /\ \A o \in Banks \ {b} : r.g.incomplete[o] = g.incomplete[o]
  BY DEF Turns
<1>2. \A i \in CutOff(g, nodes, FALSE) : i[1] \in g.open /\ Step(i[1], i[2]) \notin g.open
  BY DEF CutOff
<1> QED
  BY <1>1, <1>2 DEF Marking

LEMMA RoundSpreads ==
    ASSUME NEW g \in Grids, NEW b \in Banks, NEW nodes \in SUBSET Cells,
           NEW r, Turns(g, b, nodes, r), NEW apart, Spread(g, b, nodes, apart)
    PROVE  Spread(r.g, b, r.nodes, apart)
<1>1. r.g \in Grids /\ SameWorld(g, r.g) /\ r.nodes \in SUBSET Cells
  BY DEF Turns
<1>2. g.incomplete[b] \subseteq r.g.incomplete[b]
         /\ CutOff(g, nodes, FALSE) \subseteq r.g.incomplete[b]
  BY DEF Turns
<1>3. ASSUME NEW c \in Cells PROVE r.g.level[b][c] >= g.level[b][c]
  <2>1. c \in r.nodes => r.g.level[b][c] > g.level[b][c]
    BY RoundRaises
  <2>2. c \notin r.nodes => r.g.level[b][c] = g.level[b][c]
    BY DEF Turns
  <2> QED
    BY <1>1, <2>1, <2>2, GridFacts
<1>4. SUFFICES ASSUME NEW c \in Cells \ (r.nodes \cup apart), NEW f \in Faces,
                      IsOpen(g, c), Step(c, f) \in Cells \ apart, ~BlocksLight(g, c), Passes(g, c, f)
               PROVE  /\ IsOpen(g, Step(c, f)) =>
                             \/ BlocksLight(g, Step(c, f))
                             \/ r.g.level[b][Step(c, f)] >= Offer(r.g, b, c, f)
                             \/ Marked(r.g, b, c, f)
                      /\ ~IsOpen(g, Step(c, f)) => r.g.level[b][c] = 0 \/ <<Home(c), f>> \in r.g.incomplete[b]
  BY <1>1, SameSaid DEF Spread
<1> DEFINE n == Step(c, f)
<1>5. r.g.level[b][c] = g.level[b][c] /\ Offer(r.g, b, c, f) = Offer(g, b, c, f)
         /\ Offer(g, b, c, f) \in Int
  BY <1>1, SameSaid, GridFacts DEF Turns, Offer
<1>6. /\ g.level[b][n] \in Int /\ r.g.level[b][n] \in Int
      /\ r.g.level[b][n] >= g.level[b][n]
  BY <1>1, <1>3, <1>4, GridFacts
<1>7. Marked(g, b, c, f) => Marked(r.g, b, c, f)
  BY <1>2 DEF Marked
<1>8. CASE c \notin nodes
  <2>1. /\ IsOpen(g, n) => \/ BlocksLight(g, n)
                           \/ g.level[b][n] >= Offer(g, b, c, f)
                           \/ Marked(g, b, c, f)
        /\ ~IsOpen(g, n) => g.level[b][c] = 0 \/ <<Home(c), f>> \in g.incomplete[b]
    BY <1>4, <1>8 DEF Spread
  <2> QED
    BY <1>2, <1>5, <1>6, <1>7, <2>1
<1>9. CASE c \in nodes
  <2>1. ASSUME IsOpen(g, n), ~BlocksLight(g, n) PROVE r.g.level[b][n] >= Offer(r.g, b, c, f)
    <3>1. Enters(g, c, f)
      BY <1>4, <2>1 DEF Enters, Reaches
    <3>2. Offer(g, b, c, f) <= g.level[b][n] \/ Offer(g, b, c, f) \in Raising(g, b, nodes, n)
      BY <1>4, <1>9, <3>1, RaisingFacts
    <3>3. CASE Offer(g, b, c, f) <= g.level[b][n]
      BY <1>5, <1>6, <3>3
    <3>4. CASE Offer(g, b, c, f) \in Raising(g, b, nodes, n)
      <4>1. r.g.level[b][n] = Max(Raising(g, b, nodes, n))
        BY <1>4, <3>4 DEF Turns
      <4>2. Max(Raising(g, b, nodes, n)) >= Offer(g, b, c, f)
        BY <1>4, <3>4, RaisingFacts
      <4> QED
        BY <1>5, <4>1, <4>2
    <3> QED
      BY <3>2, <3>3, <3>4
  <2>2. ASSUME ~IsOpen(g, n) PROVE <<Home(c), f>> \in r.g.incomplete[b]
    <3>1. Home(c) \in g.open /\ Home(n) \notin g.open /\ Home(n) \in Chunks
      BY <1>4, <2>2, Positions DEF IsOpen
    <3>2. Home(n) = Step(Home(c), f)
      BY <3>1, Across
    <3>3. <<Home(c), f>> \in CutOff(g, nodes, FALSE)
      BY <1>4, <1>9, <3>1, <3>2 DEF CutOff
    <3> QED
      BY <1>2, <3>3
  <2> QED
    BY <2>1, <2>2
<1> QED
  BY <1>8, <1>9

\* Twice the level and the row of the nodes fall.
Below(g, b, nodes, m) == \A c \in nodes : 2 * g.level[b][c] + c[2] <= m

LEMMA RoundFalls ==
    ASSUME NEW g \in Grids, NEW b \in Banks, NEW nodes \in SUBSET Cells,
           NEW r, Turns(g, b, nodes, r), NEW m \in Int, Below(g, b, nodes, m)
    PROVE  Below(r.g, b, r.nodes, m - 1)
<1> SUFFICES ASSUME NEW n \in r.nodes PROVE 2 * r.g.level[b][n] + n[2] <= m - 1
  BY DEF Below
<1>1. PICK c \in nodes, f \in Faces : Step(c, f) = n /\ r.g.level[b][n] = Offer(g, b, c, f)
  BY ONLY Turns(g, b, nodes, r), g \in Grids, b \in Banks, nodes \in SUBSET Cells, n \in r.nodes,
     RoundRaises
<1>2. 2 * g.level[b][c] + c[2] <= m /\ g.level[b][c] \in Int
  BY GridFacts DEF Below
<1>3. PICK x \in Int, y \in Int : c = <<x, y>>
  BY Positions
<1>4. n[2] \in {y - 1, y, y + 1} /\ (n[2] = y - 1 <=> f = "bottom")
  BY <1>1, <1>3 DEF Step, Faces
<1>5. Loss(g, b, n, f) \in {0, 1} /\ (Loss(g, b, n, f) = 0 => f = "bottom")
  BY DEF Loss
<1>6. r.g.level[b][n] = g.level[b][c] - Loss(g, b, n, f)
  BY <1>1 DEF Offer
<1> QED
  BY <1>2, <1>3, <1>4, <1>5, <1>6

\* The walk is a sequence of rounds.
IsWalk(w, g, b, nodes) ==
    /\ w \in [0 .. Rounds -> [g : Grids, nodes : SUBSET Cells]]
    /\ w[0] = [g |-> g, nodes |-> nodes]
    /\ \A n \in 1 .. Rounds : IF w[n - 1].nodes = {} THEN w[n] = w[n - 1]
                              ELSE Turns(w[n - 1].g, b, w[n - 1].nodes, w[n])
    /\ Chunk_SpreadLight(g, b, nodes) = w[Rounds].g

LEMMA WalkIs ==
    ASSUME NEW g \in Grids, NEW b \in Banks, NEW nodes \in SUBSET Cells
    PROVE  \E w : IsWalk(w, g, b, nodes)
<1> DEFINE S == [g : Grids, nodes : SUBSET Cells]
           a == [g |-> g, nodes |-> nodes]
           F(s) == IF s.nodes = {} THEN s ELSE Round(s.g, b, s.nodes)
           Body(w) == [n \in 0 .. Rounds |-> IF n = 0 THEN a ELSE F(w[n - 1])]
           walk == CHOOSE w : w = Body(w)
<1>1. Rounds \in Nat
  BY SizesAssumption DEF Rounds
<1>2. ASSUME NEW s \in S
      PROVE  F(s) \in S /\ IF s.nodes = {} THEN F(s) = s ELSE Turns(s.g, b, s.nodes, F(s))
  <2>1. s.g \in Grids /\ s.nodes \in SUBSET Cells
    OBVIOUS
  <2>2. Turns(s.g, b, s.nodes, Round(s.g, b, s.nodes))
    BY <2>1, RoundIs
  <2>3. Round(s.g, b, s.nodes) \in S
    BY <2>2 DEF Turns
  <2> QED
    BY <2>2, <2>3
<1>3. a \in S
  OBVIOUS
<1> HIDE DEF S, a, F
<1>4. \E w : w \in [0 .. Rounds -> S] /\ w = Body(w)
  <2> DEFINE r == [n \in 1 .. Rounds |-> [s \in S |-> F(s)]]
  <2>1. r \in [1 .. Rounds -> [S -> S]]
    BY <1>2
  <2>2. \A n \in 1 .. Rounds, s \in S : r[n][s] = F(s)
    OBVIOUS
  <2> HIDE DEF r, Body, walk
  <2>3. PICK w : Walks(w, Rounds, S, a, r)
    BY <1>1, <1>3, <2>1, Iterates
  <2>4. w \in [0 .. Rounds -> S] /\ w[0] = a /\ \A n \in 1 .. Rounds : w[n] = r[n][w[n - 1]]
    BY <2>3 DEF Walks
  <2>5. \A n \in 0 .. Rounds : n # 0 => n \in 1 .. Rounds /\ n - 1 \in 0 .. Rounds
    BY <1>1
  <2>6. \A n \in 0 .. Rounds : w[n] = IF n = 0 THEN a ELSE F(w[n - 1])
    BY <2>2, <2>4, <2>5
  <2> QED
    BY <2>4, <2>6 DEF Body
<1>5. \E w : w = Body(w)
  <2> HIDE DEF Body
  <2> QED
    BY <1>4
<1>6. walk = Body(walk)
  <2> HIDE DEF Body
  <2> QED
    BY <1>5
<1>7. Chunk_SpreadLight(g, b, nodes) = walk[Rounds].g
  BY DEF Chunk_SpreadLight, a, F
<1> HIDE DEF walk
<1>8. DOMAIN walk = 0 .. Rounds /\ \A n \in 0 .. Rounds : walk[n] = IF n = 0 THEN a ELSE F(walk[n - 1])
  BY <1>6
<1> HIDE DEF Body
<1>9. \A n \in 0 .. Rounds : walk[n] \in S
  <2> DEFINE Good == {n \in 0 .. Rounds : walk[n] \in S}
  <2>1. 0 \in Good
    BY <1>1, <1>3, <1>8
  <2>2. ASSUME NEW n \in 1 .. Rounds, n - 1 \in Good PROVE n \in Good
    <3>1. n \in 0 .. Rounds /\ n # 0
      BY <1>1
    <3> QED
      BY <1>2, <1>8, <2>2, <3>1
  <2>3. 0 .. Rounds \subseteq Good
    <3> HIDE DEF Good
    <3> QED
      BY <1>1, <2>1, <2>2, Reaching
  <2> QED
    BY <2>3
<1>10. walk = [n \in 0 .. Rounds |-> walk[n]]
  BY <1>6 DEF Body
<1>11. walk \in [0 .. Rounds -> S]
  BY <1>9, <1>10
<1>12. ASSUME NEW n \in 1 .. Rounds
       PROVE  IF walk[n - 1].nodes = {} THEN walk[n] = walk[n - 1]
              ELSE Turns(walk[n - 1].g, b, walk[n - 1].nodes, walk[n])
  <2>1. n \in 0 .. Rounds /\ n # 0 /\ n - 1 \in 0 .. Rounds
    BY <1>1
  <2>2. walk[n] = F(walk[n - 1]) /\ walk[n - 1] \in S
    BY <1>8, <1>9, <2>1
  <2> QED
    BY <1>2, <2>2
<1>13. walk[0] = [g |-> g, nodes |-> nodes]
  BY <1>1, <1>8 DEF a
<1> QED
  BY <1>7, <1>11, <1>12, <1>13 DEF S, IsWalk

\* s is reached from g and the nodes by a walk.
Along(g, b, nodes, s) ==
    /\ Proper(s.g, overlooked) /\ s.nodes \in SUBSET Cells
    /\ \A apart : Proper(g, apart) => Proper(s.g, apart)
    /\ Brightens(g, s.g) /\ Marking(g, s.g)
    /\ Fed(g, s.g, {}) /\ \A o \in Banks \ {b} : s.g.level[o] = g.level[o]
    /\ \A apart : Spread(g, b, nodes, apart) => Spread(s.g, b, s.nodes, apart)

LEMMA OneRound ==
    ASSUME NEW g, g \in Grids, NEW b \in Banks, NEW nodes, NEW s, Along(g, b, nodes, s),
           NEW r, Turns(s.g, b, s.nodes, r)
    PROVE  Along(g, b, nodes, r)
<1>1. s.g \in Grids /\ Proper(s.g, overlooked) /\ s.nodes \in SUBSET Cells /\ Brightens(g, s.g)
         /\ Marking(g, s.g)
  BY DEF Along, Proper
<1>2. r.nodes \in SUBSET Cells
  BY DEF Turns
<1>3. /\ Proper(r.g, overlooked) /\ Brightens(s.g, r.g)
      /\ \A apart : Proper(g, apart) => Proper(r.g, apart)
  BY <1>1, RoundBrightens DEF Along
<1>4. Marking(s.g, r.g)
  BY <1>1, RoundMarks
<1>5. r.g \in Grids /\ SameWorld(g, s.g)
  BY <1>1, <1>3 DEF Proper, Brightens
<1>6. Brightens(g, r.g)
  BY <1>1, <1>3, <1>5, BrightensTwice
<1>7. Marking(g, r.g)
  BY <1>1, <1>4, <1>5, MarkingTwice
<1>8. \A o \in Banks \ {b} : r.g.level[o] = g.level[o]
  BY DEF Turns, Along
<1>9. ASSUME NEW apart, Spread(g, b, nodes, apart) PROVE Spread(r.g, b, r.nodes, apart)
  <2>1. Spread(s.g, b, s.nodes, apart)
    BY <1>9 DEF Along
  <2> QED
    BY <1>1, <2>1, RoundSpreads
<1>10. Fed(g, s.g, {}) /\ Fed(s.g, r.g, {})
  BY <1>1, RoundFeeds DEF Along
<1>11. Fed(g, r.g, {})
  BY <1>1, <1>3, <1>5, <1>10, FedTwice
<1> QED
  BY <1>2, <1>3, <1>6, <1>7, <1>8, <1>9, <1>11 DEF Along

\* Chunk_SpreadLight: more light, gone on from every node.
Spreads(g, b, nodes, h) ==
    /\ Proper(h, overlooked) /\ Brightens(g, h) /\ Marking(g, h) /\ Fed(g, h, {})
    /\ \A apart : Proper(g, apart) => Proper(h, apart)
    /\ \A o \in Banks \ {b} : h.level[o] = g.level[o]
    /\ \A apart : Spread(g, b, nodes, apart) => Spread(h, b, {}, apart)

LEMMA SpreadLightSpreads ==
    ASSUME NEW g, Proper(g, overlooked), NEW b \in Banks, NEW nodes \in SUBSET Cells
    PROVE  Spreads(g, b, nodes, Chunk_SpreadLight(g, b, nodes))
<1>1. g \in Grids
  BY DEF Proper
<1> PICK w : IsWalk(w, g, b, nodes)
  BY <1>1, WalkIs
<1>2. /\ w \in [0 .. Rounds -> [g : Grids, nodes : SUBSET Cells]]
      /\ w[0] = [g |-> g, nodes |-> nodes]
      /\ \A n \in 1 .. Rounds : IF w[n - 1].nodes = {} THEN w[n] = w[n - 1]
                                ELSE Turns(w[n - 1].g, b, w[n - 1].nodes, w[n])
      /\ Chunk_SpreadLight(g, b, nodes) = w[Rounds].g
  BY DEF IsWalk
<1> DEFINE Good == {n \in 0 .. Rounds : /\ Along(g, b, nodes, w[n])
                                        /\ Below(w[n].g, b, w[n].nodes, Rounds - 1 - n)}
<1>3. Rounds \in Nat /\ Rounds = 2 * MaxLight + Height * Side /\ Height * Side \in Nat
  BY SizesAssumption DEF Rounds
<1>4. \A c \in Cells : c[2] \in 0 .. Height * Side - 1
  BY DEF Cells
<1>5. 0 \in Good
  <2>1. w[0].g = g /\ w[0].nodes = nodes
    BY <1>2
  <2>2. Brightens(g, g) /\ Marking(g, g) /\ Fed(g, g, {})
    BY <1>1, GridFacts DEF Brightens, Noted, Marking, SameWorld, Fed
  <2>3. Along(g, b, nodes, w[0])
    BY <2>1, <2>2 DEF Along
  <2>4. Below(g, b, nodes, Rounds - 1)
    <3> SUFFICES ASSUME NEW c \in nodes PROVE 2 * g.level[b][c] + c[2] <= Rounds - 1
      BY DEF Below
    <3>1. g.level[b][c] \in 0 .. MaxLight /\ c[2] \in 0 .. Height * Side - 1
      BY <1>1, <1>4, GridFacts
    <3> QED
      BY <1>1, <1>3, <3>1, GridFacts
  <2> QED
    BY <1>3, <2>1, <2>3, <2>4
<1>6. ASSUME NEW n \in 1 .. Rounds, n - 1 \in Good PROVE n \in Good
  <2>1. /\ Along(g, b, nodes, w[n - 1]) /\ n - 1 \in 0 .. Rounds /\ n \in 0 .. Rounds
        /\ Below(w[n - 1].g, b, w[n - 1].nodes, Rounds - n)
    BY <1>3, <1>6
  <2>2. w[n - 1].g \in Grids /\ w[n - 1].nodes \in SUBSET Cells
    BY <1>2, <2>1
  <2>3. CASE w[n - 1].nodes = {}
    <3>1. w[n] = w[n - 1]
      BY <1>2, <2>3
    <3>2. Below(w[n].g, b, w[n].nodes, Rounds - 1 - n)
      BY <2>3, <3>1 DEF Below
    <3> QED
      BY <2>1, <3>1, <3>2
  <2>4. CASE w[n - 1].nodes # {}
    <3>1. Turns(w[n - 1].g, b, w[n - 1].nodes, w[n])
      BY <1>2, <2>4
    <3>2. Along(g, b, nodes, w[n])
      BY <1>1, <2>1, <3>1, OneRound
    <3>3. Rounds - n \in Int /\ (Rounds - n) - 1 = Rounds - 1 - n
      BY <1>3
    <3>4. Below(w[n].g, b, w[n].nodes, (Rounds - n) - 1)
      BY <2>1, <2>2, <3>1, <3>3, RoundFalls
    <3> QED
      BY <2>1, <3>2, <3>3, <3>4
  <2> QED
    BY <2>3, <2>4
<1>7. Rounds \in Good
  <2> HIDE DEF Good
  <2>1. 0 .. Rounds \subseteq Good
    BY <1>3, <1>5, <1>6, Reaching
  <2> QED
    BY <1>3, <2>1
<1>8. Along(g, b, nodes, w[Rounds]) /\ Below(w[Rounds].g, b, w[Rounds].nodes, -1)
  BY <1>3, <1>7
<1>9. w[Rounds].nodes = {}
  <2> SUFFICES ASSUME NEW c \in w[Rounds].nodes PROVE FALSE
    OBVIOUS
  <2>1. w[Rounds].g \in Grids /\ c \in Cells
    BY <1>2, <1>3
  <2>2. 2 * w[Rounds].g.level[b][c] + c[2] <= -1
    BY <1>8 DEF Below
  <2>3. w[Rounds].g.level[b][c] \in 0 .. MaxLight /\ c[2] \in 0 .. Height * Side - 1
    BY <1>4, <2>1, GridFacts
  <2> QED
    BY <1>3, <2>2, <2>3
<1> QED
  BY <1>2, <1>8, <1>9 DEF Along, Spreads

\* Marks of nodes after their level was set: h is g before the walk.
Set(g, b, levels) ==
    [g EXCEPT !.level[b] = [c \in Cells |-> IF c \in DOMAIN levels THEN levels[c] ELSE @[c]],
              !.changed = @ \cup {Home(c) : c \in {s \in DOMAIN levels : g.level[b][s] # levels[s]}}]

\* Levels that may be set: in open chunks, not less than there is but where it
\* was overlooked, and less than the sky where it is not clear.
Settable(g, b, levels) ==
    /\ DOMAIN levels \subseteq Cells
    /\ \A c \in DOMAIN levels :
          /\ IsOpen(g, c) /\ levels[c] \in 0 .. MaxLight
          /\ \/ levels[c] >= g.level[b][c]
             \/ b = "sunlight" /\ c \in overlooked /\ ~Of(g, c).clear /\ levels[c] = MaxLight - 1
          /\ b = "sunlight" /\ ~Of(g, c).clear => levels[c] <= MaxLight - 1

Brightest(levels) == {c \in DOMAIN levels : levels[c] = MaxLight}

LEMMA SetIs ==
    ASSUME NEW g \in Grids, NEW b \in Banks, NEW levels, Settable(g, b, levels),
           NEW h, h = Set(g, b, levels)
    PROVE  /\ h \in Grids /\ SameWorld(g, h) /\ h.incomplete = g.incomplete
           /\ \A c \in DOMAIN levels : h.level[b][c] = levels[c]
           /\ \A c \in Cells \ DOMAIN levels : h.level[b][c] = g.level[b][c]
           /\ \A o \in Banks \ {b} : h.level[o] = g.level[o]
           /\ h.changed = g.changed \cup {Home(c) : c \in {s \in DOMAIN levels : g.level[b][s] # levels[s]}}
<1> DEFINE L == [c \in Cells |-> IF c \in DOMAIN levels THEN levels[c] ELSE g.level[b][c]]
           homes == {Home(c) : c \in {s \in DOMAIN levels : g.level[b][s] # levels[s]}}
<1>1. h = [g EXCEPT !.level = [@ EXCEPT ![b] = L], !.changed = @ \cup homes]
  BY DEF Set
<1>2. L \in [Cells -> 0 .. MaxLight]
  BY GridFacts DEF Settable
<1>3. /\ \A c \in DOMAIN levels : L[c] = levels[c]
      /\ \A c \in Cells \ DOMAIN levels : L[c] = g.level[b][c]
  BY DEF Settable
<1>4. homes \subseteq Chunks
  BY Positions DEF Settable
<1> HIDE DEF L, homes
<1>5. h.level = [g.level EXCEPT ![b] = L] /\ h.changed = g.changed \cup homes
  BY <1>1 DEF Grids
<1>6. h.level \in [Banks -> [Cells -> 0 .. MaxLight]] /\ h.level[b] = L
  BY <1>2, <1>5 DEF Grids
<1>7. \A o \in Banks \ {b} : h.level[o] = g.level[o]
  BY <1>5 DEF Grids
<1>8. h.changed \in SUBSET Chunks
  BY <1>4, <1>5 DEF Grids
<1>9. h \in Grids
  BY <1>1, <1>6, <1>8 DEF Grids
<1>10. SameWorld(g, h) /\ h.incomplete = g.incomplete
  BY <1>1 DEF SameWorld, Grids
<1> QED
  BY <1>3, <1>5, <1>6, <1>7, <1>9, <1>10 DEF homes

LEMMA SetBrightens ==
    ASSUME NEW apart, NEW g, Proper(g, apart), NEW b \in Banks, NEW levels, Settable(g, b, levels),
           NEW h, h = Set(g, b, levels)
    PROVE  Proper(h, apart) /\ Brightens(g, h) /\ Marking(g, h)
<1>1. g \in Grids
  BY DEF Proper
<1>2. /\ h \in Grids /\ SameWorld(g, h) /\ h.incomplete = g.incomplete
      /\ \A c \in DOMAIN levels : h.level[b][c] = levels[c]
      /\ \A c \in Cells \ DOMAIN levels : h.level[b][c] = g.level[b][c]
      /\ \A o \in Banks \ {b} : h.level[o] = g.level[o]
      /\ h.changed = g.changed \cup {Home(c) : c \in {s \in DOMAIN levels : g.level[b][s] # levels[s]}}
  BY <1>1, SetIs
<1>3. DOMAIN levels \subseteq Cells
  BY DEF Settable
<1>4. \A o \in Banks, c \in Cells : h.level[o][c] = g.level[o][c] \/ (o = b /\ c \in DOMAIN levels)
  BY <1>2
<1>5. ASSUME NEW o \in Banks, NEW c \in Cells PROVE h.level[o][c] >= g.level[o][c] \/ Recovers(o, h, c)
  <2>1. CASE o = b /\ c \in DOMAIN levels
    <3>1. h.level[o][c] = levels[c] /\ Of(h, c) = Of(g, c) /\ MaxLight \in Int
      BY <1>2, <2>1, SameSaid, SizesAssumption
    <3> QED
      BY <2>1, <3>1 DEF Settable, Recovers
  <2>2. CASE h.level[o][c] = g.level[o][c]
    BY <1>1, <2>2, GridFacts
  <2> QED
    BY <1>4, <2>1, <2>2
<1>6. Marking(g, h)
  BY <1>2 DEF Marking
<1>7. Noted(g, h)
  BY <1>2, <1>3, <1>4 DEF Noted
<1>8. Brightens(g, h)
  BY <1>2, <1>5, <1>7 DEF Brightens
<1>9. h.changed \subseteq h.open
  <2>1. g.changed \subseteq g.open /\ h.open = g.open
    BY <1>2 DEF Proper, SameWorld
  <2>2. \A c \in DOMAIN levels : Home(c) \in g.open
    BY DEF Settable, IsOpen
  <2> QED
    BY <1>2, <2>1, <2>2
<1>10. ASSUME NEW o \in Banks, NEW c \in Cells, ~IsOpen(h, c) PROVE h.level[o][c] = 0
  <2>1. ~IsOpen(g, c)
    BY <1>2, <1>10, SameSaid
  <2>2. c \notin DOMAIN levels
    BY <2>1 DEF Settable
  <2> QED
    BY <1>4, <2>1, <2>2 DEF Proper
<1>11. ASSUME NEW c \in Cells \ apart, ~Of(h, c).clear PROVE h.level["sunlight"][c] <= MaxLight - 1
  <2>1. ~Of(g, c).clear
    BY <1>2, <1>11, SameSaid
  <2>2. CASE b = "sunlight" /\ c \in DOMAIN levels
    BY <1>2, <2>1, <2>2 DEF Settable
  <2>3. CASE ~(b = "sunlight" /\ c \in DOMAIN levels)
    <3>1. h.level["sunlight"][c] = g.level["sunlight"][c]
      BY <1>4, <2>3 DEF Banks
    <3> QED
      BY <2>1, <3>1 DEF Proper
  <2> QED
    BY <2>2, <2>3
<1>12. Proper(h, apart)
  BY <1>2, <1>9, <1>10, <1>11 DEF Proper
<1> QED
  BY <1>6, <1>8, <1>12

LEMMA SetSpreads ==
    ASSUME NEW g \in Grids, NEW b \in Banks, NEW levels, Settable(g, b, levels),
           NEW h, h = Set(g, b, levels),
           NEW apart, b = "light" \/ overlooked \subseteq apart, Spread(g, b, {}, apart)
    PROVE  Spread(h, b, DOMAIN levels, apart \ Brightest(levels))
<1>1. /\ h \in Grids /\ SameWorld(g, h) /\ h.incomplete = g.incomplete
      /\ \A c \in DOMAIN levels : h.level[b][c] = levels[c]
      /\ \A c \in Cells \ DOMAIN levels : h.level[b][c] = g.level[b][c]
  BY SetIs
<1>2. SUFFICES ASSUME NEW c \in Cells \ (DOMAIN levels \cup apart), NEW f \in Faces,
                      IsOpen(g, c), Step(c, f) \in Cells \ (apart \ Brightest(levels)),
                      ~BlocksLight(g, c), Passes(g, c, f)
               PROVE  /\ IsOpen(g, Step(c, f)) =>
                             \/ BlocksLight(g, Step(c, f))
                             \/ h.level[b][Step(c, f)] >= Offer(h, b, c, f)
                             \/ Marked(h, b, c, f)
                      /\ ~IsOpen(g, Step(c, f)) => h.level[b][c] = 0 \/ <<Home(c), f>> \in h.incomplete[b]
  <2>1. Brightest(levels) \subseteq DOMAIN levels
    BY DEF Brightest
  <2> QED
    BY <1>1, <2>1, SameSaid DEF Spread
<1> DEFINE n == Step(c, f)
<1>3. h.level[b][c] = g.level[b][c] /\ Offer(h, b, c, f) = Offer(g, b, c, f)
  BY <1>1, SameSaid DEF Offer
<1>4. Offer(g, b, c, f) \in Int /\ Offer(g, b, c, f) <= MaxLight /\ g.level[b][n] \in Int
  BY <1>2, GridFacts DEF Offer
<1>5. CASE n \in Brightest(levels)
  <2>1. n \in DOMAIN levels /\ h.level[b][n] = MaxLight /\ IsOpen(g, n)
    BY <1>1, <1>5 DEF Brightest, Settable
  <2> QED
    BY <1>3, <1>4, <2>1, GridFacts
<1>6. CASE n \notin apart
  <2>1. h.level[b][n] >= g.level[b][n] /\ h.level[b][n] \in Int
    <3>1. n \in DOMAIN levels => levels[n] >= g.level[b][n]
      BY <1>6 DEF Settable
    <3> QED
      BY <1>1, <1>2, <3>1, GridFacts
  <2>2. /\ IsOpen(g, n) => \/ BlocksLight(g, n)
                           \/ g.level[b][n] >= Offer(g, b, c, f)
                           \/ Marked(g, b, c, f)
        /\ ~IsOpen(g, n) => g.level[b][c] = 0 \/ <<Home(c), f>> \in g.incomplete[b]
    BY <1>2, <1>6 DEF Spread
  <2>3. Marked(g, b, c, f) => Marked(h, b, c, f)
    BY <1>1 DEF Marked
  <2> QED
    BY <1>1, <1>3, <1>4, <2>1, <2>2, <2>3
<1> QED
  BY <1>2, <1>5, <1>6

\* Lighted: the levels are there, and have gone on.
LEMMA LightedSpreads ==
    ASSUME NEW g, Proper(g, overlooked), NEW b \in Banks, NEW levels, Settable(g, b, levels),
           NEW h, h = Lighted(g, b, levels)
    PROVE  /\ Proper(h, overlooked) /\ Brightens(g, h) /\ Marking(g, h)
           /\ \A apart : Proper(g, apart) => Proper(h, apart)
           /\ \A o \in Banks \ {b} : h.level[o] = g.level[o]
           /\ \A apart : (b = "light" \/ overlooked \subseteq apart) /\ Spread(g, b, {}, apart) =>
                            Spread(h, b, {}, apart \ Brightest(levels))
           /\ \A c \in DOMAIN levels : h.level[b][c] >= levels[c]
           /\ \A ks : (\A c \in DOMAIN levels : Given(g, ks, b, c)) => Fed(g, h, ks)
<1> DEFINE s == Set(g, b, levels)
<1>1. h = Chunk_SpreadLight(s, b, DOMAIN levels)
  BY DEF Lighted, Set
<1> HIDE DEF s
<1>2. g \in Grids /\ DOMAIN levels \in SUBSET Cells
  BY DEF Proper, Settable
<1>3. /\ Proper(s, overlooked) /\ Brightens(g, s) /\ Marking(g, s)
      /\ \A apart : Proper(g, apart) => Proper(s, apart)
  BY SetBrightens DEF s
<1>4. s \in Grids /\ SameWorld(g, s)
  BY <1>3 DEF Proper, Brightens
<1>5. Spreads(s, b, DOMAIN levels, h)
  BY <1>1, <1>2, <1>3, SpreadLightSpreads
<1>6. Proper(h, overlooked) /\ Brightens(s, h) /\ Marking(s, h) /\ h \in Grids
  BY <1>5 DEF Spreads, Proper
<1>7. Brightens(g, h) /\ Marking(g, h)
  BY <1>2, <1>3, <1>4, <1>6, BrightensTwice, MarkingTwice
<1>8. /\ \A o \in Banks \ {b} : s.level[o] = g.level[o]
      /\ \A c \in DOMAIN levels : s.level[b][c] = levels[c]
  BY <1>2, SetIs DEF s
<1>9. \A o \in Banks \ {b} : h.level[o] = g.level[o]
  BY <1>5, <1>8 DEF Spreads
<1>10. ASSUME NEW c \in DOMAIN levels PROVE h.level[b][c] >= levels[c]
  <2>1. c \in Cells /\ s.level[b][c] = levels[c]
    BY <1>2, <1>8
  <2>2. CASE Recovers(b, h, c)
    <3>1. Of(h, c) = Of(g, c)
      BY <1>7, SameSaid DEF Brightens
    <3>2. levels[c] <= MaxLight - 1 /\ levels[c] \in Int /\ MaxLight \in Int /\ h.level[b][c] >= MaxLight - 1
      BY <2>2, <3>1, SizesAssumption DEF Settable, Recovers
    <3>3. h.level[b][c] \in Int
      BY <1>6, <2>1, GridFacts
    <3> QED
      BY <3>2, <3>3
  <2> QED
    BY <1>6, <2>1, <2>2 DEF Brightens
<1>13. \A apart : Proper(g, apart) => Proper(h, apart)
  BY <1>3, <1>5 DEF Spreads
<1>11. ASSUME NEW apart, b = "light" \/ overlooked \subseteq apart, Spread(g, b, {}, apart) PROVE Spread(h, b, {}, apart \ Brightest(levels))
  <2>1. Spread(s, b, DOMAIN levels, apart \ Brightest(levels))
    BY <1>2, <1>11, SetSpreads DEF s
  <2> QED
    BY <1>5, <2>1 DEF Spreads
<1>12. ASSUME NEW ks, \A c \in DOMAIN levels : Given(g, ks, b, c) PROVE Fed(g, h, ks)
  <2>1. \A o \in Banks, c \in Cells : s.level[o][c] # g.level[o][c] => o = b /\ c \in DOMAIN levels
    BY <1>2, SetIs DEF s
  <2>2. Fed(g, s, ks)
    BY <1>12, <2>1 DEF Fed
  <2>3. Fed(s, h, {}) /\ {} \subseteq ks
    BY <1>5 DEF Spreads
  <2>4. Fed(s, h, ks)
    BY ONLY <2>3, FedMore
  <2> QED
    BY <1>2, <1>3, <1>4, <1>6, <2>2, <2>4, FedTwice
<1> QED
  BY <1>6, <1>7, <1>9, <1>10, <1>11, <1>12, <1>13

----------------------------------------------------------------------------
(* Lighting a chunk.                                                       *)

AllSpread(g, apart) == \A b \in Banks : Spread(g, b, {}, apart)

\* More nodes, less to show.
LEMMA MoreNodes ==
    ASSUME NEW g, NEW b, NEW apart, NEW nodes, Spread(g, b, {}, apart)
    PROVE  Spread(g, b, nodes, apart)
  BY DEF Spread

\* More cells apart, less to show.
LEMMA MoreApart ==
    ASSUME NEW g, NEW b, NEW nodes, NEW less, NEW more, less \subseteq more
    PROVE  /\ Spread(g, b, nodes, less) => Spread(g, b, nodes, more)
           /\ Proper(g, less) => Proper(g, more)
<1>1. Spread(g, b, nodes, less) => Spread(g, b, nodes, more)
  BY DEF Spread
<1>2. Proper(g, less) => Proper(g, more)
  BY DEF Proper
<1> QED
  BY <1>1, <1>2

\* A walk for one bank of light leaves the other as it is.
LEMMA OtherBank ==
    ASSUME NEW g, NEW h, SameWorld(g, h), Marking(g, h), NEW b \in Banks, h.level[b] = g.level[b],
           NEW nodes, NEW apart, Spread(g, b, nodes, apart)
    PROVE  Spread(h, b, nodes, apart)
<1>1. \A c, f : Marked(g, b, c, f) => Marked(h, b, c, f)
  BY DEF Marking, Marked
<1>2. g.incomplete[b] \subseteq h.incomplete[b]
  BY DEF Marking
<1>3. \A c, f : Offer(h, b, c, f) = Offer(g, b, c, f)
  BY SameSaid DEF Offer
<1> QED
  BY <1>1, <1>2, <1>3, SameSaid DEF Spread

\* What every part of the lighting of a chunk does.
Improves(g, h) == Proper(h, overlooked) /\ Brightens(g, h) /\ (AllSpread(g, overlooked) => AllSpread(h, overlooked))

\* The marks between open chunks.
OpenMarks(g, b) == {i \in g.incomplete[b] : i[1] \in g.open /\ Step(i[1], i[2]) \in g.open}

LEMMA ImprovesTwice ==
    ASSUME NEW g, NEW h, NEW k, Proper(g, overlooked), Improves(g, h), Improves(h, k)
    PROVE  Improves(g, k)
<1>1. g \in Grids /\ h \in Grids /\ k \in Grids
  BY DEF Improves, Proper
<1>2. Brightens(g, k)
  BY <1>1, BrightensTwice DEF Improves
<1> QED
  BY <1>2 DEF Improves

LEMMA ImprovesFed ==
    ASSUME NEW g, NEW h, NEW k, Proper(g, overlooked), Improves(g, h), Improves(h, k),
           NEW ks, Fed(g, h, ks), Fed(h, k, ks)
    PROVE  Fed(g, k, ks)
<1>1. g \in Grids /\ h \in Grids /\ k \in Grids
  BY DEF Improves, Proper
<1> QED
  BY <1>1, FedTwice DEF Improves

LEMMA ImprovesNot ==
    ASSUME NEW g, Proper(g, overlooked)
    PROVE  Improves(g, g)
<1>1. g \in Grids
  BY DEF Proper
<1> QED
  BY <1>1, GridFacts DEF Improves, Brightens, Noted, SameWorld

LEMMA MarkingOpen ==
    ASSUME NEW g, NEW h, SameWorld(g, h), Marking(g, h), NEW b \in Banks
    PROVE  OpenMarks(h, b) \subseteq OpenMarks(g, b)
  BY DEF SameWorld, Marking, OpenMarks

\* A walk for one bank is such a part.
LEMMA SpreadImproves ==
    ASSUME NEW g, Proper(g, overlooked), NEW b \in Banks, NEW nodes \in SUBSET Cells,
           NEW h, h = Chunk_SpreadLight(g, b, nodes)
    PROVE  Improves(g, h) /\ Fed(g, h, {}) /\ \A o \in Banks : OpenMarks(h, o) \subseteq OpenMarks(g, o)
<1>1. Spreads(g, b, nodes, h)
  BY SpreadLightSpreads
<1>2. SameWorld(g, h) /\ Marking(g, h) /\ Brightens(g, h) /\ Proper(h, overlooked)
  BY <1>1 DEF Spreads, Brightens
<1>3. ASSUME AllSpread(g, overlooked), NEW o \in Banks PROVE Spread(h, o, {}, overlooked)
  <2>1. Spread(g, o, {}, overlooked)
    BY <1>3 DEF AllSpread
  <2>2. CASE o = b
    <3>1. Spread(g, b, nodes, overlooked)
      BY <2>1, <2>2, MoreNodes
    <3> QED
      BY <1>1, <2>2, <3>1 DEF Spreads
  <2>3. CASE o # b
    <3>1. h.level[o] = g.level[o]
      BY <1>1, <2>3 DEF Spreads
    <3> QED
      BY <1>2, <2>1, <3>1, OtherBank
  <2> QED
    BY <2>2, <2>3
<1>4. AllSpread(g, overlooked) => AllSpread(h, overlooked)
  BY <1>3 DEF AllSpread
<1> QED
  BY <1>1, <1>2, <1>4, MarkingOpen DEF Improves, Spreads

LEMMA LightedImproves ==
    ASSUME NEW g, Proper(g, overlooked), NEW b \in Banks, NEW levels, Settable(g, b, levels),
           NEW h, h = Lighted(g, b, levels)
    PROVE  /\ Improves(g, h) /\ \A o \in Banks : OpenMarks(h, o) \subseteq OpenMarks(g, o)
           /\ \A c \in DOMAIN levels : h.level[b][c] >= levels[c]
           /\ \A ks : (\A c \in DOMAIN levels : Given(g, ks, b, c)) => Fed(g, h, ks)
<1>1. /\ Proper(h, overlooked) /\ Brightens(g, h) /\ Marking(g, h) /\ SameWorld(g, h)
      /\ \A ks : (\A c \in DOMAIN levels : Given(g, ks, b, c)) => Fed(g, h, ks)
      /\ \A o \in Banks \ {b} : h.level[o] = g.level[o]
      /\ \A apart : (b = "light" \/ overlooked \subseteq apart) /\ Spread(g, b, {}, apart) =>
                       Spread(h, b, {}, apart \ Brightest(levels))
      /\ \A c \in DOMAIN levels : h.level[b][c] >= levels[c]
  BY LightedSpreads DEF Brightens
<1>2. ASSUME AllSpread(g, overlooked), NEW o \in Banks PROVE Spread(h, o, {}, overlooked)
  <2>1. Spread(g, o, {}, overlooked)
    BY <1>2 DEF AllSpread
  <2>2. CASE o = b
    <3>1. Spread(h, b, {}, overlooked \ Brightest(levels)) /\ overlooked \ Brightest(levels) \subseteq overlooked
      BY <1>1, <2>1, <2>2
    <3> QED
      BY <2>2, <3>1, MoreApart
  <2>3. CASE o # b
    BY <1>1, <2>1, <2>3, OtherBank
  <2> QED
    BY <2>2, <2>3
<1>3. AllSpread(g, overlooked) => AllSpread(h, overlooked)
  BY <1>2 DEF AllSpread
<1> QED
  BY <1>1, <1>3, MarkingOpen DEF Improves

\* The brightest a cell can be made by the sky, and where a mask has done so.
Cap(g, c) == IF Of(g, c).clear THEN MaxLight ELSE MaxLight - 1
Skylit(g, ks) ==
    \A c \in mask : Home(c) \in ks /\ ~BlocksLight(g, c) => g.level["sunlight"][c] >= Cap(g, c)

MaskRows == \A c \in mask : c \in Cells /\ c \in Row(Home(c), "top")

\* The chunk is lit by its mask.
Roofless(k, lights) == IF Step(k, "top") \in lights THEN {} ELSE {k}

\* Sunlight comes from the chunk above or, by the mask, from the sky.
LEMMA SunlightImproves ==
    ASSUME NEW g, Proper(g, overlooked), NEW k \in g.open, NEW lights \in SUBSET g.open,
           NEW h, h = Chunk_DoSunlight(g, k, lights)
    PROVE  /\ Improves(g, h) /\ \A o \in Banks : OpenMarks(h, o) \subseteq OpenMarks(g, o)
           /\ \A c \in Cells : Home(c) = k /\ IsTopRow(c) /\ c \in mask /\ Of(g, c).clear =>
                                  h.level["sunlight"][c] = MaxLight
           /\ Fed(g, h, Roofless(k, lights)) /\ (MaskRows => Skylit(h, Roofless(k, lights)))
<1> DEFINE above == Step(k, "top")
           top == {c \in Row(k, "top") : c \in mask /\ ~BlocksLight(g, c)}
           nodes == {c \in Row(above, "bottom") : g.level["sunlight"][c] # 0}
           levels == [c \in top |-> IF Of(g, c).clear THEN MaxLight ELSE MaxLight - 1]
<1>1. g \in Grids /\ g.open \subseteq Chunks /\ k \in Chunks /\ "sunlight" \in Banks
  BY DEF Proper, Grids, Banks
<1>2. \A f : \A n \in Chunks : Row(n, f) \subseteq Cells /\ \A c \in Row(n, f) : Home(c) = n
  BY DEF Row, CellsOf
<1>3. CASE above \in lights
  <2>1. h = Chunk_SpreadLight(g, "sunlight", nodes)
    BY <1>3 DEF Chunk_DoSunlight
  <2>2. nodes \in SUBSET Cells
    BY <1>1, <1>2, <1>3
  <2> HIDE DEF nodes
  <2>3. /\ Improves(g, h) /\ \A o \in Banks : OpenMarks(h, o) \subseteq OpenMarks(g, o)
        /\ Fed(g, h, {})
    BY <1>1, <2>1, <2>2, SpreadImproves
  <2>4. \A c \in Cells : ~(Home(c) = k /\ IsTopRow(c))
    BY <1>1, <1>3, TopRow
  <2>5. Roofless(k, lights) = {} /\ Skylit(h, {})
    BY <1>3 DEF Roofless, Skylit
  <2> QED
    BY <2>3, <2>4, <2>5
<1>4. CASE above \notin lights
  <2>1. h = Lighted(g, "sunlight", levels)
    BY <1>4 DEF Chunk_DoSunlight
  <2>2. DOMAIN levels = top /\ \A c \in top : levels[c] = IF Of(g, c).clear THEN MaxLight ELSE MaxLight - 1
    OBVIOUS
  <2> HIDE DEF levels
  <2>3. ASSUME NEW c \in top
        PROVE  /\ c \in Cells /\ IsOpen(g, c) /\ levels[c] \in 0 .. MaxLight
               /\ \/ levels[c] >= g.level["sunlight"][c]
                  \/ c \in overlooked /\ ~Of(g, c).clear /\ levels[c] = MaxLight - 1
               /\ ~Of(g, c).clear => levels[c] <= MaxLight - 1
    <3>1. c \in Cells /\ IsOpen(g, c)
      BY <1>1, <1>2 DEF IsOpen
    <3>2. g.level["sunlight"][c] \in 0 .. MaxLight /\ MaxLight \in Int /\ MaxLight >= 1
      BY <1>1, <3>1, GridFacts
    <3>3. c \notin overlooked /\ ~Of(g, c).clear => g.level["sunlight"][c] <= MaxLight - 1
      BY <3>1 DEF Proper
    <3> QED
      BY <2>2, <3>1, <3>2, <3>3
  <2>4. Settable(g, "sunlight", levels)
    BY <2>2, <2>3 DEF Settable
  <2>5. /\ Improves(g, h) /\ \A o \in Banks : OpenMarks(h, o) \subseteq OpenMarks(g, o)
        /\ \A c \in DOMAIN levels : h.level["sunlight"][c] >= levels[c]
        /\ \A ks : (\A c \in DOMAIN levels : Given(g, ks, "sunlight", c)) => Fed(g, h, ks)
    BY <1>1, <2>1, <2>4, LightedImproves
  <2>6. ASSUME NEW c \in Cells, Home(c) = k, IsTopRow(c), c \in mask, Of(g, c).clear
        PROVE  h.level["sunlight"][c] = MaxLight
    <3>1. c \in Row(k, "top")
      BY <1>1, <2>6, TopRow DEF Row, CellsOf
    <3>2. ~BlocksLight(g, c)
      BY <1>1, <2>6, GridFacts DEF BlocksLight, Kinds
    <3>3. levels[c] = MaxLight /\ c \in DOMAIN levels
      BY <2>2, <2>6, <3>1, <3>2
    <3>4. h \in Grids
      BY <2>5 DEF Improves, Proper
    <3> QED
      BY <1>1, <2>5, <3>3, <3>4, GridFacts
  <2>7. Roofless(k, lights) = {k}
    BY <1>4 DEF Roofless
  <2>8. Fed(g, h, {k})
    <3>1. \A c \in DOMAIN levels : Given(g, {k}, "sunlight", c)
      BY <1>1, <1>2, <2>2 DEF Given
    <3> QED
      BY <2>5, <3>1
  <2>9. ASSUME MaskRows PROVE Skylit(h, {k})
    <3>1. SameWorld(g, h)
      BY <2>5 DEF Improves, Brightens
    <3>2. ASSUME NEW c \in mask, Home(c) = k, ~BlocksLight(h, c)
          PROVE  h.level["sunlight"][c] >= Cap(h, c)
      <4>1. c \in DOMAIN levels
        BY <2>2, <2>9, <3>1, <3>2, SameSaid DEF MaskRows
      <4>2. levels[c] = Cap(h, c)
        BY <2>2, <3>1, <4>1, SameSaid DEF Cap
      <4> QED
        BY <2>5, <4>1, <4>2
    <3> QED
      BY <3>2 DEF Skylit
  <2> QED
    BY <2>5, <2>6, <2>7, <2>8, <2>9
<1> QED
  BY <1>3, <1>4

LEMMA LightSourcesImprove ==
    ASSUME NEW g, Proper(g, overlooked), NEW k \in g.open, NEW h, h = Chunk_DoLightSources(g, k)
    PROVE  /\ Improves(g, h) /\ \A o \in Banks : OpenMarks(h, o) \subseteq OpenMarks(g, o)
           /\ \A c \in Cells : Home(c) = k /\ Of(g, c).emits => h.level["light"][c] = MaxLight
           /\ Fed(g, h, {})
<1> DEFINE lamps == {c \in CellsOf[k] : Of(g, c).emits}
           levels == [c \in lamps |-> MaxLight]
<1>1. g \in Grids /\ k \in Chunks /\ "light" \in Banks /\ MaxLight \in Nat
  BY SizesAssumption DEF Proper, Grids, Banks
<1>2. h = Lighted(g, "light", levels)
  BY DEF Chunk_DoLightSources
<1>3. DOMAIN levels = lamps /\ \A c \in lamps : levels[c] = MaxLight
  OBVIOUS
<1>4. lamps = {c \in Cells : Home(c) = k /\ Of(g, c).emits}
  BY <1>1 DEF CellsOf
<1> HIDE DEF levels, lamps
<1>5. Settable(g, "light", levels)
  <2>1. \A c \in Cells : g.level["light"][c] \in 0 .. MaxLight
    BY <1>1, GridFacts
  <2>2. \A c \in DOMAIN levels : /\ IsOpen(g, c) /\ levels[c] \in 0 .. MaxLight /\ levels[c] >= g.level["light"][c]
    BY <1>1, <1>3, <1>4, <2>1 DEF IsOpen
  <2>3. DOMAIN levels \subseteq Cells
    BY <1>3, <1>4
  <2> QED
    BY <2>2, <2>3 DEF Settable
<1>6. /\ Improves(g, h) /\ \A o \in Banks : OpenMarks(h, o) \subseteq OpenMarks(g, o)
      /\ \A c \in DOMAIN levels : h.level["light"][c] >= levels[c]
      /\ \A ks : (\A c \in DOMAIN levels : Given(g, ks, "light", c)) => Fed(g, h, ks)
  BY <1>1, <1>2, <1>5, LightedImproves
<1>7. ASSUME NEW c \in Cells, Home(c) = k, Of(g, c).emits PROVE h.level["light"][c] = MaxLight
  <2>1. h.level["light"][c] >= MaxLight
    BY <1>3, <1>4, <1>6, <1>7
  <2>2. h \in Grids
    BY <1>6 DEF Improves, Proper
  <2> QED
    BY <1>1, <2>1, <2>2, GridFacts
<1>8. Fed(g, h, {})
  <2>1. \A c \in DOMAIN levels : Given(g, {}, "light", c)
    BY <1>3, <1>4 DEF Given
  <2> QED
    BY <1>6, <2>1
<1> QED
  BY <1>6, <1>7, <1>8

\* The two bits of a face, one in each chunk.
Bits(k, face) == {<<k, face>>, <<Step(k, face), Opposite(face)>>}

\* g without those bits, and the cells with light along the face.
Unmarking(g, b, k, face) == [g EXCEPT !.incomplete[b] = @ \ Bits(k, face)]
Edge(g, b, k, face) == {c \in Row(k, face) \cup Row(Step(k, face), Opposite(face)) : g.level[b][c] # 0}

\* Without the bits of a face the cells along it are what has to go on.
LEMMA Unmarked ==
    ASSUME NEW g \in Grids, NEW b \in Banks, NEW k \in g.open, NEW face \in Faces,
           Step(k, face) \in g.open,
           NEW h, h = Unmarking(g, b, k, face), NEW nodes, nodes = Edge(g, b, k, face)
    PROVE  /\ h \in Grids /\ SameWorld(g, h) /\ h.level = g.level /\ h.changed = g.changed
           /\ h.incomplete[b] = g.incomplete[b] \ Bits(k, face)
           /\ \A o \in Banks \ {b} : h.incomplete[o] = g.incomplete[o]
           /\ nodes \in SUBSET Cells
           /\ Spread(g, b, {}, overlooked) => Spread(h, b, nodes, overlooked)
<1> DEFINE next == Step(k, face)
<1>1. k \in Chunks /\ next \in Chunks /\ Opposite(face) \in Faces /\ g.open \subseteq Chunks
  BY Positions, Stepping DEF Grids
<1>2. /\ h \in Grids /\ SameWorld(g, h) /\ h.level = g.level /\ h.changed = g.changed
      /\ h.incomplete[b] = g.incomplete[b] \ Bits(k, face)
      /\ \A o \in Banks \ {b} : h.incomplete[o] = g.incomplete[o]
  <2>1. h = [g EXCEPT !.incomplete = [g.incomplete EXCEPT ![b] = g.incomplete[b] \ Bits(k, face)]]
    BY DEF Unmarking
  <2>2. h.incomplete = [g.incomplete EXCEPT ![b] = g.incomplete[b] \ Bits(k, face)]
    BY <2>1 DEF Grids
  <2>3. h.incomplete \in [Banks -> SUBSET (Chunks \X Faces)]
    BY <2>2 DEF Grids
  <2>4. h \in Grids /\ SameWorld(g, h) /\ h.level = g.level /\ h.changed = g.changed
    BY <2>1, <2>3 DEF Grids, SameWorld
  <2> QED
    BY <2>2, <2>4 DEF Grids
<1>3. nodes \in SUBSET Cells
  BY <1>1 DEF Row, CellsOf, Edge
<1>4. ASSUME Spread(g, b, {}, overlooked) PROVE Spread(h, b, nodes, overlooked)
  <2>1. SUFFICES ASSUME NEW c \in Cells \ (nodes \cup overlooked), NEW f \in Faces,
                        IsOpen(g, c), Step(c, f) \in Cells \ overlooked, ~BlocksLight(g, c), Passes(g, c, f)
                 PROVE  /\ IsOpen(g, Step(c, f)) =>
                               \/ BlocksLight(g, Step(c, f))
                               \/ g.level[b][Step(c, f)] >= Offer(g, b, c, f)
                               \/ Marked(h, b, c, f)
                        /\ ~IsOpen(g, Step(c, f)) => g.level[b][c] = 0 \/ <<Home(c), f>> \in h.incomplete[b]
    <3>1. \A c \in Cells, f \in Faces : Offer(h, b, c, f) = Offer(g, b, c, f)
      BY <1>2, SameSaid DEF Offer
    <3>2. \A c, f : /\ BlocksLight(h, c) = BlocksLight(g, c) /\ IsOpen(h, c) = IsOpen(g, c)
                   /\ Passes(h, c, f) = Passes(g, c, f)
      BY <1>2, SameSaid
    <3>3. h.level = g.level
      BY <1>2
    <3> QED
      BY <2>1, <3>1, <3>2, <3>3 DEF Spread
  <2>2. /\ IsOpen(g, Step(c, f)) => \/ BlocksLight(g, Step(c, f))
                                    \/ g.level[b][Step(c, f)] >= Offer(g, b, c, f)
                                    \/ Marked(g, b, c, f)
        /\ ~IsOpen(g, Step(c, f)) => g.level[b][c] = 0 \/ <<Home(c), f>> \in g.incomplete[b]
    BY <1>4, <2>1 DEF Spread
  <2>3. Home(c) \in Chunks /\ Home(Step(c, f)) \in Chunks
    BY <2>1, Positions
  <2>4. Home(Step(c, f)) # Home(c) =>
           /\ Home(Step(c, f)) = Step(Home(c), f)
           /\ Home(c) = Step(Home(Step(c, f)), Opposite(f))
    BY <2>1, <2>3, Across, Stepping, Positions
  <2>5. ASSUME ~IsOpen(g, Step(c, f)) PROVE <<Home(c), f>> \notin Bits(k, face)
    <3>1. Home(Step(c, f)) # Home(c) /\ Home(Step(c, f)) \notin g.open
      BY <2>1, <2>5 DEF IsOpen
    <3>2. Home(Step(c, f)) \notin {next, k}
      BY <3>1
    <3>3. Step(next, Opposite(face)) = k
      BY <1>1, Stepping, Positions
    <3> QED
      BY <2>4, <3>1, <3>2, <3>3 DEF Bits
  <2>6. ASSUME Marked(g, b, c, f), ~Marked(h, b, c, f), IsOpen(g, Step(c, f))
        PROVE  g.level[b][Step(c, f)] >= Offer(g, b, c, f)
    <3>1. /\ Home(Step(c, f)) # Home(c)
          /\ <<Home(c), f>> \in Bits(k, face) \/ <<Home(Step(c, f)), Opposite(f)>> \in Bits(k, face)
      BY <1>2, <2>6 DEF Marked
    <3>2. c \in Row(k, face) \cup Row(next, Opposite(face))
      <4>1. CASE <<Home(c), f>> \in Bits(k, face)
        BY <1>1, <2>1, <3>1, <4>1 DEF Bits, Row, CellsOf
      <4>2. CASE <<Home(Step(c, f)), Opposite(f)>> \in Bits(k, face)
        <5>1. CASE Home(Step(c, f)) = k /\ Opposite(f) = face
          <6>1. Home(c) = next /\ f = Opposite(face)
            BY <1>1, <2>1, <2>4, <3>1, <5>1, Stepping, Positions
          <6> QED
            BY <1>1, <2>1, <3>1, <6>1 DEF Row, CellsOf
        <5>2. CASE Home(Step(c, f)) = next /\ Opposite(f) = Opposite(face)
          <6>1. f = face
            BY <1>1, <2>1, <5>2, Stepping, Positions
          <6>2. Home(c) = k
            BY <1>1, <2>4, <3>1, <5>2, <6>1, Stepping, Positions
          <6> QED
            BY <1>1, <2>1, <3>1, <6>1, <6>2 DEF Row, CellsOf
        <5> QED
          BY <4>2, <5>1, <5>2 DEF Bits
      <4> QED
        BY <3>1, <4>1, <4>2
    <3>3. g.level[b][c] = 0
      BY <2>1, <3>2 DEF Edge
    <3> QED
      BY <2>1, <3>3, GridFacts DEF Offer
  <2> QED
    BY <1>2, <2>2, <2>5, <2>6
<1> QED
  BY <1>2, <1>3, <1>4

\* The marks of a face are gone, and none between open chunks is new.
Cleared(g, h, b, bits) == OpenMarks(h, b) \subseteq OpenMarks(g, b) \ bits

Reconciles(g, h, k, face, b) ==
    /\ Improves(g, h) /\ Fed(g, h, {})
    /\ Cleared(g, h, b, Bits(k, face)) /\ \A o \in Banks : Cleared(g, h, o, {})

LEMMA ReconcileBankImproves ==
    ASSUME NEW g, Proper(g, overlooked), NEW b \in Banks, NEW k \in g.open, NEW face \in Faces,
           Step(k, face) \in g.open, NEW h, h = Chunk_ReconcileLightBank(g, k, face, b)
    PROVE  Reconciles(g, h, k, face, b)
<1>1. g \in Grids
  BY DEF Proper
<1>2. CASE Bits(k, face) \cap g.incomplete[b] = {}
  <2>1. h = g
    BY <1>2 DEF Chunk_ReconcileLightBank, Bits
  <2> QED
    BY <1>2, <2>1, ImprovesNot DEF Cleared, OpenMarks, Reconciles, Fed
<1>3. CASE Bits(k, face) \cap g.incomplete[b] # {}
  <2> DEFINE s == Unmarking(g, b, k, face)
             nodes == Edge(g, b, k, face)
  <2>1. h = Chunk_SpreadLight(s, b, nodes)
    BY <1>3 DEF Chunk_ReconcileLightBank, Bits, Unmarking, Edge
  <2>2. /\ s \in Grids /\ SameWorld(g, s) /\ s.level = g.level /\ s.changed = g.changed
        /\ s.incomplete[b] = g.incomplete[b] \ Bits(k, face)
        /\ \A o \in Banks \ {b} : s.incomplete[o] = g.incomplete[o]
        /\ nodes \in SUBSET Cells
        /\ Spread(g, b, {}, overlooked) => Spread(s, b, nodes, overlooked)
    BY <1>1, Unmarked
  <2> HIDE DEF s, nodes
  <2>3. Proper(s, overlooked)
    BY <2>2, SameSaid DEF Proper, SameWorld
  <2>4. Spreads(s, b, nodes, h)
    BY <2>1, <2>2, <2>3, SpreadLightSpreads
  <2>5. Proper(h, overlooked) /\ SameWorld(s, h) /\ Marking(s, h) /\ Brightens(s, h)
    BY <2>4 DEF Spreads, Brightens
  <2>6. Brightens(g, h)
    BY <2>2, <2>5 DEF Brightens, Noted, SameWorld
  <2>7. ASSUME NEW o \in Banks \ {b}, Spread(g, o, {}, overlooked) PROVE Spread(h, o, {}, overlooked)
    <3>2. Spread(s, o, {}, overlooked)
      <4>1. \A c, f : Marked(s, o, c, f) = Marked(g, o, c, f)
        BY <2>2 DEF Marked
      <4>2. \A c, f : Offer(s, o, c, f) = Offer(g, o, c, f)
        BY <2>2, SameSaid DEF Offer
      <4>3. \A c, f : /\ BlocksLight(s, c) = BlocksLight(g, c) /\ IsOpen(s, c) = IsOpen(g, c)
                      /\ Passes(s, c, f) = Passes(g, c, f)
        BY <2>2, SameSaid
      <4> QED
        BY <2>2, <2>7, <4>1, <4>2, <4>3 DEF Spread
    <3>3. h.level[o] = s.level[o]
      BY <2>4 DEF Spreads
    <3> QED
      BY <2>5, <3>2, <3>3, OtherBank
  <2>8. AllSpread(g, overlooked) => AllSpread(h, overlooked)
    <3> SUFFICES ASSUME AllSpread(g, overlooked), NEW o \in Banks PROVE Spread(h, o, {}, overlooked)
      BY DEF AllSpread
    <3>1. CASE o = b
      BY <2>2, <2>4, <3>1 DEF AllSpread, Spreads
    <3>2. CASE o # b
      BY <2>7, <3>2 DEF AllSpread
    <3> QED
      BY <3>1, <3>2
  <2>9. \A o \in Banks : OpenMarks(h, o) \subseteq OpenMarks(s, o)
    BY <2>5, MarkingOpen
  <2>10. OpenMarks(s, b) \subseteq OpenMarks(g, b) \ Bits(k, face) /\ \A o \in Banks : OpenMarks(s, o) \subseteq OpenMarks(g, o)
    BY <2>2 DEF OpenMarks, SameWorld
  <2>11. Cleared(g, h, b, Bits(k, face)) /\ \A o \in Banks : Cleared(g, h, o, {})
    BY <2>9, <2>10 DEF Cleared
  <2>12. Fed(g, h, {})
    <3>1. \A b2 \in Banks, c \in Cells : Given(s, {}, b2, c) => Given(g, {}, b2, c)
      BY <2>2, SameSaid DEF Given
    <3> QED
      BY <2>2, <2>4, <3>1 DEF Spreads, Fed
  <2> QED
    BY <2>5, <2>6, <2>8, <2>11, <2>12 DEF Improves, Reconciles
<1> QED
  BY <1>2, <1>3

LEMMA ReconcileFaceImproves ==
    ASSUME NEW g, Proper(g, overlooked), NEW k \in g.open, NEW face \in Faces,
           NEW h, h = Chunk_ReconcileFace(g, k, face)
    PROVE  /\ Improves(g, h) /\ Fed(g, h, {}) /\ h.open = g.open
           /\ \A b \in Banks : Cleared(g, h, b, Bits(k, face))
<1>1. CASE Step(k, face) \notin g.open
  <2>1. h = g
    BY <1>1 DEF Chunk_ReconcileFace
  <2>2. Step(Step(k, face), Opposite(face)) = k
    BY Stepping, Positions DEF Proper, Grids
  <2>3. \A b \in Banks : OpenMarks(g, b) \cap Bits(k, face) = {}
    BY <1>1 DEF OpenMarks, Bits
  <2> QED
    BY <2>1, <2>3, ImprovesNot DEF Cleared, Fed
<1>2. CASE Step(k, face) \in g.open
  <2>1. PICK s : /\ s = Chunk_ReconcileLightBank(g, k, face, "light")
                 /\ h = Chunk_ReconcileLightBank(s, k, face, "sunlight")
    BY <1>2 DEF Chunk_ReconcileFace
  <2>2. "light" \in Banks /\ "sunlight" \in Banks /\ \A b \in Banks : b = "light" \/ b = "sunlight"
    BY DEF Banks
  <2>3. Reconciles(g, s, k, face, "light")
    BY <1>2, <2>1, <2>2, ReconcileBankImproves
  <2>4. Proper(s, overlooked) /\ s.open = g.open /\ k \in s.open /\ Step(k, face) \in s.open
    BY <1>2, <2>3 DEF Reconciles, Improves, Brightens, SameWorld
  <2>5. Reconciles(s, h, k, face, "sunlight")
    BY <2>1, <2>2, <2>4, ReconcileBankImproves
  <2>6. Improves(g, h) /\ Fed(g, h, {}) /\ h.open = g.open
    <3>1. Improves(g, s) /\ Improves(s, h) /\ Fed(g, s, {}) /\ Fed(s, h, {})
      BY <2>3, <2>5 DEF Reconciles
    <3>2. Improves(g, h) /\ Fed(g, h, {})
      BY <3>1, ImprovesTwice, ImprovesFed
    <3> QED
      BY <3>2 DEF Improves, Brightens, SameWorld
  <2>7. Cleared(g, h, "light", Bits(k, face))
    BY <2>2, <2>3, <2>5 DEF Reconciles, Cleared
  <2>8. Cleared(g, h, "sunlight", Bits(k, face))
    BY <2>2, <2>3, <2>5 DEF Reconciles, Cleared
  <2> QED
    BY <2>2, <2>6, <2>7, <2>8
<1> QED
  BY <1>1, <1>2

\* No mark is left between the chunk and the open ones beside it.
LEMMA ReconcileImproves ==
    ASSUME NEW g, Proper(g, overlooked), NEW k \in g.open, NEW h, h = Chunk_ReconcileLighting(g, k)
    PROVE  /\ Improves(g, h) /\ Fed(g, h, {}) /\ h.open = g.open
           /\ \A b \in Banks : \A i \in OpenMarks(h, b) :
                 i \in OpenMarks(g, b) /\ i[1] # k /\ Step(i[1], i[2]) # k
<1> DEFINE l == Chunk_ReconcileFace(g, k, "left")
           r == Chunk_ReconcileFace(l, k, "right")
           t == Chunk_ReconcileFace(r, k, "top")
<1>1. h = Chunk_ReconcileFace(t, k, "bottom")
  BY DEF Chunk_ReconcileLighting
<1>2. {"left", "right", "top", "bottom"} = Faces
  BY DEF Faces
<1>3. Improves(g, l) /\ Fed(g, l, {}) /\ l.open = g.open /\ \A b \in Banks : Cleared(g, l, b, Bits(k, "left"))
  BY <1>2, ReconcileFaceImproves
<1> HIDE DEF l
<1>4. Improves(l, r) /\ Fed(l, r, {}) /\ r.open = g.open /\ \A b \in Banks : Cleared(l, r, b, Bits(k, "right"))
  BY <1>2, <1>3, ReconcileFaceImproves DEF Improves
<1> HIDE DEF r
<1>5. Improves(r, t) /\ Fed(r, t, {}) /\ t.open = g.open /\ \A b \in Banks : Cleared(r, t, b, Bits(k, "top"))
  BY <1>2, <1>4, ReconcileFaceImproves DEF Improves
<1> HIDE DEF t
<1>6. Improves(t, h) /\ Fed(t, h, {}) /\ h.open = g.open /\ \A b \in Banks : Cleared(t, h, b, Bits(k, "bottom"))
  BY <1>1, <1>2, <1>5, ReconcileFaceImproves DEF Improves
<1>7. Improves(g, h) /\ Fed(g, h, {})
  <2>1. Proper(l, overlooked) /\ Proper(r, overlooked) /\ Proper(t, overlooked)
    BY <1>3, <1>4, <1>5 DEF Improves
  <2>2. Improves(g, r) /\ Fed(g, r, {})
    BY <1>3, <1>4, ImprovesTwice, ImprovesFed
  <2>3. Improves(g, t) /\ Fed(g, t, {})
    BY <1>5, <2>2, ImprovesTwice, ImprovesFed
  <2> QED
    BY <1>6, <2>3, ImprovesTwice, ImprovesFed
<1>8. \A b \in Banks, f \in Faces : OpenMarks(h, b) \subseteq OpenMarks(g, b) \ Bits(k, f)
  BY <1>3, <1>4, <1>5, <1>6 DEF Cleared, Faces
<1>9. ASSUME NEW b \in Banks, NEW i \in OpenMarks(h, b)
      PROVE  i \in OpenMarks(g, b) /\ i[1] # k /\ Step(i[1], i[2]) # k
  <2>1. h \in Grids
    BY <1>6 DEF Improves, Proper
  <2>2. PICK n \in Chunks, f \in Faces : i = <<n, f>>
    BY <2>1, GridFacts DEF OpenMarks
  <2>3. Opposite(f) \in Faces /\ Opposite(Opposite(f)) = f /\ Step(Step(n, f), Opposite(f)) = n
    BY <2>2, Stepping, Positions
  <2>4. i \notin Bits(k, f) /\ i \notin Bits(k, Opposite(f)) /\ i \in OpenMarks(g, b)
    BY <1>2, <1>8, <2>3
  <2>5. n # k
    BY <2>2, <2>4 DEF Bits
  <2>6. Step(n, f) # k
    BY <2>2, <2>3, <2>4 DEF Bits
  <2> QED
    BY <2>2, <2>4, <2>5, <2>6
<1> QED
  BY <1>6, <1>7, <1>9

\* What shines: lamps, and the top row of the world.
Sources(g, ks) ==
    \A c \in Cells : Home(c) \in ks =>
        /\ Of(g, c).emits => g.level["light"][c] = MaxLight
        /\ IsTopRow(c) => g.level["sunlight"][c] = MaxLight

\* The top row is under the sky.
Sky(g) == \A c \in Cells : IsTopRow(c) => c \in mask /\ Of(g, c).clear

LEMMA SourcesStay ==
    ASSUME NEW g, NEW h, g \in Grids, h \in Grids, Brightens(g, h), Sky(g), NEW ks, Sources(g, ks)
    PROVE  Sources(h, ks)
<1> SUFFICES ASSUME NEW c \in Cells, Home(c) \in ks
             PROVE  /\ Of(h, c).emits => h.level["light"][c] = MaxLight
                    /\ IsTopRow(c) => h.level["sunlight"][c] = MaxLight
  BY DEF Sources
<1>1. /\ Of(g, c).emits => g.level["light"][c] = MaxLight
      /\ IsTopRow(c) => g.level["sunlight"][c] = MaxLight
  BY DEF Sources
<1>2. Of(h, c) = Of(g, c)
  BY SameSaid DEF Brightens
<1>3. \A b \in Banks : /\ h.level[b][c] \in 0 .. MaxLight
                       /\ b = "light" \/ IsTopRow(c) => h.level[b][c] >= g.level[b][c]
  BY <1>2, GridFacts DEF Brightens, Recovers, Sky
<1>4. "light" \in Banks /\ "sunlight" \in Banks /\ MaxLight \in Int
  BY SizesAssumption DEF Banks
<1> QED
  BY <1>1, <1>2, <1>3, <1>4

LEMMA SkylitStays ==
    ASSUME NEW g \in Grids, NEW h \in Grids, Brightens(g, h), MaskRows, NEW ks, Skylit(g, ks)
    PROVE  Skylit(h, ks)
<1> SUFFICES ASSUME NEW c \in mask, Home(c) \in ks, ~BlocksLight(h, c)
             PROVE  h.level["sunlight"][c] >= Cap(h, c)
  BY DEF Skylit
<1>1. c \in Cells /\ "sunlight" \in Banks
  BY DEF MaskRows, Banks
<1>2. BlocksLight(h, c) = BlocksLight(g, c) /\ Of(h, c) = Of(g, c)
  BY SameSaid DEF Brightens
<1>3. g.level["sunlight"][c] >= Cap(h, c)
  BY <1>2 DEF Skylit, Cap
<1>4. \/ h.level["sunlight"][c] >= g.level["sunlight"][c]
      \/ h.level["sunlight"][c] >= Cap(h, c)
  BY <1>1 DEF Brightens, Recovers, Cap
<1>5. /\ g.level["sunlight"][c] \in Int /\ h.level["sunlight"][c] \in Int
      /\ Cap(h, c) \in Int
  BY <1>1, SizesAssumption, GridFacts DEF Cap
<1> QED
  BY <1>3, <1>4, <1>5

\* One more chunk has its light, and no mark is left between it and the open
\* ones beside it.
LightsUp(acc, k, r) ==
    /\ r = [g |-> r.g, lit |-> r.lit]
    /\ Improves(acc.g, r.g) /\ r.lit = acc.lit \cup {k}
    /\ Sky(acc.g) /\ Sources(acc.g, acc.lit) => Sources(r.g, r.lit)
    /\ \A b \in Banks : \A i \in OpenMarks(r.g, b) :
          i \in OpenMarks(acc.g, b) /\ i[1] # k /\ Step(i[1], i[2]) # k
    /\ Fed(acc.g, r.g, Roofless(k, acc.lit))
    /\ MaskRows => Skylit(r.g, Roofless(k, acc.lit))

LEMMA LightUpImproves ==
    ASSUME NEW acc, Proper(acc.g, overlooked), NEW k \in acc.g.open, acc.lit \in SUBSET acc.g.open,
           NEW r, r = LightUp(acc, k)
    PROVE  LightsUp(acc, k, r)
<1>1. PICK sun, all : /\ sun = Chunk_DoSunlight(acc.g, k, acc.lit)
                      /\ all = Chunk_DoLightSources(sun, k)
                      /\ r = [g |-> Chunk_ReconcileLighting(all, k), lit |-> acc.lit \cup {k}]
  BY DEF LightUp
<1>2. /\ Improves(acc.g, sun) /\ \A o \in Banks : OpenMarks(sun, o) \subseteq OpenMarks(acc.g, o)
      /\ \A c \in Cells : Home(c) = k /\ IsTopRow(c) /\ c \in mask /\ Of(acc.g, c).clear =>
                             sun.level["sunlight"][c] = MaxLight
      /\ Fed(acc.g, sun, Roofless(k, acc.lit)) /\ (MaskRows => Skylit(sun, Roofless(k, acc.lit)))
  <2> PICK g : g = acc.g
    OBVIOUS
  <2>1. Proper(g, overlooked) /\ k \in g.open /\ acc.lit \in SUBSET g.open
           /\ sun = Chunk_DoSunlight(g, k, acc.lit)
    BY <1>1
  <2>2. /\ Improves(g, sun) /\ \A o \in Banks : OpenMarks(sun, o) \subseteq OpenMarks(g, o)
        /\ \A c \in Cells : Home(c) = k /\ IsTopRow(c) /\ c \in mask /\ Of(g, c).clear =>
                               sun.level["sunlight"][c] = MaxLight
        /\ Fed(g, sun, Roofless(k, acc.lit)) /\ (MaskRows => Skylit(sun, Roofless(k, acc.lit)))
    BY <2>1, SunlightImproves
  <2> QED
    BY <2>2
<1>3. Proper(sun, overlooked) /\ SameWorld(acc.g, sun) /\ k \in sun.open
  BY <1>2 DEF Improves, Brightens, SameWorld
<1>4. /\ Improves(sun, all) /\ \A o \in Banks : OpenMarks(all, o) \subseteq OpenMarks(sun, o)
      /\ \A c \in Cells : Home(c) = k /\ Of(sun, c).emits => all.level["light"][c] = MaxLight
      /\ Fed(sun, all, {})
  BY <1>1, <1>3, LightSourcesImprove
<1>5. Proper(all, overlooked) /\ SameWorld(sun, all) /\ k \in all.open
  BY <1>3, <1>4 DEF Improves, Brightens, SameWorld
<1>6. r.g = Chunk_ReconcileLighting(all, k) /\ r.lit = acc.lit \cup {k}
         /\ r = [g |-> r.g, lit |-> r.lit]
  BY <1>1
<1>7. /\ Improves(all, r.g)
      /\ \A b \in Banks : \A i \in OpenMarks(r.g, b) :
            i \in OpenMarks(all, b) /\ i[1] # k /\ Step(i[1], i[2]) # k
      /\ Fed(all, r.g, {})
  <2> PICK h : h = r.g
    OBVIOUS
  <2>1. /\ Improves(all, h)
        /\ \A b \in Banks : \A i \in OpenMarks(h, b) :
              i \in OpenMarks(all, b) /\ i[1] # k /\ Step(i[1], i[2]) # k
        /\ Fed(all, h, {})
    BY <1>5, <1>6, ReconcileImproves
  <2> QED
    BY <2>1
<1>8. Improves(acc.g, all) /\ Improves(sun, r.g)
  BY <1>2, <1>3, <1>4, <1>7, ImprovesTwice
<1>9. Improves(acc.g, r.g)
  BY <1>2, <1>8, ImprovesTwice
<1>10. acc.g \in Grids /\ sun \in Grids /\ all \in Grids /\ r.g \in Grids
  BY <1>2, <1>4, <1>7 DEF Improves, Proper
<1>11. ASSUME Sky(acc.g), Sources(acc.g, acc.lit) PROVE Sources(r.g, r.lit)
  <2>1. Sources(r.g, acc.lit)
    BY <1>9, <1>10, <1>11, SourcesStay DEF Improves
  <2>3. Sky(all)
    BY <1>3, <1>5, <1>11, SameSaid DEF Sky
  <2>2. Sources(r.g, {k})
    <3>1. \A c \in Cells : Of(sun, c) = Of(acc.g, c) /\ Of(all, c) = Of(acc.g, c)
      BY <1>3, <1>5, SameSaid
    <3>2. \A c \in Cells : sun.level["sunlight"][c] = MaxLight /\ Of(all, c).clear =>
                              all.level["sunlight"][c] = MaxLight
      <4>1. "sunlight" \in Banks /\ MaxLight \in Int
        BY SizesAssumption DEF Banks
      <4>2. \A c \in Cells : /\ Of(all, c).clear => all.level["sunlight"][c] >= sun.level["sunlight"][c]
                             /\ all.level["sunlight"][c] \in 0 .. MaxLight
        BY <1>4, <1>10, <4>1, GridFacts DEF Improves, Brightens, Recovers
      <4> QED
        BY <4>1, <4>2
    <3>3. Sources(all, {k})
      BY <1>2, <1>4, <1>11, <3>1, <3>2 DEF Sources, Sky
    <3> QED
      BY <1>7, <1>10, <2>3, <3>3, SourcesStay DEF Improves
  <2> QED
    BY <1>6, <2>1, <2>2 DEF Sources
<1>12. Fed(acc.g, r.g, Roofless(k, acc.lit))
  <2> DEFINE ks == Roofless(k, acc.lit)
  <2> HIDE DEF ks
  <2>1. Fed(acc.g, sun, ks) /\ Fed(sun, all, ks) /\ Fed(all, r.g, ks)
    BY <1>2, <1>4, <1>7, FedMore DEF ks
  <2>2. /\ Brightens(acc.g, sun) /\ Brightens(sun, all) /\ Brightens(all, r.g)
        /\ Brightens(sun, r.g)
    BY <1>2, <1>4, <1>7, <1>8 DEF Improves
  <2>3. Fed(sun, r.g, ks)
    BY <1>10, <2>1, <2>2, FedTwice
  <2>4. Fed(acc.g, r.g, ks)
    BY <1>10, <2>1, <2>2, <2>3, FedTwice
  <2> QED
    BY <2>4 DEF ks
<1>13. ASSUME MaskRows PROVE Skylit(r.g, Roofless(k, acc.lit))
  BY <1>2, <1>8, <1>10, <1>13, SkylitStays DEF Improves
<1> QED
  BY <1>2, <1>4, <1>6, <1>7, <1>9, <1>11, <1>12, <1>13 DEF LightsUp

----------------------------------------------------------------------------
(* Chunk_Generate.                                                         *)

\* What it starts from, and what it does in a row.
Opened(k) == [Now EXCEPT !.open = @ \cup ToLight(k)]
OneRow(k, y, s) ==
    IF <<k[1], Height - y>> \in ToLight(k) THEN LightUp(s, <<k[1], Height - y>>) ELSE s

Lightings(k) ==
    {s \in [g : Grids, lit : SUBSET Chunks] :
        Proper(s.g, overlooked) /\ s.g.open = Opened(k).open /\ s.lit \subseteq s.g.open}

IsGeneration(w, k) ==
    /\ w \in [0 .. Height -> Lightings(k)]
    /\ w[0] = [g |-> Opened(k), lit |-> lit]
    /\ \A y \in 1 .. Height : w[y] = OneRow(k, y, w[y - 1])
    /\ Chunk_Generate(k) = w[Height]

LEMMA GenerationIs ==
    ASSUME NEW k, Proper(Opened(k), overlooked), lit \subseteq ready
    PROVE  \E w : IsGeneration(w, k)
<1> DEFINE S == Lightings(k)
           a == [g |-> Opened(k), lit |-> lit]
           F(y, s) == OneRow(k, y, s)
           Body(w) == [y \in 0 .. Height |-> IF y = 0 THEN a ELSE F(y, w[y - 1])]
           done == CHOOSE w : w = Body(w)
<1>1. Height \in Nat
  BY SizesAssumption
<1>2. ToLight(k) \subseteq Opened(k).open /\ ready \subseteq Opened(k).open
  BY DEF Opened, Now
<1>3. ASSUME NEW y, NEW s \in S PROVE F(y, s) \in S
  <2>1. CASE <<k[1], Height - y>> \in ToLight(k)
    <3> PICK n, r : n = <<k[1], Height - y>> /\ r = LightUp(s, n)
      OBVIOUS
    <3>1. Proper(s.g, overlooked) /\ n \in s.g.open /\ s.lit \in SUBSET s.g.open /\ r = LightUp(s, n)
             /\ F(y, s) = r
      BY <1>2, <2>1 DEF Lightings, OneRow
    <3>2. r = [g |-> r.g, lit |-> r.lit] /\ Improves(s.g, r.g) /\ r.lit = s.lit \cup {n}
      <4>1. LightsUp(s, n, r)
        BY <3>1, LightUpImproves
      <4> QED
        BY <4>1 DEF LightsUp
    <3>3. Proper(r.g, overlooked) /\ r.g \in Grids /\ r.g.open = s.g.open /\ s.g.open = Opened(k).open
      BY <3>2 DEF Improves, Brightens, SameWorld, Proper, Lightings
    <3>4. r.lit \subseteq r.g.open /\ r.g.open \subseteq Chunks
      BY <3>1, <3>2, <3>3 DEF Grids
    <3>5. r \in [g : Grids, lit : SUBSET Chunks]
      BY <3>2, <3>3, <3>4
    <3> QED
      BY <3>1, <3>3, <3>4, <3>5 DEF Lightings
  <2>2. CASE <<k[1], Height - y>> \notin ToLight(k)
    BY <2>2 DEF OneRow
  <2> QED
    BY <2>1, <2>2
<1>4. a \in S
  <2>1. Opened(k) \in Grids /\ lit \subseteq Opened(k).open
    BY <1>2 DEF Proper
  <2>2. Opened(k).open \subseteq Chunks
    BY <2>1 DEF Grids
  <2> QED
    BY <2>1, <2>2 DEF Lightings
<1>5. Chunk_Generate(k) = done[Height]
  BY DEF Chunk_Generate, OneRow, Opened
<1> HIDE DEF S, a, F
<1>6. \E w : w \in [0 .. Height -> S] /\ w = Body(w)
  <2> DEFINE r == [y \in 1 .. Height |-> [s \in S |-> F(y, s)]]
  <2>1. r \in [1 .. Height -> [S -> S]]
    BY <1>3
  <2>2. \A y \in 1 .. Height, s \in S : r[y][s] = F(y, s)
    OBVIOUS
  <2> HIDE DEF r, Body, done
  <2>3. PICK w : Walks(w, Height, S, a, r)
    BY <1>1, <1>4, <2>1, Iterates
  <2>4. w \in [0 .. Height -> S] /\ w[0] = a /\ \A y \in 1 .. Height : w[y] = r[y][w[y - 1]]
    BY <2>3 DEF Walks
  <2>5. \A y \in 0 .. Height : y # 0 => y \in 1 .. Height /\ y - 1 \in 0 .. Height
    BY <1>1
  <2>6. \A y \in 0 .. Height : w[y] = IF y = 0 THEN a ELSE F(y, w[y - 1])
    BY <2>2, <2>4, <2>5
  <2> QED
    BY <2>4, <2>6 DEF Body
<1>7. \E w : w = Body(w)
  <2> HIDE DEF Body
  <2> QED
    BY <1>6
<1>8. done = Body(done)
  <2> HIDE DEF Body
  <2> QED
    BY <1>7
<1> HIDE DEF done
<1>9. DOMAIN done = 0 .. Height /\ \A y \in 0 .. Height : done[y] = IF y = 0 THEN a ELSE F(y, done[y - 1])
  BY <1>8
<1>10. done = [y \in 0 .. Height |-> done[y]]
  BY <1>8 DEF Body
<1> HIDE DEF Body
<1>11. \A y \in 0 .. Height : done[y] \in S
  <2> DEFINE Good == {y \in 0 .. Height : done[y] \in S}
  <2>1. 0 \in Good
    BY <1>1, <1>4, <1>9
  <2>2. ASSUME NEW y \in 1 .. Height, y - 1 \in Good PROVE y \in Good
    <3>1. y \in 0 .. Height /\ y # 0
      BY <1>1
    <3> QED
      BY <1>3, <1>9, <2>2, <3>1
  <2>3. 0 .. Height \subseteq Good
    <3> HIDE DEF Good
    <3> QED
      BY <1>1, <2>1, <2>2, Reaching
  <2> QED
    BY <2>3
<1>12. done \in [0 .. Height -> S]
  BY <1>10, <1>11
<1>13. \A y \in 1 .. Height : done[y] = OneRow(k, y, done[y - 1])
  <2>1. \A y \in 1 .. Height : y \in 0 .. Height /\ y # 0
    BY <1>1
  <2> QED
    BY <1>9, <2>1 DEF F
<1>14. done[0] = [g |-> Opened(k), lit |-> lit]
  BY <1>1, <1>9 DEF a
<1> QED
  BY <1>5, <1>12, <1>13, <1>14 DEF S, IsGeneration

\* The light is right: it has gone on everywhere, its sources shine, and no mark
\* is left between chunks that have their blocks.
Lightened(g, ks, apart) ==
    /\ Proper(g, apart) /\ AllSpread(g, apart) /\ Sources(g, ks) /\ Sky(g)
    /\ \A b \in Banks : OpenMarks(g, b) = {}

\* New chunks are dark, and what is next to them has a mark or no light.
LEMMA OpenedIs ==
    ASSUME NEW k, Lightened(Now, lit, overlooked)
    PROVE  /\ Proper(Opened(k), overlooked) /\ AllSpread(Opened(k), overlooked) /\ Sources(Opened(k), lit)
           /\ Sky(Opened(k))
           /\ Opened(k).open = ready \cup ToLight(k) /\ Opened(k).level = level
           /\ Opened(k).changed = {}
           /\ \A b \in Banks : \A i \in OpenMarks(Opened(k), b) :
                 i[1] \in ToLight(k) \/ Step(i[1], i[2]) \in ToLight(k)
<1> PICK g : g = Opened(k)
  OBVIOUS
<1>1. /\ g.open = ready \cup ToLight(k) /\ g.level = level /\ g.changed = {}
      /\ g.definition = definition
      /\ g.data = data /\ g.incomplete = incomplete /\ g = [Now EXCEPT !.open = ready \cup ToLight(k)]
  BY DEF Opened, Now
<1>2. /\ Now.open = ready /\ Now.level = level /\ Now.changed = {} /\ Now.definition = definition
      /\ Now.data = data /\ Now.incomplete = incomplete
  BY DEF Now
<1>3. ToLight(k) \subseteq Chunks
  BY DEF ToLight
<1>4. g \in Grids
  BY <1>1, <1>2, <1>3 DEF Lightened, Proper, Grids
<1>5. /\ \A c : Of(g, c) = Of(Now, c) /\ BlocksLight(g, c) = BlocksLight(Now, c)
      /\ \A c, f : Passes(g, c, f) = Passes(Now, c, f)
      /\ \A b, c, f : Offer(g, b, c, f) = Offer(Now, b, c, f)
      /\ \A c : IsOpen(Now, c) => IsOpen(g, c)
      /\ \A b, c, f : Marked(g, b, c, f) = Marked(Now, b, c, f)
  BY <1>1, <1>2 DEF Of, BlocksLight, Passes, Offer, Loss, IsOpen, Marked
<1>6. \A b \in Banks, c \in Cells : ~IsOpen(Now, c) => level[b][c] = 0
  BY <1>2 DEF Lightened, Proper
<1>7. Proper(g, overlooked)
  <2>1. \A c \in Cells \ overlooked : ~Of(g, c).clear => g.level["sunlight"][c] <= MaxLight - 1
    BY <1>1, <1>2, <1>5 DEF Lightened, Proper
  <2> QED
    BY <1>1, <1>4, <1>5, <1>6, <2>1 DEF Proper
<1>8. Sources(g, lit) /\ Sky(g)
  BY <1>1, <1>2, <1>5 DEF Lightened, Sources, Sky
<1>9. ASSUME NEW b \in Banks, NEW i \in OpenMarks(g, b)
      PROVE i[1] \in ToLight(k) \/ Step(i[1], i[2]) \in ToLight(k)
  BY <1>1, <1>2, <1>9 DEF Lightened, OpenMarks
<1>10. ASSUME NEW b \in Banks PROVE Spread(g, b, {}, overlooked)
  <2>1. Spread(Now, b, {}, overlooked)
    BY DEF Lightened, AllSpread
  <2>2. SUFFICES ASSUME NEW c \in Cells \ overlooked, NEW f \in Faces,
                        IsOpen(g, c), Step(c, f) \in Cells \ overlooked, ~BlocksLight(g, c), Passes(g, c, f)
                 PROVE  /\ IsOpen(g, Step(c, f)) =>
                               \/ BlocksLight(g, Step(c, f))
                               \/ g.level[b][Step(c, f)] >= Offer(g, b, c, f)
                               \/ Marked(g, b, c, f)
                        /\ ~IsOpen(g, Step(c, f)) => g.level[b][c] = 0 \/ <<Home(c), f>> \in g.incomplete[b]
    BY DEF Spread
  <2>3. CASE level[b][c] = 0
    <3>1. Offer(g, b, c, f) <= 0 /\ Offer(g, b, c, f) \in Int
             /\ g.level[b][Step(c, f)] \in 0 .. MaxLight
      <4>1. g.level[b][c] = 0 /\ g.level[b][Step(c, f)] \in 0 .. MaxLight
        BY <1>1, <1>4, <2>2, <2>3, GridFacts
      <4>2. Loss(g, b, Step(c, f), f) \in {0, 1}
        BY <1>4, GridFacts
      <4> QED
        BY <4>1, <4>2 DEF Offer
    <3>2. MaxLight \in Int
      BY SizesAssumption
    <3> QED
      BY <1>1, <2>3, <3>1, <3>2
  <2>4. CASE level[b][c] # 0
    <3>1. IsOpen(Now, c)
      BY <1>6, <2>2, <2>4
    <3>2. /\ IsOpen(Now, Step(c, f)) => \/ BlocksLight(Now, Step(c, f))
                                        \/ Now.level[b][Step(c, f)] >= Offer(Now, b, c, f)
                                        \/ Marked(Now, b, c, f)
          /\ ~IsOpen(Now, Step(c, f)) => <<Home(c), f>> \in Now.incomplete[b]
      BY <1>2, <1>5, <2>1, <2>2, <2>4, <3>1 DEF Spread
    <3>3. ASSUME ~IsOpen(Now, Step(c, f)), <<Home(c), f>> \in Now.incomplete[b]
          PROVE Marked(Now, b, c, f)
      BY <3>1, <3>3 DEF IsOpen, Marked
    <3> QED
      BY <1>1, <1>2, <1>5, <3>2, <3>3
  <2> QED
    BY <2>3, <2>4
<1> QED
  BY <1>1, <1>7, <1>8, <1>9, <1>10 DEF AllSpread

\* The chunks that are lit by their sky masks.
Unroofed(k) == {n \in ToLight(k) : Step(n, "top") \notin present}

\* All of the chain is lit, with light that has gone on.
LEMMA Generates ==
    ASSUME NEW k \in Chunks, Lightened(Now, lit, overlooked), lit \subseteq ready,
           ready \subseteq present, present \subseteq Chunks,
           NEW r, r = Chunk_Generate(k)
    PROVE  /\ Improves(Opened(k), r.g) /\ r.lit = lit \cup ToLight(k) /\ Lightened(r.g, r.lit, overlooked)
           /\ Fed(Opened(k), r.g, Unroofed(k)) /\ (MaskRows => Skylit(r.g, Unroofed(k)))
<1>1. /\ Proper(Opened(k), overlooked) /\ AllSpread(Opened(k), overlooked) /\ Sources(Opened(k), lit) /\ Sky(Opened(k))
      /\ \A b \in Banks : \A i \in OpenMarks(Opened(k), b) :
            i[1] \in ToLight(k) \/ Step(i[1], i[2]) \in ToLight(k)
  BY OpenedIs
<1> PICK w : IsGeneration(w, k)
  BY <1>1, GenerationIs
<1> DEFINE g == Opened(k)
           chain == ToLight(k)
           From(y) == {n \in chain : n[2] >= Height - y}
           Right(y) == /\ Improves(g, w[y].g) /\ w[y].lit = lit \cup From(y)
                       /\ Sources(w[y].g, w[y].lit)
                       /\ \A b \in Banks : \A i \in OpenMarks(w[y].g, b) :
                             i[1] \in chain \ From(y) \/ Step(i[1], i[2]) \in chain \ From(y)
                       /\ Fed(g, w[y].g, Unroofed(k))
                       /\ MaskRows => Skylit(w[y].g, From(y) \cap Unroofed(k))
           Good == {y \in 0 .. Height : Right(y)}
<1>2. /\ w \in [0 .. Height -> Lightings(k)] /\ w[0] = [g |-> g, lit |-> lit]
      /\ \A y \in 1 .. Height : w[y] = OneRow(k, y, w[y - 1])
      /\ r = w[Height]
  BY DEF IsGeneration
<1>3. Height \in Nat /\ \A n \in chain : n \in Chunks /\ n[2] \in 0 .. Height - 1 /\ n = <<k[1], n[2]>>
  BY SizesAssumption DEF ToLight, Chunks
<1>4. chain \subseteq g.open
  BY DEF Opened, Now
<1>5. Right(0)
  <2>1. From(0) = {}
    BY <1>3
  <2>2. w[0].g = g /\ w[0].lit = lit
    BY <1>2
  <2>3. Improves(g, g)
    BY <1>1, ImprovesNot
  <2>4. Fed(g, g, Unroofed(k)) /\ Skylit(g, {} \cap Unroofed(k))
    BY DEF Fed, Skylit
  <2> HIDE DEF g, chain, From
  <2> QED
    BY <1>1, <2>1, <2>2, <2>3, <2>4 DEF g, chain
<1> HIDE DEF g, From
<1>6. ASSUME NEW y \in 1 .. Height, Right(y - 1) PROVE Right(y)
  <2> PICK s, t, n : s = w[y - 1] /\ t = w[y] /\ n = <<k[1], Height - y>>
    OBVIOUS
  <2>1. y - 1 \in 0 .. Height /\ y \in 0 .. Height
    BY <1>3
  <2>2. /\ Proper(s.g, overlooked) /\ s.g.open = g.open /\ s.lit \subseteq s.g.open
        /\ t = OneRow(k, y, s)
    BY <1>2, <2>1 DEF Lightings, g
  <2>3. From(y) = From(y - 1) \cup ({n} \cap chain)
    <3>1. n[2] = Height - y /\ Height - y \in Int
      BY <1>3
    <3>2. \A m \in chain : m[2] = Height - y => m = n
      BY <1>3
    <3>3. \A m \in chain : m[2] \in Int /\ (m[2] >= Height - y <=> m[2] >= Height - (y - 1) \/ m[2] = Height - y)
      BY <1>3
    <3> QED
      BY <3>1, <3>2, <3>3 DEF From
  <2>4. CASE n \notin chain
    <3>1. t = s /\ From(y) = From(y - 1)
      BY <2>2, <2>3, <2>4 DEF OneRow
    <3> QED
      BY <1>6, <3>1
  <2>5. CASE n \in chain
    <3>1. t = LightUp(s, n)
      BY <2>2, <2>5 DEF OneRow
    <3>2. n \in s.g.open
      BY <1>4, <2>2, <2>5
    <3>3. LightsUp(s, n, t)
      BY <2>2, <3>1, <3>2, LightUpImproves
    <3>4. Improves(g, s.g) /\ s.lit = lit \cup From(y - 1) /\ Sources(s.g, s.lit)
      BY <1>6
    <3>5. Sky(s.g)
      <4>1. SameWorld(g, s.g)
        BY <3>4 DEF Improves, Brightens
      <4> QED
        BY <1>1, <4>1, SameSaid DEF Sky, g
    <3>6. Improves(s.g, t.g) /\ t.lit = s.lit \cup {n} /\ Sources(t.g, t.lit)
      BY <3>3, <3>4, <3>5 DEF LightsUp
    <3>7. Improves(g, t.g)
      BY <1>1, <3>4, <3>6, ImprovesTwice DEF g
    <3>8. t.lit = lit \cup From(y)
      BY <2>3, <2>5, <3>4, <3>6
    <3>9. ASSUME NEW b \in Banks, NEW i \in OpenMarks(t.g, b)
          PROVE  i[1] \in chain \ From(y) \/ Step(i[1], i[2]) \in chain \ From(y)
      <4>1. i \in OpenMarks(s.g, b) /\ i[1] # n /\ Step(i[1], i[2]) # n
        BY <3>3 DEF LightsUp
      <4>2. i[1] \in chain \ From(y - 1) \/ Step(i[1], i[2]) \in chain \ From(y - 1)
        BY <1>6, <4>1
      <4> QED
        BY <2>3, <4>1, <4>2
    <3>10. Roofless(n, s.lit) = {n} \cap Unroofed(k)
      <4>1. Step(n, "top") \in s.lit => Step(n, "top") \in present
        <5>1. ASSUME NEW m \in From(y - 1) PROVE m \in present
          <6>1. m \in ToLight(k) /\ m = <<k[1], m[2]>> /\ m[2] \in Int /\ m[2] >= k[2]
            BY <1>3, <5>1 DEF From, ToLight
          <6>2. m[2] \in k[2] .. m[2]
            BY <6>1 DEF Chunks
          <6> QED
            BY <6>1, <6>2 DEF ToLight
        <5> QED
          BY <3>4, <5>1
      <4>2. ASSUME Step(n, "top") \in present, Step(n, "top") \notin lit
            PROVE  Step(n, "top") \in From(y - 1)
        <5> PICK m : m = Step(n, "top")
          OBVIOUS
        <5>1. m \in Chunks /\ n[1] = k[1] /\ n[2] \in Int /\ m = <<k[1], n[2] + 1>> /\ n[2] = Height - y
          BY <1>3, <2>5, <4>2 DEF Step
        <5>2. \A z \in k[2] .. n[2] : <<k[1], z>> \in present \ lit
          BY <2>5 DEF ToLight
        <5>3. k[2] \in Int /\ n[2] >= k[2]
          BY <2>5 DEF ToLight, Chunks
        <5>4. m[1] = k[1] /\ m[2] = n[2] + 1
          BY <5>1
        <5>5. \A z \in k[2] .. n[2] + 1 : z \in k[2] .. n[2] \/ z = n[2] + 1
          BY <5>1, <5>3
        <5>6. m \in ToLight(k)
          BY <4>2, <5>1, <5>2, <5>3, <5>4, <5>5 DEF ToLight
        <5>7. m[2] >= Height - (y - 1)
          BY <1>3, <5>1, <5>4
        <5> QED
          BY <5>6, <5>7 DEF From, chain
      <4> QED
        BY <2>5, <3>4, <4>1, <4>2 DEF Roofless, Unroofed
    <3>11. Fed(g, t.g, Unroofed(k))
      <4>1. Fed(s.g, t.g, Unroofed(k))
        BY <3>3, <3>10, FedMore DEF LightsUp
      <4>2. Fed(g, s.g, Unroofed(k))
        BY <1>6
      <4>3. g \in Grids /\ s.g \in Grids /\ t.g \in Grids /\ Brightens(g, s.g) /\ Brightens(s.g, t.g)
        BY <1>1, <3>4, <3>6 DEF Improves, Proper, g
      <4> QED
        BY <4>1, <4>2, <4>3, FedTwice
    <3>12. ASSUME MaskRows PROVE Skylit(t.g, From(y) \cap Unroofed(k))
      <4>1. s.g \in Grids /\ t.g \in Grids /\ Brightens(s.g, t.g)
        BY <3>4, <3>6 DEF Improves, Proper
      <4>2. Skylit(t.g, From(y - 1) \cap Unroofed(k))
        BY <1>6, <3>12, <4>1, SkylitStays
      <4>3. Skylit(t.g, {n} \cap Unroofed(k))
        BY <3>3, <3>10, <3>12 DEF LightsUp
      <4> QED
        BY <2>3, <2>5, <4>2, <4>3 DEF Skylit
    <3> QED
      BY <3>6, <3>7, <3>8, <3>9, <3>11, <3>12
  <2> QED
    BY <2>4, <2>5
<1> HIDE DEF Right, chain
<1>7. Right(Height)
  <2>1. 0 \in Good /\ \A y \in 1 .. Height : y - 1 \in Good => y \in Good
    <3>1. \A y \in 1 .. Height : y - 1 \in 0 .. Height /\ y \in 0 .. Height
      BY <1>3
    <3> QED
      BY <1>3, <1>5, <1>6, <3>1
  <2>2. 0 .. Height \subseteq Good
    <3> HIDE DEF Good
    <3> QED
      BY <1>3, <2>1, Reaching
  <2> QED
    BY <1>3, <2>2
<1>8. From(Height) = chain
  BY <1>3 DEF From
<1>9. /\ Improves(g, r.g) /\ r.lit = lit \cup chain /\ Sources(r.g, r.lit)
      /\ \A b \in Banks : OpenMarks(r.g, b) = {}
  BY <1>2, <1>7, <1>8 DEF Right
<1>12. Fed(g, r.g, Unroofed(k)) /\ (MaskRows => Skylit(r.g, Unroofed(k)))
  <2>1. chain \cap Unroofed(k) = Unroofed(k)
    BY DEF Unroofed, chain
  <2> QED
    BY <1>2, <1>7, <1>8, <2>1 DEF Right
<1>10. Proper(r.g, overlooked) /\ AllSpread(r.g, overlooked) /\ SameWorld(g, r.g)
  BY <1>1, <1>9 DEF Improves, Brightens, g
<1>11. Sky(r.g)
  BY <1>1, <1>10, SameSaid DEF Sky, g
<1> QED
  BY <1>9, <1>10, <1>11, <1>12 DEF Lightened, g, chain

----------------------------------------------------------------------------
(* Going dark.                                                             *)

\* Cells that go dark with one of them.
Darkens(g, b, at, dark) ==
    /\ dark \subseteq Cells /\ at \in dark
    /\ \A d \in dark : IsOpen(g, d)
    /\ \A d \in dark \ {at} : \E c \in Cells : d \in Dimmed(g, b, c)

LEMMA OneMore ==
    ASSUME NEW S, IsFiniteSet(S), NEW m, m \notin S
    PROVE  Cardinality(S \cup {m}) = Cardinality(S) + 1
  BY FS_AddElement

\* What goes dark with these cells is among them.
Closed(g, b, dark) == \A c \in dark : Dimmed(g, b, c) \subseteq dark

\* The queue of Chunk_UpdateLight is empty in the end: each round but the last
\* darkens a cell.
LEMMA DarkenedIs ==
    ASSUME NEW g, NEW b, NEW at \in Cells, IsOpen(g, at)
    PROVE  Darkens(g, b, at, Darkened(g, b, at)) /\ Closed(g, b, Darkened(g, b, at))
<1> DEFINE N == Cardinality(Cells)
           S == {s \in [dark : SUBSET Cells, nodes : SUBSET Cells] :
                    Darkens(g, b, at, s.dark) /\ s.nodes \subseteq s.dark}
           a == [dark |-> {at}, nodes |-> {at}]
           More(s) == (UNION {Dimmed(g, b, c) : c \in s.nodes}) \ s.dark
           F(s) == [dark |-> s.dark \cup More(s), nodes |-> More(s)]
           Body(w) == [n \in 0 .. N |-> IF n = 0 THEN a ELSE F(w[n - 1])]
           walk == CHOOSE w : w = Body(w)
<1>1. N \in Nat /\ IsFiniteSet(Cells)
  <2>1. Width * Side - 1 \in Int /\ Height * Side - 1 \in Int
    BY SizesAssumption
  <2>2. IsFiniteSet(Cells)
    <3>1. \A m \in Int : IsFiniteSet(0 .. m)
      BY FS_Interval
    <3>2. IsFiniteSet(0 .. Width * Side - 1) /\ IsFiniteSet(0 .. Height * Side - 1)
      BY <2>1, <3>1
    <3>3. Cells = (0 .. Width * Side - 1) \X (0 .. Height * Side - 1)
      BY DEF Cells
    <3> QED
      BY <3>2, <3>3, FS_Product
  <2> QED
    BY <2>2, FS_CardinalityType
<1>2. ASSUME NEW s \in S PROVE F(s) \in S
  <2>1. /\ s.dark \subseteq Cells /\ s.nodes \subseteq s.dark /\ at \in s.dark
        /\ \A d \in s.dark : IsOpen(g, d)
        /\ \A d \in s.dark \ {at} : \E c \in Cells : d \in Dimmed(g, b, c)
    BY DEF Darkens
  <2>2. \A c \in Cells : \A d \in Dimmed(g, b, c) : d \in Cells /\ IsOpen(g, d)
    BY DEF Dimmed, Next4
  <2>3. \A d \in More(s) : d \in Cells /\ IsOpen(g, d) /\ \E c \in Cells : d \in Dimmed(g, b, c)
    BY <2>1, <2>2
  <2> HIDE DEF More
  <2>4. Darkens(g, b, at, s.dark \cup More(s))
    BY <2>1, <2>3 DEF Darkens
  <2>5. F(s) \in [dark : SUBSET Cells, nodes : SUBSET Cells]
    BY <2>1, <2>3
  <2> QED
    BY <2>4, <2>5
<1>3. a \in S
  BY DEF Darkens
<1>4. Darkened(g, b, at) = walk[N].dark
  BY DEF Darkened
<1> DEFINE Rest(s) == \A c \in s.dark \ s.nodes : Dimmed(g, b, c) \subseteq s.dark
           Many(s, n) == s.nodes # {} => Cardinality(s.dark) >= n + 1
<1>12. Rest(a) /\ Many(a, 0)
  <2>1. a.dark = {at} /\ a.nodes = {at} /\ {at} \ {at} = {} /\ Cardinality({at}) = 1
    BY FS_Singleton
  <2> HIDE DEF a
  <2> QED
    BY <2>1
<1>18. \A s : F(s).dark = s.dark \cup More(s) /\ F(s).nodes = More(s)
  OBVIOUS
<1>19. ASSUME NEW s PROVE /\ \A c \in s.nodes : Dimmed(g, b, c) \subseteq s.dark \cup More(s)
                          /\ More(s) \cap s.dark = {}
  <2>1. ASSUME NEW c \in s.nodes, NEW d \in Dimmed(g, b, c) PROVE d \in s.dark \cup More(s)
    <3>1. d \in UNION {Dimmed(g, b, m) : m \in s.nodes}
      BY <2>1
    <3> QED
      BY <3>1
  <2> QED
    BY <2>1
<1>20. ASSUME NEW s \in S PROVE s.dark \subseteq Cells /\ More(s) \subseteq Cells
  BY DEF Dimmed, Next4
<1> HIDE DEF F, More
<1>13. ASSUME NEW s \in S, Rest(s) PROVE Rest(F(s))
  <2> SUFFICES ASSUME NEW c \in F(s).dark \ F(s).nodes PROVE Dimmed(g, b, c) \subseteq F(s).dark
    OBVIOUS
  <2>1. c \in s.dark
    BY <1>18
  <2> QED
    BY <1>13, <1>18, <1>19, <2>1
<1>14. ASSUME NEW s \in S, NEW n \in Nat \ {0}, Many(s, n - 1) PROVE Many(F(s), n)
  <2> PICK dark, more : dark = s.dark /\ more = More(s)
    OBVIOUS
  <2>1. SUFFICES ASSUME NEW m \in more PROVE Cardinality(dark \cup more) >= n + 1
    BY <1>18
  <2>2. Cardinality(dark) >= n /\ m \notin dark
    <3>1. s.nodes # {}
      BY <2>1 DEF More
    <3> QED
      BY <1>14, <1>19, <2>1, <3>1
  <2>3. IsFiniteSet(dark) /\ IsFiniteSet(dark \cup more)
    <3>1. dark \in SUBSET Cells /\ dark \cup more \in SUBSET Cells
      BY <1>20
    <3> QED
      BY <1>1, <3>1, FS_Subset
  <2>4. Cardinality(dark \cup {m}) = Cardinality(dark) + 1
    BY <2>2, <2>3, OneMore
  <2>5. Cardinality(dark \cup {m}) <= Cardinality(dark \cup more)
    <3>1. dark \cup {m} \in SUBSET (dark \cup more)
      BY <2>1
    <3> QED
      BY <2>3, <3>1, FS_Subset
  <2>6. Cardinality(dark) \in Nat /\ Cardinality(dark \cup more) \in Nat
    BY <2>3, FS_CardinalityType
  <2> QED
    BY <2>2, <2>4, <2>5, <2>6
<1> HIDE DEF S, a, F, More, N, Rest, Many
<1>5. \E w : w \in [0 .. N -> S] /\ w = Body(w)
  <2> DEFINE r == [n \in 1 .. N |-> [s \in S |-> F(s)]]
  <2>1. r \in [1 .. N -> [S -> S]]
    BY <1>2
  <2>2. \A n \in 1 .. N, s \in S : r[n][s] = F(s)
    OBVIOUS
  <2> HIDE DEF r, Body, walk
  <2>3. PICK w : Walks(w, N, S, a, r)
    BY <1>1, <1>3, <2>1, Iterates
  <2>4. w \in [0 .. N -> S] /\ w[0] = a /\ \A n \in 1 .. N : w[n] = r[n][w[n - 1]]
    BY <2>3 DEF Walks
  <2>5. \A n \in 0 .. N : n # 0 => n \in 1 .. N /\ n - 1 \in 0 .. N
    BY <1>1
  <2>6. \A n \in 0 .. N : w[n] = IF n = 0 THEN a ELSE F(w[n - 1])
    BY <2>2, <2>4, <2>5
  <2> QED
    BY <2>4, <2>6 DEF Body
<1>6. \E w : w = Body(w)
  <2> HIDE DEF Body
  <2> QED
    BY <1>5
<1>7. walk = Body(walk)
  <2> HIDE DEF Body
  <2> QED
    BY <1>6
<1> HIDE DEF walk
<1>8. DOMAIN walk = 0 .. N /\ \A n \in 0 .. N : walk[n] = IF n = 0 THEN a ELSE F(walk[n - 1])
  BY <1>7
<1> HIDE DEF Body
<1> DEFINE Good == {n \in 0 .. N : walk[n] \in S /\ Rest(walk[n]) /\ Many(walk[n], n)}
<1>9. 0 \in Good
  BY <1>1, <1>3, <1>8, <1>12
<1>10. ASSUME NEW n \in 1 .. N, n - 1 \in Good PROVE n \in Good
  <2>1. n \in 0 .. N /\ n # 0 /\ n \in Nat \ {0}
    BY <1>1
  <2>2. walk[n] = F(walk[n - 1])
    BY <1>8, <2>1
  <2> QED
    BY <1>2, <1>10, <1>13, <1>14, <2>1, <2>2
<1>11. walk[N] \in S /\ Rest(walk[N]) /\ Many(walk[N], N)
  <2>1. 0 .. N \subseteq Good
    <3> HIDE DEF Good
    <3> QED
      BY <1>1, <1>9, <1>10, Reaching
  <2> QED
    BY <1>1, <2>1
<1>15. Darkens(g, b, at, walk[N].dark)
  BY <1>11 DEF S
<1>16. walk[N].nodes = {}
  <2>1. walk[N].dark \subseteq Cells
    BY <1>15 DEF Darkens
  <2>2. Cardinality(walk[N].dark) <= N /\ Cardinality(walk[N].dark) \in Nat
    BY <1>1, <2>1, FS_Subset, FS_CardinalityType DEF N
  <2> QED
    BY <1>1, <1>11, <2>2 DEF Many
<1>17. Closed(g, b, walk[N].dark)
  BY <1>11, <1>16 DEF Rest, Closed
<1> QED
  BY <1>4, <1>15, <1>17

\* Chunk_Remove: the cell itself is lit again by what is around it, the sources
\* keep their light, and light has gone on everywhere.
Removes(g, b, at, h) ==
    /\ Proper(h, overlooked \ {at}) /\ SameWorld(g, h) /\ Marking(g, h) /\ Noted(g, h)
    /\ \A o \in Banks \ {b} : h.level[o] = g.level[o]
    /\ Spread(g, b, {}, overlooked \cup {at}) => Spread(h, b, {}, overlooked \ {at})
    /\ \A c \in Cells \ {at} :
          g.level[b][c] = MaxLight /\ (b = "light" \/ (IsTopRow(c) /\ Of(g, c).clear)) =>
             h.level[b][c] = MaxLight

\* g after its cells have gone dark, and the lit cells around them.
Put(g, b, dark) ==
    [g EXCEPT !.level[b] = [c \in Cells |-> IF c \in dark THEN 0 ELSE @[c]],
              !.incomplete[b] = @ \cup CutOff(g, dark, TRUE),
              !.changed = @ \cup {Home(c) : c \in {d \in dark : g.level[b][d] # 0}}]

Rim(g, b, dark) ==
    {n \in UNION {Next4[c] : c \in dark} :
        n \notin dark /\ IsOpen(g, n) /\ g.level[b][n] # 0 /\ ~BlocksLight(g, n)}

\* A block that has just been written may be too bright for what it is now.
Apart(b, at) == IF b = "sunlight" THEN overlooked \cup {at} ELSE overlooked \ {at}

Puts(g, b, at, dark, h) ==
    /\ Proper(h, overlooked \ {at}) /\ SameWorld(g, h) /\ Marking(g, h) /\ Noted(g, h)
    /\ \A o \in Banks \ {b} : h.level[o] = g.level[o]
    /\ \A c \in dark : h.level[b][c] = 0
    /\ \A c \in Cells \ dark : h.level[b][c] = g.level[b][c]

LEMMA PutIs ==
    ASSUME NEW g, NEW b \in Banks, NEW at \in Cells, Proper(g, Apart(b, at)),
           NEW dark, Darkens(g, b, at, dark), NEW h, h = Put(g, b, dark)
    PROVE  Puts(g, b, at, dark, h)
<1> DEFINE L == [c \in Cells |-> IF c \in dark THEN 0 ELSE g.level[b][c]]
           marks == g.incomplete[b] \cup CutOff(g, dark, TRUE)
           homes == {Home(c) : c \in {d \in dark : g.level[b][d] # 0}}
<1>1. g \in Grids /\ dark \subseteq Cells /\ \A d \in dark : IsOpen(g, d)
  BY DEF Proper, Darkens
<1>2. h = [g EXCEPT !.level = [@ EXCEPT ![b] = L], !.incomplete = [@ EXCEPT ![b] = marks],
                    !.changed = @ \cup homes]
  BY DEF Put
<1>3. L \in [Cells -> 0 .. MaxLight]
  <2>1. 0 \in 0 .. MaxLight
    BY SizesAssumption
  <2> QED
    BY <1>1, <2>1, GridFacts
<1>4. \A c \in Cells : L[c] = IF c \in dark THEN 0 ELSE g.level[b][c]
  OBVIOUS
<1>5. g.open \subseteq Chunks /\ homes \subseteq g.open
  BY <1>1 DEF Grids, IsOpen
<1>6. /\ marks \subseteq Chunks \X Faces /\ g.incomplete[b] \subseteq marks
      /\ \A i \in marks \ g.incomplete[b] : i[1] \in g.open /\ Step(i[1], i[2]) \notin g.open
  BY <1>1, <1>5, GridFacts DEF CutOff
<1> HIDE DEF L, marks, homes
<1>7. /\ h.level = [g.level EXCEPT ![b] = L] /\ h.incomplete = [g.incomplete EXCEPT ![b] = marks]
      /\ h.changed = g.changed \cup homes /\ SameWorld(g, h)
  BY <1>1, <1>2 DEF Grids, SameWorld
<1>8. /\ h.level \in [Banks -> [Cells -> 0 .. MaxLight]] /\ h.level[b] = L
      /\ \A o \in Banks \ {b} : h.level[o] = g.level[o]
  BY <1>1, <1>3, <1>7 DEF Grids
<1>9. /\ h.incomplete \in [Banks -> SUBSET (Chunks \X Faces)] /\ h.incomplete[b] = marks
      /\ \A o \in Banks \ {b} : h.incomplete[o] = g.incomplete[o]
  BY <1>1, <1>6, <1>7 DEF Grids
<1>10. h \in Grids
  <2>1. h.changed \in SUBSET Chunks
    BY <1>1, <1>5, <1>7 DEF Grids
  <2> QED
    BY <1>1, <1>2, <1>8, <1>9, <2>1 DEF Grids
<1>11. Marking(g, h)
  BY <1>6, <1>9 DEF Marking
<1>12. \A o \in Banks, c \in Cells : h.level[o][c] = IF o = b /\ c \in dark THEN 0 ELSE g.level[o][c]
  BY <1>4, <1>8
<1>13. h.changed \subseteq h.open
  BY <1>5, <1>7 DEF Proper, SameWorld
<1>14. \A o \in Banks, c \in Cells : ~IsOpen(h, c) => h.level[o][c] = 0
  BY <1>7, <1>12, SameSaid DEF Proper
<1>15. ASSUME NEW c \in Cells \ (overlooked \ {at}), ~Of(h, c).clear PROVE h.level["sunlight"][c] <= MaxLight - 1
  <2>1. ~Of(g, c).clear /\ "sunlight" \in Banks
    BY <1>7, <1>15, SameSaid DEF Banks
  <2>2. CASE b = "sunlight" /\ c = at
    <3>1. c \in dark
      BY <2>2 DEF Darkens
    <3>2. h.level["sunlight"][c] = 0
      BY <1>12, <2>2, <3>1
    <3> QED
      BY <3>2, SizesAssumption
  <2>3. CASE ~(b = "sunlight" /\ c = at)
    <3>1. g.level["sunlight"][c] <= MaxLight - 1
      BY <2>1, <2>3 DEF Proper, Apart
    <3>2. h.level["sunlight"][c] \in {0, g.level["sunlight"][c]}
      BY <1>12, <2>1
    <3> QED
      BY <3>1, <3>2, SizesAssumption
  <2> QED
    BY <2>2, <2>3
<1>16. Proper(h, overlooked \ {at})
  BY <1>10, <1>13, <1>14, <1>15 DEF Proper
<1>17. Noted(g, h)
  <2> SUFFICES ASSUME NEW o \in Banks, NEW c \in Cells, h.level[o][c] # g.level[o][c]
               PROVE  Home(c) \in h.changed
    BY <1>7 DEF Noted
  <2>1. c \in dark /\ g.level[b][c] # 0
    BY <1>12
  <2>2. Home(c) \in homes
    BY <2>1 DEF homes
  <2> QED
    BY <1>7, <2>2
<1> QED
  BY <1>1, <1>7, <1>8, <1>11, <1>12, <1>16, <1>17 DEF Puts

LEMMA RemoveRemoves ==
    ASSUME NEW g, NEW b \in Banks, NEW at \in Cells, Proper(g, Apart(b, at)),
           IsOpen(g, at), NEW h, h = Chunk_Remove(g, b, at)
    PROVE  Removes(g, b, at, h)
<1> PICK dark, put, rim : /\ dark = Darkened(g, b, at)
                          /\ put = Put(g, b, dark) /\ rim = Rim(g, b, dark)
                          /\ h = Chunk_SpreadLight(put, b, rim)
  BY DEF Chunk_Remove, Put, Rim
<1>1. g \in Grids /\ MaxLight \in Int /\ MaxLight >= 1
  BY SizesAssumption DEF Proper
<1>2. Darkens(g, b, at, dark)
  BY DarkenedIs
<1>3. /\ Proper(put, overlooked) /\ Proper(put, overlooked \ {at})
      /\ SameWorld(g, put) /\ Marking(g, put) /\ Noted(g, put)
      /\ \A o \in Banks \ {b} : put.level[o] = g.level[o]
      /\ \A c \in dark : put.level[b][c] = 0
      /\ \A c \in Cells \ dark : put.level[b][c] = g.level[b][c]
  <2>1. Puts(g, b, at, dark, put)
    BY <1>2, PutIs
  <2>2. Proper(put, overlooked \ {at}) /\ overlooked \ {at} \subseteq overlooked
    BY <2>1 DEF Puts
  <2>3. Proper(put, overlooked)
    BY <2>2, MoreApart
  <2> QED
    BY <2>1, <2>3 DEF Puts
<1>4. rim \in SUBSET Cells
  BY <1>2 DEF Rim, Next4, Darkens
<1>5. Spreads(put, b, rim, h)
  BY <1>3, <1>4, SpreadLightSpreads
<1>6. /\ Proper(h, overlooked \ {at}) /\ SameWorld(put, h) /\ Marking(put, h) /\ Brightens(put, h)
      /\ Noted(put, h) /\ \A o \in Banks \ {b} : h.level[o] = put.level[o]
      /\ Spread(put, b, rim, overlooked \ {at}) => Spread(h, b, {}, overlooked \ {at})
  BY <1>3, <1>5 DEF Spreads, Brightens
<1>7. SameWorld(g, h) /\ Marking(g, h) /\ Noted(g, h) /\ \A o \in Banks \ {b} : h.level[o] = g.level[o]
  <2>1. SameWorld(g, h)
    BY <1>3, <1>6 DEF SameWorld
  <2>2. Marking(g, h)
    BY <1>3, <1>6, MarkingTwice
  <2>3. Noted(g, h)
    BY <1>3, <1>6, NotedTwice
  <2> QED
    BY <1>3, <1>6, <2>1, <2>2, <2>3
<1> DEFINE apart == overlooked \ {at}
<1>8. ASSUME Spread(g, b, {}, overlooked \cup {at}) PROVE Spread(put, b, rim, apart)
  <2>1. SUFFICES ASSUME NEW c \in Cells \ (rim \cup apart), NEW f \in Faces,
                        IsOpen(g, c), Step(c, f) \in Cells \ apart, ~BlocksLight(g, c), Passes(g, c, f)
                 PROVE  /\ IsOpen(g, Step(c, f)) =>
                               \/ BlocksLight(g, Step(c, f))
                               \/ put.level[b][Step(c, f)] >= Offer(put, b, c, f)
                               \/ Marked(put, b, c, f)
                        /\ ~IsOpen(g, Step(c, f)) => put.level[b][c] = 0 \/ <<Home(c), f>> \in put.incomplete[b]
    BY <1>3, SameSaid DEF Spread
  <2> PICK n : n = Step(c, f)
    OBVIOUS
  <2>2. put \in Grids /\ \A m \in Cells : put.level[b][m] \in 0 .. MaxLight
    <3>1. put \in Grids
      BY <1>3 DEF Proper
    <3> QED
      BY <3>1, GridFacts
  <2>3. CASE put.level[b][c] = 0
    <3>1. Loss(put, b, n, f) \in {0, 1}
      BY <2>2, GridFacts
    <3>2. put.level[b][n] \in 0 .. MaxLight
      BY <2>1, <2>2
    <3>3. Offer(put, b, c, f) = 0 - Loss(put, b, n, f)
      BY <2>3 DEF Offer
    <3> QED
      BY <1>1, <2>3, <3>1, <3>2, <3>3
  <2>4. CASE put.level[b][c] # 0
    <3>1. c \notin dark
      BY <1>3, <2>4
    <3>2. c # at /\ put.level[b][c] = g.level[b][c] /\ g.level[b][c] # 0
      BY <1>2, <1>3, <2>1, <2>4, <3>1 DEF Darkens
    <3>3. n \notin dark
      <4> SUFFICES ASSUME n \in dark PROVE FALSE
        OBVIOUS
      <4>1. c = Step(n, Opposite(f)) /\ Opposite(f) \in Faces /\ n \in Cells
        BY <2>1, Stepping, Positions
      <4>2. c \in Next4[n]
        BY <2>1, <4>1 DEF Next4
      <4>3. c \in rim
        BY <2>1, <3>1, <3>2, <4>2 DEF Rim
      <4> QED
        BY <2>1, <4>3
    <3>4. n # at /\ put.level[b][n] = g.level[b][n] /\ n \in Cells
      BY <1>2, <1>3, <2>1, <3>3 DEF Darkens
    <3>5. /\ IsOpen(g, n) => \/ BlocksLight(g, n)
                             \/ g.level[b][n] >= Offer(g, b, c, f)
                             \/ Marked(g, b, c, f)
          /\ ~IsOpen(g, n) => <<Home(c), f>> \in g.incomplete[b]
      <4>1. c \in Cells \ ({} \cup (overlooked \cup {at})) /\ Step(c, f) \in Cells \ (overlooked \cup {at})
        BY <2>1, <3>2, <3>4
      <4> QED
        BY <1>8, <2>1, <3>2, <4>1 DEF Spread
    <3>6. Offer(put, b, c, f) = Offer(g, b, c, f)
      BY <1>3, <3>2, SameSaid DEF Offer
    <3>7. g.incomplete[b] \subseteq put.incomplete[b]
      BY <1>3 DEF Marking
    <3> QED
      BY <3>4, <3>5, <3>6, <3>7 DEF Marked
  <2> QED
    BY <2>3, <2>4
<1>9. ASSUME NEW c \in Cells \ {at}, g.level[b][c] = MaxLight, b = "light" \/ (IsTopRow(c) /\ Of(g, c).clear)
      PROVE  h.level[b][c] = MaxLight
  <2>1. c \notin dark
    <3> SUFFICES ASSUME c \in dark PROVE FALSE
      OBVIOUS
    <3>1. PICK d \in Cells : c \in Dimmed(g, b, d)
      BY <1>2 DEF Darkens
    <3>2. g.level[b][d] \in 0 .. MaxLight
      BY <1>1, GridFacts
    <3>3. b = "sunlight" /\ c = Step(d, "bottom")
      BY <1>1, <1>9, <3>1, <3>2 DEF Dimmed
    <3>4. IsTopRow(c)
      BY <1>9, <3>3
    <3>5. d = Step(c, "top")
      <4>1. d \in Int \X Int
        BY Positions
      <4> QED
        BY <3>3, <4>1, Stepping DEF Faces, Opposite
    <3> QED
      BY <3>1, <3>4, <3>5, TopRow
  <2>2. put.level[b][c] = MaxLight
    BY <1>3, <1>9, <2>1
  <2>3. h.level[b][c] >= put.level[b][c] /\ h.level[b][c] \in 0 .. MaxLight
    <3>1. h \in Grids /\ Of(h, c) = Of(g, c)
      BY <1>6, <1>7, SameSaid DEF Proper
    <3> QED
      BY <1>6, <1>9, <3>1, GridFacts DEF Brightens, Recovers
  <2> QED
    BY <1>1, <2>2, <2>3
<1> QED
  BY <1>6, <1>7, <1>8, <1>9 DEF Removes

\* The light was right before one block was written.
Edited(g, ks, at) ==
    /\ Proper(g, overlooked \cup {at}) /\ IsOpen(g, at) /\ ~IsTopRow(at) /\ Sky(g)
    /\ \A b \in Banks : Spread(g, b, {}, overlooked \cup {at}) /\ OpenMarks(g, b) = {}
    /\ \A c \in Cells \ {at} : Home(c) \in ks =>
          /\ Of(g, c).emits => g.level["light"][c] = MaxLight
          /\ IsTopRow(c) => g.level["sunlight"][c] = MaxLight

\* It is right again after Chunk_SetBlock.
LEMMA SetBlockLightens ==
    ASSUME NEW g, NEW ks, NEW at \in Cells, Edited(g, ks, at), NEW h, h = Chunk_SetBlock(g, at)
    PROVE  Lightened(h, ks, overlooked \ {at}) /\ SameWorld(g, h) /\ Noted(g, h)
<1> DEFINE apart == overlooked \ {at}
<1> HIDE DEF apart
<1>1. PICK sun : sun = Chunk_Remove(g, "sunlight", at)
  OBVIOUS
<1>2. /\ "light" \in Banks /\ "sunlight" \in Banks /\ "light" # "sunlight"
      /\ \A b \in Banks : b = "light" \/ b = "sunlight"
  BY DEF Banks
<1>3. g \in Grids /\ MaxLight \in Int /\ MaxLight >= 1
  BY SizesAssumption DEF Edited, Proper
<1>4. Removes(g, "sunlight", at, sun)
  <2>1. Proper(g, Apart("sunlight", at)) /\ IsOpen(g, at)
    BY DEF Edited, Apart
  <2> QED
    BY <1>1, <1>2, <2>1, RemoveRemoves
<1>5. /\ Proper(sun, apart) /\ SameWorld(g, sun) /\ Marking(g, sun) /\ Noted(g, sun)
      /\ sun.level["light"] = g.level["light"]
      /\ Spread(sun, "sunlight", {}, apart)
      /\ \A c \in Cells \ {at} : g.level["sunlight"][c] = MaxLight /\ IsTopRow(c) =>
                                    sun.level["sunlight"][c] = MaxLight
  BY <1>2, <1>4 DEF Removes, Edited, Sky, apart
<1>16. Proper(sun, overlooked)
  <2>1. apart \subseteq overlooked
    BY DEF apart
  <2> QED
    BY <1>5, <2>1, MoreApart
<1>6. Spread(sun, "light", {}, overlooked \cup {at})
  <2>1. Spread(g, "light", {}, overlooked \cup {at})
    BY <1>2 DEF Edited
  <2> QED
    BY <1>2, <1>5, <2>1, OtherBank
<1>7. IsOpen(sun, at) /\ Of(sun, at) = Of(g, at)
  BY <1>5, SameSaid DEF Edited
<1> DEFINE Done == /\ Proper(h, apart) /\ SameWorld(sun, h) /\ Marking(sun, h) /\ Noted(sun, h)
                   /\ h.level["sunlight"] = sun.level["sunlight"] /\ Spread(h, "light", {}, apart)
                   /\ Of(g, at).emits => h.level["light"][at] = MaxLight
                   /\ \A c \in Cells \ {at} : g.level["light"][c] = MaxLight => h.level["light"][c] = MaxLight
<1>8. ASSUME Of(g, at).emits PROVE Done
  <2>1. PICK levels : levels = [c \in {at} |-> MaxLight] /\ h = Lighted(sun, "light", levels)
    BY <1>1, <1>8 DEF Chunk_SetBlock
  <2>2. DOMAIN levels = {at} /\ levels[at] = MaxLight
    BY <2>1
  <2>3. sun \in Grids
    BY <1>5 DEF Proper
  <2>4. Settable(sun, "light", levels)
    <3>1. sun.level["light"][at] \in 0 .. MaxLight
      BY <1>2, <2>3, GridFacts
    <3>2. MaxLight \in 0 .. MaxLight /\ MaxLight >= sun.level["light"][at]
      BY <1>3, <3>1
    <3> QED
      BY <1>2, <1>7, <2>2, <3>2 DEF Settable
  <2>5. /\ Brightens(sun, h) /\ Marking(sun, h)
        /\ \A a : Proper(sun, a) => Proper(h, a)
        /\ h.level["sunlight"] = sun.level["sunlight"]
        /\ \A a : Spread(sun, "light", {}, a) => Spread(h, "light", {}, a \ Brightest(levels))
        /\ \A c \in DOMAIN levels : h.level["light"][c] >= levels[c]
    BY <1>2, <1>16, <2>1, <2>4, LightedSpreads
  <2>6. Spread(h, "light", {}, apart)
    <3>1. (overlooked \cup {at}) \ Brightest(levels) = apart
      BY <2>2 DEF Brightest, apart
    <3> QED
      BY <1>6, <2>5, <3>1
  <2>7. Proper(h, apart) /\ h \in Grids
    BY <1>5, <2>5 DEF Proper
  <2>8. \A c \in Cells : h.level["light"][c] \in 0 .. MaxLight
    BY <1>2, <2>7, GridFacts
  <2>9. h.level["light"][at] = MaxLight
    BY <1>3, <2>2, <2>5, <2>8
  <2>10. \A c \in Cells : g.level["light"][c] = MaxLight => h.level["light"][c] = MaxLight
    <3>1. \A c \in Cells : h.level["light"][c] >= sun.level["light"][c]
      BY <1>2, <2>5 DEF Brightens, Recovers
    <3> QED
      BY <1>3, <1>5, <2>8, <3>1
  <2> QED
    BY <2>5, <2>6, <2>7, <2>9, <2>10 DEF Brightens
<1>9. ASSUME ~Of(g, at).emits PROVE Done
  <2>1. h = Chunk_Remove(sun, "light", at)
    BY <1>1, <1>9 DEF Chunk_SetBlock
  <2>2. Removes(sun, "light", at, h)
    <3>1. Proper(sun, Apart("light", at))
      BY <1>2, <1>5 DEF Apart, apart
    <3> QED
      BY <1>2, <1>7, <2>1, <3>1, RemoveRemoves
  <2>3. /\ Proper(h, apart) /\ SameWorld(sun, h) /\ Marking(sun, h) /\ Noted(sun, h)
        /\ h.level["sunlight"] = sun.level["sunlight"]
        /\ Spread(h, "light", {}, apart)
        /\ \A c \in Cells \ {at} : sun.level["light"][c] = MaxLight => h.level["light"][c] = MaxLight
    <3>1. /\ Proper(h, overlooked \ {at}) /\ SameWorld(sun, h) /\ Marking(sun, h) /\ Noted(sun, h)
          /\ \A o \in Banks \ {"light"} : h.level[o] = sun.level[o]
          /\ Spread(sun, "light", {}, overlooked \cup {at}) => Spread(h, "light", {}, overlooked \ {at})
      BY <2>2 DEF Removes
    <3>2. ASSUME NEW c \in Cells \ {at}, sun.level["light"][c] = MaxLight PROVE h.level["light"][c] = MaxLight
      BY <2>2, <3>2 DEF Removes
    <3>3. h.level["sunlight"] = sun.level["sunlight"]
      BY <1>2, <3>1
    <3> QED
      BY <1>6, <3>1, <3>2, <3>3 DEF apart
  <2> QED
    BY <1>5, <1>9, <2>3
<1>10. Done
  BY <1>8, <1>9
<1>11. SameWorld(g, h) /\ Marking(g, h)
  <2>1. SameWorld(g, h)
    BY <1>5, <1>10 DEF SameWorld
  <2> QED
    BY <1>5, <1>10, <2>1, MarkingTwice
<1>12. AllSpread(h, apart)
  <2>1. Spread(h, "sunlight", {}, apart)
    BY <1>2, <1>5, <1>10, OtherBank
  <2> QED
    BY <1>2, <1>10, <2>1 DEF AllSpread
<1>13. Sources(h, ks)
  <2> SUFFICES ASSUME NEW c \in Cells, Home(c) \in ks
               PROVE  /\ Of(h, c).emits => h.level["light"][c] = MaxLight
                      /\ IsTopRow(c) => h.level["sunlight"][c] = MaxLight
    BY DEF Sources
  <2>1. Of(h, c) = Of(g, c)
    BY <1>11, SameSaid
  <2>2. CASE c = at
    BY <1>10, <2>1, <2>2 DEF Edited
  <2>3. CASE c # at
    <3>1. /\ Of(g, c).emits => g.level["light"][c] = MaxLight
          /\ IsTopRow(c) => g.level["sunlight"][c] = MaxLight
      BY <2>3 DEF Edited
    <3> QED
      BY <1>5, <1>10, <2>1, <2>3, <3>1
  <2> QED
    BY <2>2, <2>3
<1>14. Sky(h)
  BY <1>11, SameSaid DEF Edited, Sky
<1>15. \A b \in Banks : OpenMarks(h, b) = {}
  <2>1. \A b \in Banks : OpenMarks(h, b) \subseteq OpenMarks(g, b)
    BY <1>11, MarkingOpen
  <2> QED
    BY <2>1 DEF Edited
<1> QED
  BY <1>5, <1>10, <1>11, <1>12, <1>13, <1>14, <1>15, NotedTwice DEF Lightened, apart

----------------------------------------------------------------------------
(* Nothing too bright after an edit.                                       *)

\* A cell has light of its own, or all its light from beside.
Shines(g, b, c) == (b = "light" /\ Of(g, c).emits) \/ (b = "sunlight" /\ IsTopRow(c))
Upheld(g, b) == \A c \in Cells : g.level[b][c] # 0 => Shines(g, b, c) \/ Feeds(g, b, c)

\* So it was before one block was written: the light that went through that
\* block may not go through it now.
UpheldBut(g, b, at) ==
    \A c \in Cells \ {at} : g.level[b][c] # 0 =>
        \/ Shines(g, b, c)
        \/ \E n \in Cells, f \in Faces :
              /\ Step(n, f) = c /\ IsOpen(g, n) /\ IsOpen(g, c) /\ ~BlocksLight(g, c)
              /\ n = at \/ Passes(g, n, f)
              /\ Offer(g, b, n, f) >= g.level[b][c]

LEMMA SameUpheld ==
    ASSUME NEW g, NEW h, SameWorld(g, h), NEW b, h.level[b] = g.level[b]
    PROVE  /\ Upheld(g, b) => Upheld(h, b)
           /\ \A at : UpheldBut(g, b, at) => UpheldBut(h, b, at)
<1>1. /\ \A c : Shines(h, b, c) = Shines(g, b, c)
      /\ \A c, f : Offer(h, b, c, f) = Offer(g, b, c, f)
  BY SameSaid DEF Shines, Offer
<1>2. /\ \A c : IsOpen(h, c) = IsOpen(g, c) /\ BlocksLight(h, c) = BlocksLight(g, c)
      /\ \A c, f : Enters(h, c, f) = Enters(g, c, f) /\ Passes(h, c, f) = Passes(g, c, f)
  BY SameSaid
<1>3. \A c : Feeds(h, b, c) = Feeds(g, b, c)
  BY <1>1, <1>2 DEF Feeds
<1>4. Upheld(g, b) => Upheld(h, b)
  BY <1>1, <1>3 DEF Upheld
<1>5. ASSUME NEW at, UpheldBut(g, b, at) PROVE UpheldBut(h, b, at)
  BY <1>1, <1>2, <1>5 DEF UpheldBut
<1> QED
  BY <1>4, <1>5

\* The light that is spread comes from somewhere.
LEMMA SpreadUpheld ==
    ASSUME NEW g \in Grids, NEW h \in Grids, Brightens(g, h), Fed(g, h, {}), overlooked = {},
           NEW b \in Banks, Upheld(g, b)
    PROVE  Upheld(h, b)
<1> SUFFICES ASSUME NEW c \in Cells, h.level[b][c] # 0 PROVE Shines(h, b, c) \/ Feeds(h, b, c)
  BY DEF Upheld
<1>1. SameWorld(g, h) /\ \A n \in Cells : h.level[b][n] >= g.level[b][n]
  BY DEF Brightens, Recovers
<1>2. CASE h.level[b][c] # g.level[b][c]
  BY <1>1, <1>2, SameSaid DEF Fed, Given, Shines
<1>3. CASE h.level[b][c] = g.level[b][c]
  <2>1. Shines(g, b, c) \/ Feeds(g, b, c)
    BY <1>3 DEF Upheld
  <2> QED
    BY <1>1, <1>3, <2>1, FeedsStill, SameSaid DEF Shines
<1> QED
  BY <1>2, <1>3

\* What goes dark takes all with it that it fed.
LEMMA DarkTakes ==
    ASSUME NEW g \in Grids, NEW b \in Banks, NEW dark, Closed(g, b, dark),
           NEW n \in dark, n \in Cells, NEW f \in Faces, NEW c \in Cells, c = Step(n, f),
           IsOpen(g, c), g.level[b][c] # 0, Offer(g, b, n, f) >= g.level[b][c]
    PROVE  c \in dark
<1>1. c \in Next4[n]
  BY DEF Next4
<1>2. /\ g.level[b][n] \in 0 .. MaxLight /\ g.level[b][c] \in 0 .. MaxLight /\ MaxLight \in Int
      /\ Loss(g, b, c, f) \in {0, 1}
  BY GridFacts
<1>3. g.level[b][n] - Loss(g, b, c, f) >= g.level[b][c]
  BY DEF Offer
<1>4. CASE Loss(g, b, c, f) = 1
  <2>1. g.level[b][c] < g.level[b][n]
    BY <1>2, <1>3, <1>4
  <2> QED
    BY <1>1, <2>1 DEF Closed, Dimmed
<1>5. CASE Loss(g, b, c, f) = 0
  <2>1. b = "sunlight" /\ f = "bottom"
    BY <1>5 DEF Loss
  <2>2. g.level[b][n] # 0
    BY <1>2, <1>3, <1>5
  <2> QED
    BY <1>1, <2>1, <2>2 DEF Closed, Dimmed
<1> QED
  BY <1>2, <1>4, <1>5

\* Chunk_Remove leaves no light behind that came through the block.
LEMMA RemoveUpholds ==
    ASSUME NEW g, NEW b \in Banks, NEW at \in Cells, Proper(g, Apart(b, at)), IsOpen(g, at),
           overlooked = {}, UpheldBut(g, b, at), NEW h, h = Chunk_Remove(g, b, at)
    PROVE  Upheld(h, b)
<1> PICK dark, put, rim : /\ dark = Darkened(g, b, at)
                          /\ put = Put(g, b, dark) /\ rim = Rim(g, b, dark)
                          /\ h = Chunk_SpreadLight(put, b, rim)
  BY DEF Chunk_Remove, Put, Rim
<1>1. g \in Grids
  BY DEF Proper
<1>2. Darkens(g, b, at, dark) /\ Closed(g, b, dark)
  BY DarkenedIs
<1>3. /\ Proper(put, overlooked) /\ SameWorld(g, put)
      /\ \A c \in dark : put.level[b][c] = 0
      /\ \A c \in Cells \ dark : put.level[b][c] = g.level[b][c]
  <2>1. Puts(g, b, at, dark, put)
    BY <1>2, PutIs
  <2>2. Proper(put, overlooked \ {at}) /\ overlooked \ {at} \subseteq overlooked
    BY <2>1 DEF Puts
  <2>3. Proper(put, overlooked)
    BY <2>2, MoreApart
  <2> QED
    BY <2>1, <2>3 DEF Puts
<1>4. rim \in SUBSET Cells
  BY <1>2 DEF Rim, Next4, Darkens
<1>5. Spreads(put, b, rim, h)
  BY <1>3, <1>4, SpreadLightSpreads
<1>6. put \in Grids /\ h \in Grids /\ Brightens(put, h) /\ Fed(put, h, {})
  BY <1>3, <1>5 DEF Spreads, Proper
<1>7. Upheld(put, b)
  <2> SUFFICES ASSUME NEW c \in Cells, put.level[b][c] # 0 PROVE Shines(put, b, c) \/ Feeds(put, b, c)
    BY DEF Upheld
  <2>1. c \notin dark /\ c # at /\ put.level[b][c] = g.level[b][c]
    BY <1>2, <1>3 DEF Darkens
  <2>2. Shines(put, b, c) = Shines(g, b, c)
    BY <1>3, SameSaid DEF Shines
  <2>3. ASSUME NEW n \in Cells, NEW f \in Faces,
               Step(n, f) = c, IsOpen(g, n), IsOpen(g, c), ~BlocksLight(g, c),
               n = at \/ Passes(g, n, f), Offer(g, b, n, f) >= g.level[b][c]
        PROVE  Feeds(put, b, c)
    <3>1. n \notin dark
      BY <1>1, <1>2, <2>1, <2>3, DarkTakes
    <3>2. n # at /\ put.level[b][n] = g.level[b][n]
      BY <1>2, <1>3, <3>1 DEF Darkens
    <3>3. IsOpen(put, n) /\ Enters(put, n, f)
      BY <1>3, <2>3, <3>2, SameSaid DEF Enters, Reaches
    <3>4. Offer(put, b, n, f) = Offer(g, b, n, f)
      BY <1>3, <3>2, SameSaid DEF Offer
    <3> QED
      BY <2>1, <2>3, <3>3, <3>4 DEF Feeds
  <2> QED
    BY <2>1, <2>2, <2>3 DEF UpheldBut
<1> QED
  BY <1>6, <1>7, SpreadUpheld

\* So does Chunk_SetBlock; a lamp gives more than went through the block before.
LEMMA SetBlockUpholds ==
    ASSUME NEW g, NEW at \in Cells, Proper(g, {at}), IsOpen(g, at), overlooked = {},
           \A b \in Banks : UpheldBut(g, b, at), NEW h, h = Chunk_SetBlock(g, at)
    PROVE  \A b \in Banks : Upheld(h, b)
<1>1. PICK sun : sun = Chunk_Remove(g, "sunlight", at)
  OBVIOUS
<1>2. /\ "light" \in Banks /\ "sunlight" \in Banks /\ "light" # "sunlight"
      /\ \A b \in Banks : b = "light" \/ b = "sunlight"
  BY DEF Banks
<1>3. g \in Grids /\ MaxLight \in Int /\ MaxLight >= 1
  BY SizesAssumption DEF Proper
<1>4. Proper(g, Apart("sunlight", at))
  <2>1. Apart("sunlight", at) = {at}
    BY DEF Apart
  <2> QED
    BY <2>1
<1>5. Upheld(sun, "sunlight")
  BY <1>1, <1>2, <1>4, RemoveUpholds
<1>6. Removes(g, "sunlight", at, sun)
  BY <1>1, <1>2, <1>4, RemoveRemoves
<1>7. /\ Proper(sun, overlooked) /\ overlooked \ {at} = overlooked
      /\ SameWorld(g, sun) /\ sun.level["light"] = g.level["light"] /\ sun \in Grids
  <2>1. overlooked \ {at} = overlooked
    OBVIOUS
  <2> QED
    BY <1>2, <1>6, <2>1 DEF Removes, Proper
<1>8. IsOpen(sun, at) /\ Of(sun, at) = Of(g, at)
  BY <1>7, SameSaid
<1>9. UpheldBut(sun, "light", at)
  BY <1>2, <1>7, SameUpheld
<1>10. CASE Of(g, at).emits
  <2>1. PICK levels : levels = [c \in {at} |-> MaxLight] /\ h = Lighted(sun, "light", levels)
    BY <1>1, <1>10 DEF Chunk_SetBlock
  <2>2. DOMAIN levels = {at} /\ levels[at] = MaxLight
    BY <2>1
  <2>3. Settable(sun, "light", levels)
    <3>1. sun.level["light"][at] \in 0 .. MaxLight
      BY <1>2, <1>7, GridFacts
    <3>2. MaxLight \in 0 .. MaxLight /\ MaxLight >= sun.level["light"][at]
      BY <1>3, <3>1
    <3> QED
      BY <1>2, <1>8, <2>2, <3>2 DEF Settable
  <2>4. /\ Proper(h, overlooked) /\ Brightens(sun, h)
        /\ h.level["sunlight"] = sun.level["sunlight"]
        /\ (\A c \in DOMAIN levels : Given(sun, {}, "light", c)) => Fed(sun, h, {})
    BY <1>2, <1>7, <2>1, <2>2, <2>3, LightedSpreads
  <2>5. Fed(sun, h, {})
    BY <1>8, <1>10, <2>2, <2>4 DEF Given
  <2>6. h \in Grids /\ SameWorld(sun, h) /\ \A n \in Cells : h.level["light"][n] >= sun.level["light"][n]
    BY <1>2, <2>4 DEF Proper, Brightens, Recovers
  <2>7. Upheld(h, "sunlight")
    BY <1>5, <2>4, <2>6, SameUpheld
  <2>8. ASSUME NEW c \in Cells, h.level["light"][c] # 0
        PROVE  Shines(h, "light", c) \/ Feeds(h, "light", c)
    <3>1. CASE h.level["light"][c] # sun.level["light"][c]
      <4>1. Given(sun, {}, "light", c) \/ Feeds(h, "light", c)
        BY <1>2, <2>5, <3>1 DEF Fed
      <4> QED
        BY <1>2, <2>6, <4>1, SameSaid DEF Given, Shines
    <3>2. CASE c = at
      BY <1>8, <1>10, <2>6, <3>2, SameSaid DEF Shines
    <3>3. CASE c # at /\ h.level["light"][c] = sun.level["light"][c]
      <4>1. CASE Shines(sun, "light", c)
        BY <2>6, <4>1, SameSaid DEF Shines
      <4>2. ASSUME NEW n \in Cells, NEW f \in Faces,
                   Step(n, f) = c, IsOpen(sun, n), IsOpen(sun, c), ~BlocksLight(sun, c),
                   n = at \/ Passes(sun, n, f), Offer(sun, "light", n, f) >= sun.level["light"][c]
            PROVE  Feeds(h, "light", c)
        <5>1. Passes(sun, n, f)
          BY <1>8, <1>10, <4>2 DEF Passes
        <5>2. Feeds(sun, "light", c)
          BY <4>2, <5>1 DEF Feeds, Enters, Reaches
        <5> QED
          BY <1>2, <1>7, <2>6, <3>3, <5>2, FeedsStill
      <4> QED
        BY <1>9, <2>8, <3>3, <4>1, <4>2 DEF UpheldBut
    <3> QED
      BY <3>1, <3>2, <3>3
  <2>9. Upheld(h, "light")
    BY <2>8 DEF Upheld
  <2> QED
    BY <1>2, <2>7, <2>9
<1>11. CASE ~Of(g, at).emits
  <2>1. h = Chunk_Remove(sun, "light", at)
    BY <1>1, <1>11 DEF Chunk_SetBlock
  <2>2. Proper(sun, Apart("light", at))
    BY <1>2, <1>7 DEF Apart
  <2>3. Upheld(h, "light")
    BY <1>2, <1>8, <1>9, <2>1, <2>2, RemoveUpholds
  <2>4. Removes(sun, "light", at, h)
    BY <1>2, <1>8, <2>1, <2>2, RemoveRemoves
  <2>5. SameWorld(sun, h) /\ h.level["sunlight"] = sun.level["sunlight"]
    BY <1>2, <2>4 DEF Removes
  <2>6. Upheld(h, "sunlight")
    BY <1>5, <2>5, SameUpheld
  <2> QED
    BY <1>2, <2>3, <2>6
<1> QED
  BY <1>10, <1>11

----------------------------------------------------------------------------
(* The states.                                                             *)

\* The sky stays above the top row whatever definitions are sent.
SkyStays == \A c \in Cells : IsTopRow(c) => c \in mask /\ \A d \in Definitions : d[data[c]].clear

\* Blocks are only there with light, at least once; what was overlooked then
\* was a change not seen.
Remembered == ready \subseteq held /\ (overlooked # {} => "unseen" \in missed)

LightIsRight == TypeOK /\ Lightened(Now, lit, overlooked) /\ SkyStays /\ Remembered

\* A mesh that has to be built again shows light of a chunk that is there.
LEMMA OutdatedIn ==
    ASSUME NEW meshes \in SUBSET Chunks, NEW p \in Outdated(meshes)
    PROVE  /\ p \in meshes \X Chunks /\ p[2] \in Beside[p[1]] \cup {p[1]}
           /\ \E b \in Banks, c \in Cells : Home(c) = p[2] /\ level'[b][c] # level[b][c]
<1>1. /\ p \in meshes \X Chunks /\ p[2] \in Beside[p[1]] \cup {p[1]}
      /\ \E b \in Banks, c \in Shown[p[1]][p[2]] : level'[b][c] # level[b][c]
  BY DEF Outdated
<1>2. Shown[p[1]][p[2]] \subseteq CellsOf[p[2]]
  <2>1. Shown[p[1]][p[2]] = IF p[2] = p[1] THEN CellsOf[p[1]]
                            ELSE {c \in CellsOf[p[2]] : \E f \in Faces : Home(Step(c, f)) = p[1]}
    BY <1>1 DEF Shown
  <2> QED
    BY <2>1
<1>3. \A c \in CellsOf[p[2]] : c \in Cells /\ Home(c) = p[2]
  BY <1>1 DEF CellsOf
<1> QED
  BY <1>1, <1>2, <1>3

LEMMA OutdatedThere ==
    ASSUME TypeOK, NEW meshes \in SUBSET Chunks, ready' \subseteq present,
           \A b \in Banks, c \in Cells : level'[b][c] \in 0 .. (IF Home(c) \in ready' THEN MaxLight ELSE 0)
    PROVE  Outdated(meshes) \subseteq meshes \X present
<1> SUFFICES ASSUME NEW p \in Outdated(meshes) PROVE p \in meshes \X present
  OBVIOUS
<1>1. p \in meshes \X Chunks
  BY OutdatedIn
<1>2. PICK b \in Banks, c \in Cells : Home(c) = p[2] /\ level'[b][c] # level[b][c]
  BY OutdatedIn
<1>3. level[b][c] \in 0 .. (IF Home(c) \in ready THEN MaxLight ELSE 0) /\ ready \subseteq present
  BY DEF TypeOK
<1>4. p[2] \in present
  <2> SUFFICES ASSUME Home(c) \notin ready, Home(c) \notin ready' PROVE FALSE
    BY <1>2, <1>3
  <2>1. level[b][c] = 0 /\ level'[b][c] = 0
    BY <1>3
  <2> QED
    BY <1>2, <2>1
<1> QED
  BY <1>1, <1>4

\* Without light nothing has to go on.
LEMMA DarkLightened ==
    ASSUME NEW g \in Grids, g.changed = {}, Sky(g), \A b \in Banks, c \in Cells : g.level[b][c] = 0,
           \A b \in Banks : OpenMarks(g, b) = {}, NEW apart
    PROVE  Lightened(g, {}, apart)
<1>1. MaxLight \in Int /\ MaxLight >= 1 /\ "sunlight" \in Banks
  BY SizesAssumption DEF Banks
<1>2. Proper(g, apart)
  BY <1>1 DEF Proper
<1>3. ASSUME NEW b \in Banks, NEW c \in Cells, NEW f \in Faces, Step(c, f) \in Cells
      PROVE  g.level[b][Step(c, f)] >= Offer(g, b, c, f)
  <2>1. Loss(g, b, Step(c, f), f) \in {0, 1}
    BY GridFacts
  <2> QED
    BY <1>3, <2>1 DEF Offer
<1>4. AllSpread(g, apart)
  BY <1>3 DEF AllSpread, Spread
<1> QED
  BY <1>2, <1>4 DEF Lightened, Sources

\* What has changed is forgotten.
LEMMA Forgets ==
    ASSUME NEW g, NEW ks, NEW apart, Lightened(g, ks, apart), NEW h, h = [g EXCEPT !.changed = {}]
    PROVE  Lightened(h, ks, apart)
<1>1. g \in Grids
  BY DEF Lightened, Proper
<1>2. SameWorld(g, h) /\ h.level = g.level /\ h.incomplete = g.incomplete /\ h.changed = {}
         /\ h \in Grids
  BY <1>1 DEF Grids, SameWorld
<1>3. /\ \A c : Of(h, c) = Of(g, c) /\ BlocksLight(h, c) = BlocksLight(g, c) /\ IsOpen(h, c) = IsOpen(g, c)
      /\ \A c, f : Passes(h, c, f) = Passes(g, c, f)
      /\ \A b, c, f : Offer(h, b, c, f) = Offer(g, b, c, f) /\ Marked(h, b, c, f) = Marked(g, b, c, f)
  BY <1>2, SameSaid DEF Offer, Marked
<1>4. Proper(h, apart)
  BY <1>2, <1>3 DEF Lightened, Proper
<1>5. AllSpread(h, apart)
  <2> SUFFICES ASSUME NEW b \in Banks PROVE Spread(h, b, {}, apart)
    BY DEF AllSpread
  <2>1. Spread(g, b, {}, apart)
    BY DEF Lightened, AllSpread
  <2> QED
    BY <1>2, <1>3, <2>1 DEF Spread
<1>6. Sources(h, ks) /\ Sky(h)
  BY <1>2, <1>3 DEF Lightened, Sources, Sky
<1>7. \A b \in Banks : OpenMarks(h, b) = OpenMarks(g, b)
  BY <1>2 DEF OpenMarks, SameWorld
<1> QED
  BY <1>4, <1>5, <1>6, <1>7 DEF Lightened

LEMMA InitIsRight == Init => LightIsRight
<1> SUFFICES ASSUME Init PROVE LightIsRight
  OBVIOUS
<1>1. /\ definition = Default /\ data \in Worlds /\ ready = {} /\ lit = {}
      /\ incomplete = [b \in Banks |-> {}]
      /\ level = [b \in Banks |-> [c \in Cells |-> 0]]
      /\ mask = {c \in Cells : /\ c \in Row(Home(c), "top")
                               /\ \A y \in 0 .. Height * Side - 1 :
                                     y > c[2] => ~definition[data[<<c[1], y>>]].blocks}
  BY DEF Init
<1>2. 0 \in 0 .. MaxLight /\ Height * Side - 1 \in Int
  BY SizesAssumption
<1>3. data \in [Cells -> Blocks] /\ definition \in Definitions /\ definition \in [Blocks -> Kinds]
  BY <1>1, BlocksAssumption
<1>4. \A b \in Banks, c \in Cells : level[b][c] = 0
  BY <1>1
<1>5. TypeOK
  BY <1>1, <1>2, <1>3, <1>4 DEF Init, TypeOK
<1>6. SkyStays
  <2> SUFFICES ASSUME NEW c \in Cells, IsTopRow(c)
      PROVE c \in mask /\ \A d \in Definitions : d[data[c]].clear
    BY DEF SkyStays
  <2>1. \A d \in Definitions : d[data[c]].clear
    BY <1>1, SkyAssumption
  <2>2. c \in Row(Home(c), "top")
    BY Positions, TopRow DEF Row, CellsOf
  <2>3. \A y \in 0 .. Height * Side - 1 : ~(y > c[2])
    BY <1>2 DEF IsTopRow
  <2> QED
    BY <1>1, <2>1, <2>2, <2>3
<1>7. Lightened(Now, {}, overlooked)
  <2> PICK g : g = Now
    OBVIOUS
  <2>1. /\ g = [definition |-> definition, data |-> data, open |-> ready, level |-> level,
                incomplete |-> incomplete, changed |-> {}]
    BY DEF Now
  <2>2. level \in [Banks -> [Cells -> 0 .. MaxLight]]
           /\ incomplete \in [Banks -> SUBSET (Chunks \X Faces)]
    BY <1>1, <1>2
  <2>3. g \in Grids /\ g.changed = {} /\ g.level = level /\ g.open = {}
    BY <1>1, <1>3, <2>1, <2>2 DEF Grids
  <2>4. Sky(g)
    BY <1>3, <1>6, <2>1 DEF SkyStays, Sky, Of
  <2>5. \A b \in Banks : OpenMarks(g, b) = {}
    BY <2>3 DEF OpenMarks
  <2>6. Lightened(g, {}, overlooked)
    BY <1>4, <2>3, <2>4, <2>5, DarkLightened
  <2> QED
    BY <2>6
<1>8. Remembered
  BY DEF Init, Remembered
<1> QED
  BY <1>1, <1>5, <1>6, <1>7, <1>8 DEF LightIsRight

\* World_AddChunk changes nothing of it.
LEMMA AddIsRight ==
    ASSUME LightIsRight, NEW k \in Chunks, World_AddChunk(k)
    PROVE  LightIsRight'
<1>1. UNCHANGED <<definition, data, mask, ready, lit, level, incomplete, held, missed, overlooked>>
  BY DEF World_AddChunk, lightVars, history
<1>2. Now' = Now
  BY <1>1 DEF Now
<1>3. TypeOK'
  BY DEF LightIsRight, TypeOK, World_AddChunk, lightVars, history, counters
<1>4. Lightened(Now, lit, overlooked)'
  BY <1>1, <1>2 DEF LightIsRight, Lightened, Sky
<1> QED
  BY <1>1, <1>3, <1>4 DEF LightIsRight, SkyStays, Remembered

\* World_RemoveChunk: what is next to the chunk gets marks, and the chunk is dark.
LEMMA RemoveIsRight ==
    ASSUME LightIsRight, NEW k \in Chunks, World_RemoveChunk(k)
    PROVE  LightIsRight'
<1> PICK g, h : g = Now /\ h = Now'
  OBVIOUS
<1>1. /\ g = [definition |-> definition, data |-> data, open |-> ready, level |-> level,
              incomplete |-> incomplete, changed |-> {}]
      /\ h = [definition |-> definition', data |-> data', open |-> ready', level |-> level',
              incomplete |-> incomplete', changed |-> {}]
  BY DEF Now
<1>2. /\ definition' = definition /\ data' = data /\ mask' = mask
      /\ ready' = ready \ {k} /\ lit' = lit \ {k}
      /\ level' = [b \in Banks |-> [c \in Cells |-> IF Home(c) = k THEN 0 ELSE level[b][c]]]
      /\ incomplete' = [b \in Banks |-> {i \in incomplete[b] : i[1] # k} \cup
                                        {i \in present \X Faces : Step(i[1], i[2]) = k}]
      /\ overlooked' = overlooked \ CellsOf[k]
  BY DEF World_RemoveChunk
<1> PICK apart : apart = overlooked \ CellsOf[k]
  OBVIOUS
<1>16. \A c \in Cells \ apart : Home(c) # k => c \notin overlooked
  BY DEF CellsOf
<1>3. Lightened(g, lit, overlooked) /\ Proper(g, overlooked) /\ g \in Grids /\ ready \subseteq present
         /\ present \subseteq Chunks
  BY DEF LightIsRight, TypeOK, Lightened, Proper
<1>4. MaxLight \in Int /\ 0 \in 0 .. MaxLight
  BY SizesAssumption
<1>5. /\ \A b \in Banks, c \in Cells : level'[b][c] = IF Home(c) = k THEN 0 ELSE level[b][c]
      /\ \A b \in Banks : incomplete'[b] = {i \in incomplete[b] : i[1] # k} \cup
                                           {i \in present \X Faces : Step(i[1], i[2]) = k}
  BY <1>2
<1>6. /\ \A b \in Banks, c \in Cells : Home(c) # k => h.level[b][c] = g.level[b][c]
      /\ \A b \in Banks, c \in Cells : Home(c) = k => h.level[b][c] = 0
      /\ \A b \in Banks : h.incomplete[b] = {i \in g.incomplete[b] : i[1] # k} \cup
                                             {i \in present \X Faces : Step(i[1], i[2]) = k}
      /\ h.open = g.open \ {k} /\ h.changed = {}
  <2>1. /\ h.level = level' /\ h.incomplete = incomplete' /\ h.open = ready' /\ h.changed = {}
        /\ g.level = level /\ g.incomplete = incomplete /\ g.open = ready
    BY <1>1
  <2> QED
    BY <1>2, <1>5, <2>1
<1>7. h \in Grids
  <2>1. level' \in [Banks -> [Cells -> 0 .. MaxLight]]
    <3>1. \A b \in Banks, c \in Cells : level[b][c] \in 0 .. MaxLight
      BY <1>1, <1>3, GridFacts
    <3> QED
      BY <1>2, <1>4, <3>1
  <2>2. incomplete' \in [Banks -> SUBSET (Chunks \X Faces)]
    <3>1. \A b \in Banks : incomplete[b] \subseteq Chunks \X Faces
      BY <1>1, <1>3, GridFacts
    <3> QED
      BY <1>2, <1>3, <3>1
  <2>3. definition \in [Blocks -> Kinds] /\ data \in [Cells -> Blocks] /\ ready \subseteq Chunks
    BY <1>1, <1>3 DEF Grids
  <2> QED
    BY <1>1, <1>2, <2>1, <2>2, <2>3 DEF Grids
<1>8. /\ \A c : Of(h, c) = Of(g, c) /\ BlocksLight(h, c) = BlocksLight(g, c)
      /\ \A c, f : Passes(h, c, f) = Passes(g, c, f)
      /\ \A b, c, f : Loss(h, b, c, f) = Loss(g, b, c, f)
      /\ \A c : IsOpen(h, c) <=> (IsOpen(g, c) /\ Home(c) # k)
  BY <1>1, <1>2 DEF Of, BlocksLight, Passes, Loss, IsOpen
<1>9. Proper(h, apart)
  <2>1. \A b \in Banks, c \in Cells : ~IsOpen(h, c) => h.level[b][c] = 0
    BY <1>3, <1>6, <1>8 DEF Proper
  <2>2. \A c \in Cells \ apart : ~Of(h, c).clear => h.level["sunlight"][c] <= MaxLight - 1
    <3>1. "sunlight" \in Banks /\ MaxLight >= 1
      BY SizesAssumption DEF Banks
    <3> QED
      BY <1>3, <1>4, <1>6, <1>8, <1>16, <3>1 DEF Proper
  <2> QED
    BY <1>7, <1>6, <2>1, <2>2 DEF Proper
<1>10. ASSUME NEW b \in Banks PROVE Spread(h, b, {}, apart)
  <2>1. Spread(g, b, {}, overlooked)
    BY <1>3 DEF Lightened, AllSpread
  <2>2. SUFFICES ASSUME NEW c \in Cells \ apart, NEW f \in Faces,
                        IsOpen(h, c), Step(c, f) \in Cells \ apart, ~BlocksLight(g, c), Passes(g, c, f)
                 PROVE  /\ IsOpen(h, Step(c, f)) =>
                               \/ BlocksLight(g, Step(c, f))
                               \/ h.level[b][Step(c, f)] >= Offer(h, b, c, f)
                               \/ Marked(h, b, c, f)
                        /\ ~IsOpen(h, Step(c, f)) => h.level[b][c] = 0 \/ <<Home(c), f>> \in h.incomplete[b]
    BY <1>8 DEF Spread
  <2> PICK n : n = Step(c, f)
    OBVIOUS
  <2>3. IsOpen(g, c) /\ Home(c) # k /\ Home(c) \in present /\ h.level[b][c] = g.level[b][c]
    <3>1. IsOpen(g, c) /\ Home(c) # k
      BY <1>8, <2>2
    <3>2. g.open = ready
      BY <1>1
    <3> QED
      BY <1>3, <1>6, <3>1, <3>2 DEF IsOpen
  <2>4. \A i \in g.incomplete[b] : i[1] # k => i \in h.incomplete[b]
    BY <1>6
  <2>5. CASE Home(n) = k
    <3>1. Step(Home(c), f) = k
      BY <2>2, <2>3, <2>5, Across
    <3>2. <<Home(c), f>> \in h.incomplete[b]
      BY <1>6, <2>3, <3>1
    <3> QED
      BY <1>8, <2>5, <3>2
  <2>6. CASE Home(n) # k
    <3>1. c \notin overlooked /\ n \notin overlooked
      BY <1>16, <2>2, <2>3, <2>6
    <3>2. /\ IsOpen(g, n) => \/ BlocksLight(g, n)
                             \/ g.level[b][n] >= Offer(g, b, c, f)
                             \/ Marked(g, b, c, f)
          /\ ~IsOpen(g, n) => g.level[b][c] = 0 \/ <<Home(c), f>> \in g.incomplete[b]
      BY <2>1, <2>2, <2>3, <3>1 DEF Spread
    <3>3. h.level[b][n] = g.level[b][n] /\ Offer(h, b, c, f) = Offer(g, b, c, f)
      BY <1>6, <1>8, <2>2, <2>3, <2>6 DEF Offer
    <3>4. Marked(g, b, c, f) => Marked(h, b, c, f)
      BY <2>3, <2>4, <2>6 DEF Marked
    <3>5. IsOpen(h, n) = IsOpen(g, n)
      BY <1>8, <2>6 DEF IsOpen
    <3> QED
      BY <2>3, <2>4, <3>2, <3>3, <3>4, <3>5
  <2> QED
    BY <2>5, <2>6
<1>11. Sources(h, lit')
  <2>1. "light" \in Banks /\ "sunlight" \in Banks
    BY DEF Banks
  <2> QED
    BY <1>2, <1>3, <1>6, <1>8, <2>1 DEF Lightened, Sources
<1>12. Sky(h)
  BY <1>3, <1>8 DEF Lightened, Sky
<1>13. ASSUME NEW b \in Banks PROVE OpenMarks(h, b) = {}
  <2>1. \A i \in OpenMarks(h, b) : i \in OpenMarks(g, b)
    BY <1>6, <1>13 DEF OpenMarks
  <2> QED
    BY <1>3, <2>1 DEF Lightened
<1>14. TypeOK'
  <2>1. incomplete' \in [Banks -> SUBSET (Chunks \X Faces)]
    BY <1>1, <1>7 DEF Grids
  <2>2. \A b \in Banks, c \in Cells : level'[b][c] \in 0 .. (IF Home(c) \in ready' THEN MaxLight ELSE 0)
    BY <1>2, <1>4, <1>5 DEF LightIsRight, TypeOK
  <2>3. /\ present' = present \ {k} /\ built' = built \ {k}
        /\ old' = {p \in old : k \notin {p[1], p[2]}} /\ old \subseteq built \X present
    BY DEF LightIsRight, TypeOK, World_RemoveChunk
  <2>4. old' \subseteq built' \X present'
    BY <2>3
  <2> QED
    BY <2>1, <2>2, <2>4 DEF LightIsRight, TypeOK, World_RemoveChunk
<1>15. Lightened(Now, lit, overlooked)'
  <2>1. AllSpread(h, apart)
    BY <1>10 DEF AllSpread
  <2> QED
    BY <1>2, <1>9, <1>11, <1>12, <1>13, <2>1 DEF Lightened, Sky
<1>17. Remembered'
  BY DEF LightIsRight, Remembered, World_RemoveChunk
<1> QED
  BY <1>2, <1>14, <1>15, <1>17 DEF LightIsRight, SkyStays

\* World_ReadChunksQueues: what Chunk_Generate leaves.
LEMMA ReadIsRight ==
    ASSUME LightIsRight, NEW k \in Chunks, World_ReadChunksQueues(k)
    PROVE  /\ LightIsRight'
           /\ lit' = lit \cup ToLight(k) /\ ready' = ready \cup ToLight(k)
           /\ overlooked = {} => \A b \in Banks, c \in Cells : level'[b][c] >= level[b][c]
           /\ Chunk_Generate(k).g.changed \subseteq ready'
           /\ \A b \in Banks, c \in Cells :
                 level'[b][c] # level[b][c] => Home(c) \in Chunk_Generate(k).g.changed
<1> PICK made, h : made = Chunk_Generate(k) /\ h = Now'
  OBVIOUS
<1>1. /\ UNCHANGED <<definition, data, mask, present, overlooked>>
      /\ ready' = made.g.open /\ lit' = made.lit /\ level' = made.g.level
      /\ incomplete' = made.g.incomplete
  BY DEF World_ReadChunksQueues
<1>2. /\ Improves(Opened(k), made.g) /\ made.lit = lit \cup ToLight(k) /\ Lightened(made.g, made.lit, overlooked)
  <2>1. /\ Lightened(Now, lit, overlooked) /\ lit \subseteq ready
        /\ ready \subseteq present /\ present \subseteq Chunks
    BY DEF LightIsRight, TypeOK
  <2> QED
    BY <2>1, Generates
<1>3. /\ Opened(k).open = ready \cup ToLight(k) /\ Opened(k).level = level /\ Opened(k).changed = {}
      /\ Opened(k).definition = definition /\ Opened(k).data = data
  BY DEF Opened, Now
<1>4. /\ Brightens(Opened(k), made.g) /\ SameWorld(Opened(k), made.g)
      /\ made.g.open = ready \cup ToLight(k) /\ made.g.definition = definition /\ made.g.data = data
      /\ made.g \in Grids /\ made.g.changed \subseteq made.g.open
  BY <1>2, <1>3 DEF Improves, Brightens, SameWorld, Proper
<1>5. overlooked = {} => \A b \in Banks, c \in Cells : level'[b][c] >= level[b][c]
  BY <1>1, <1>3, <1>4 DEF Brightens, Recovers
<1>6. \A b \in Banks, c \in Cells : level'[b][c] # level[b][c] => Home(c) \in made.g.changed
  BY <1>1, <1>3, <1>4 DEF Brightens, Noted
<1>7. h = [made.g EXCEPT !.changed = {}]
  <2>1. h = [definition |-> definition', data |-> data', open |-> ready', level |-> level',
             incomplete |-> incomplete', changed |-> {}]
    BY DEF Now
  <2> PICK g : g = made.g
    OBVIOUS
  <2>2. g = [definition |-> definition', data |-> data', open |-> ready', level |-> level',
             incomplete |-> incomplete', changed |-> g.changed]
    <3>1. g \in Grids /\ g.definition = definition' /\ g.data = data' /\ g.open = ready'
             /\ g.level = level'
          /\ g.incomplete = incomplete'
      BY <1>1, <1>4
    <3> QED
      BY <3>1 DEF Grids
  <2>3. h = [g EXCEPT !.changed = {}]
    BY <2>1, <2>2
  <2> QED
    BY <2>3
<1>8. Lightened(h, lit', overlooked)
  BY <1>1, <1>2, <1>7, Forgets
<1>9. Lightened(Now, lit, overlooked)'
  BY <1>1, <1>8 DEF Lightened, Sky
<1>10. /\ present \subseteq Chunks /\ ready \subseteq present /\ lit \subseteq ready
       /\ lit \subseteq held /\ held \subseteq Chunks
       /\ built \subseteq present /\ dirty \subseteq present /\ queue \subseteq present
       /\ missed \subseteq Missed /\ overlooked \subseteq Cells /\ old \subseteq built \X present
  BY DEF LightIsRight, TypeOK
<1>11. ToLight(k) \subseteq present
  <2> SUFFICES ASSUME NEW n \in ToLight(k) PROVE n \in present
    OBVIOUS
  <2>1. n \in Chunks /\ n[1] = k[1] /\ n[2] >= k[2] /\ \A y \in k[2] .. n[2] : <<k[1], y>> \in present \ lit
    BY DEF ToLight
  <2>2. k[2] \in Int /\ n[2] \in Int /\ n = <<k[1], n[2]>>
    BY <2>1, SizesAssumption DEF Chunks
  <2>3. n[2] \in k[2] .. n[2]
    BY <2>1, <2>2
  <2> QED
    BY <2>1, <2>2, <2>3
<1>12. TypeOK'
  <2>1. present' \subseteq Chunks /\ ready' \subseteq present' /\ lit' \subseteq ready'
           /\ lit' \subseteq held' /\ held' \subseteq Chunks
    BY <1>1, <1>2, <1>4, <1>10, <1>11 DEF World_ReadChunksQueues
  <2>2. built' \subseteq present' /\ dirty' \subseteq present' /\ k \in queue
    BY <1>1, <1>4, <1>10, <1>11 DEF World_ReadChunksQueues, ChunkMeshGeneration_Build
  <2>3. queue' \subseteq present'
    BY <1>1, <1>10 DEF World_ReadChunksQueues, Requeued, RequeuedNew
  <2>4. \A b \in Banks, c \in Cells : level'[b][c] \in 0 .. (IF Home(c) \in ready' THEN MaxLight ELSE 0)
    <3>1. Proper(made.g, overlooked)
      BY <1>2 DEF Improves
    <3>2. \A b \in Banks, c \in Cells : level'[b][c] \in 0 .. MaxLight /\ (Home(c) \notin ready' => level'[b][c] = 0)
      BY <1>1, <1>4, <3>1, GridFacts DEF Proper, IsOpen
    <3> QED
      BY <3>2, SizesAssumption
  <2>5. incomplete' \in [Banks -> SUBSET (Chunks \X Faces)]
    BY <1>1, <1>4 DEF Grids
  <2>6. missed' \subseteq Missed
    BY <1>10 DEF World_ReadChunksQueues, Missed
  <2>7. UNCHANGED counters
    BY DEF World_ReadChunksQueues
  <2>8. old' \subseteq built' \X present'
    <3>1. /\ built' = built \cup {k} /\ built \ {k} \in SUBSET Chunks
          /\ old' = {p \in old : p[1] # k} \cup
                    {p \in Outdated(built \ {k}) : p[2] = p[1] \/ p[2] \notin built}
      BY <1>10 DEF World_ReadChunksQueues, ChunkMeshGeneration_Build
    <3>2. Outdated(built \ {k}) \subseteq (built \ {k}) \X present
      BY <1>1, <2>1, <2>4, <3>1, OutdatedThere DEF LightIsRight
    <3>3. old' \subseteq built \X present
      BY <1>10, <3>1, <3>2
    <3> QED
      BY <1>1, <3>1, <3>3
  <2> QED
    BY <1>1, <1>10, <2>1, <2>2, <2>3, <2>4, <2>5, <2>6, <2>7, <2>8 DEF LightIsRight, TypeOK, counters
<1>13. SkyStays'
  BY <1>1 DEF LightIsRight, SkyStays
<1>14. Remembered'
  <2>1. ready \subseteq held /\ held' = held \cup made.lit /\ missed \subseteq missed'
    BY DEF LightIsRight, Remembered, World_ReadChunksQueues
  <2>2. ready' \subseteq held'
    BY <1>1, <1>2, <1>4, <2>1
  <2> QED
    BY <1>1, <2>1, <2>2 DEF LightIsRight, Remembered
<1> QED
  BY <1>1, <1>2, <1>4, <1>5, <1>6, <1>9, <1>12, <1>13, <1>14 DEF LightIsRight

\* World_InvalidateBlockDefinitions: no light and no marks.
LEMMA InvalidateIsRight ==
    ASSUME LightIsRight, NEW d \in Definitions, World_InvalidateBlockDefinitions(d)
    PROVE  LightIsRight'
<1> PICK h : h = Now'
  OBVIOUS
<1>1. /\ UNCHANGED <<data, mask, present, ready>> /\ definition' = d /\ lit' = {} /\ overlooked' = {}
      /\ level' = [b \in Banks |-> [c \in Cells |-> 0]] /\ incomplete' = [b \in Banks |-> {}]
  BY DEF World_InvalidateBlockDefinitions
<1>2. MaxLight \in Int /\ 0 \in 0 .. MaxLight
  BY SizesAssumption
<1>3. \A b \in Banks, c \in Cells : level'[b][c] = 0
  BY <1>1
<1>4. SkyStays'
  BY <1>1 DEF LightIsRight, SkyStays
<1>5. TypeOK'
  <2>1. incomplete' \in [Banks -> SUBSET (Chunks \X Faces)]
    BY <1>1
  <2>2. \A b \in Banks, c \in Cells : level'[b][c] \in 0 .. (IF Home(c) \in ready' THEN MaxLight ELSE 0)
    BY <1>2, <1>3
  <2>3. old' \subseteq built' \X present'
    <3>1. /\ built' = built /\ old' = old \cup Outdated(built) /\ built \in SUBSET Chunks
          /\ old \subseteq built \X present /\ ready' \subseteq present
      BY <1>1 DEF World_InvalidateBlockDefinitions, LightIsRight, TypeOK
    <3>2. Outdated(built) \subseteq built \X present
      BY <2>2, <3>1, OutdatedThere DEF LightIsRight
    <3> QED
      BY <1>1, <3>1, <3>2
  <2> QED
    BY <2>1, <2>2, <2>3 DEF LightIsRight, TypeOK, World_InvalidateBlockDefinitions
<1>6. Lightened(h, {}, {})
  <2>1. h = [definition |-> definition', data |-> data', open |-> ready', level |-> level',
             incomplete |-> incomplete', changed |-> {}]
    BY DEF Now
  <2>2. /\ level' \in [Banks -> [Cells -> 0 .. MaxLight]]
        /\ incomplete' \in [Banks -> SUBSET (Chunks \X Faces)]
        /\ definition' \in [Blocks -> Kinds] /\ data' \in [Cells -> Blocks] /\ ready' \subseteq Chunks
    BY <1>1, <1>2, BlocksAssumption DEF LightIsRight, TypeOK
  <2>3. h \in Grids /\ h.changed = {} /\ h.level = level'
    BY <2>1, <2>2 DEF Grids
  <2>4. Sky(h)
    BY <1>1, <2>1 DEF LightIsRight, SkyStays, Sky, Of
  <2>5. \A b \in Banks : OpenMarks(h, b) = {}
    BY <1>1, <2>1 DEF OpenMarks
  <2> QED
    BY <1>3, <2>3, <2>4, <2>5, DarkLightened
<1>7. Lightened(Now, lit, overlooked)'
  BY <1>1, <1>6 DEF Lightened, Sky
<1>8. Remembered'
  BY DEF LightIsRight, Remembered, World_InvalidateBlockDefinitions
<1> QED
  BY <1>4, <1>5, <1>7, <1>8 DEF LightIsRight

\* A block is written: nothing else is said of other cells than before.
Written(g, at) ==
    /\ g \in Grids /\ g.open = ready /\ g.level = level /\ g.incomplete = incomplete /\ g.changed = {}
    /\ \A c \in Cells \ {at} : Of(g, c) = Of(Now, c)
    /\ Sky(g)

LEMMA WrittenIs ==
    ASSUME LightIsRight, NEW at \in Cells, ~IsTopRow(at), NEW b \in Blocks,
           NEW g, g = [Now EXCEPT !.data = [data EXCEPT ![at] = b]]
    PROVE  Written(g, at)
<1>1. Now \in Grids /\ Sky(Now)
  BY DEF LightIsRight, Lightened, Proper
<1>2. /\ g.definition = definition /\ g.data = [data EXCEPT ![at] = b] /\ g.open = ready
      /\ g.level = level /\ g.incomplete = incomplete /\ g.changed = {}
      /\ Now.definition = definition /\ Now.data = data
  BY DEF Now
<1>3. data \in [Cells -> Blocks]
  BY DEF LightIsRight, TypeOK
<1>4. g.data \in [Cells -> Blocks] /\ \A c \in Cells \ {at} : g.data[c] = data[c]
  BY <1>2, <1>3
<1>5. g \in Grids
  BY <1>1, <1>4 DEF Grids
<1>6. \A c \in Cells \ {at} : Of(g, c) = Of(Now, c)
  BY <1>2, <1>4 DEF Of
<1>7. Sky(g)
  BY <1>1, <1>6 DEF Sky
<1> QED
  BY <1>2, <1>5, <1>6, <1>7 DEF Written

\* What was said of cells apart from the one that is written.
LEMMA WrittenEdited ==
    ASSUME LightIsRight, NEW at \in Cells, ~IsTopRow(at), NEW g, Written(g, at)
    PROVE  /\ Proper(g, overlooked \cup {at})
           /\ \A b \in Banks : Spread(g, b, {}, overlooked \cup {at}) /\ OpenMarks(g, b) = {}
           /\ \A c \in Cells \ {at} : Home(c) \in lit =>
                 /\ Of(g, c).emits => g.level["light"][c] = MaxLight
                 /\ IsTopRow(c) => g.level["sunlight"][c] = MaxLight
<1> PICK n, apart : n = Now /\ apart = overlooked \cup {at}
  OBVIOUS
<1>1. Lightened(n, lit, overlooked) /\ n \in Grids
  BY DEF LightIsRight, Lightened, Proper
<1>2. /\ g \in Grids /\ g.open = n.open /\ g.level = n.level /\ g.incomplete = n.incomplete
      /\ g.changed = {}
      /\ \A c \in Cells \ {at} : Of(g, c) = Of(n, c)
  BY DEF Written, Now
<1>3. /\ \A c : IsOpen(g, c) = IsOpen(n, c)
      /\ \A c \in Cells \ {at} : BlocksLight(g, c) = BlocksLight(n, c)
      /\ \A f : \A c \in Cells \ {at} : Passes(g, c, f) = Passes(n, c, f)
      /\ \A b, f : \A c \in Cells \ {at} : Loss(g, b, c, f) = Loss(n, b, c, f)
      /\ \A b, c, f : Marked(g, b, c, f) = Marked(n, b, c, f)
  BY <1>2 DEF IsOpen, BlocksLight, Passes, Loss, Marked
<1>4. Proper(g, apart)
  BY <1>1, <1>2, <1>3 DEF Lightened, Proper
<1>5. ASSUME NEW b \in Banks PROVE Spread(g, b, {}, apart) /\ OpenMarks(g, b) = {}
  <2>1. Spread(n, b, {}, overlooked)
    BY <1>1 DEF Lightened, AllSpread
  <2>2. \A c \in Cells, f \in Faces : Step(c, f) \in Cells \ {at} => Offer(g, b, c, f) = Offer(n, b, c, f)
    BY <1>2, <1>3 DEF Offer
  <2>3. Spread(g, b, {}, apart)
    <3> SUFFICES ASSUME NEW c \in Cells \ apart, NEW f \in Faces,
                        IsOpen(g, c), Step(c, f) \in Cells \ apart, ~BlocksLight(g, c), Passes(g, c, f)
                 PROVE  /\ IsOpen(g, Step(c, f)) =>
                               \/ BlocksLight(g, Step(c, f))
                               \/ g.level[b][Step(c, f)] >= Offer(g, b, c, f)
                               \/ Marked(g, b, c, f)
                        /\ ~IsOpen(g, Step(c, f)) => g.level[b][c] = 0 \/ <<Home(c), f>> \in g.incomplete[b]
      BY DEF Spread
    <3>1. IsOpen(n, c) /\ ~BlocksLight(n, c) /\ Passes(n, c, f)
      BY <1>3
    <3>2. /\ IsOpen(n, Step(c, f)) => \/ BlocksLight(n, Step(c, f))
                                      \/ n.level[b][Step(c, f)] >= Offer(n, b, c, f)
                                      \/ Marked(n, b, c, f)
          /\ ~IsOpen(n, Step(c, f)) => n.level[b][c] = 0 \/ <<Home(c), f>> \in n.incomplete[b]
      BY <2>1, <3>1 DEF Spread
    <3> QED
      BY <1>2, <1>3, <2>2, <3>2
  <2>4. OpenMarks(g, b) = {}
    BY <1>1, <1>2 DEF Lightened, OpenMarks
  <2> QED
    BY <2>3, <2>4
<1>6. \A c \in Cells \ {at} : Home(c) \in lit =>
         /\ Of(g, c).emits => g.level["light"][c] = MaxLight
         /\ IsTopRow(c) => g.level["sunlight"][c] = MaxLight
  BY <1>1, <1>2 DEF Lightened, Sources
<1> QED
  BY <1>4, <1>5, <1>6

\* World_SetBlock.
LEMMA EditIsRight ==
    ASSUME LightIsRight, NEW at \in Cells, ~IsTopRow(at), NEW b \in Blocks, World_SetBlock(at, b)
    PROVE  /\ LightIsRight'
           /\ \A o \in Banks, c \in Cells : level'[o][c] # level[o][c] => Home(c) \in dirty'
<1> PICK g, h : g = [Now EXCEPT !.data = data'] /\ h = Now'
  OBVIOUS
<1>1. /\ data' = [data EXCEPT ![at] = b]
      /\ UNCHANGED <<definition, mask, present, ready, lit, built, held, unloads, relights>>
  BY DEF World_SetBlock
<1>2. Written(g, at)
  BY <1>1, WrittenIs
<1>3. /\ Proper(g, overlooked \cup {at})
      /\ \A o \in Banks : Spread(g, o, {}, overlooked \cup {at}) /\ OpenMarks(g, o) = {}
      /\ \A c \in Cells \ {at} : Home(c) \in lit =>
            /\ Of(g, c).emits => g.level["light"][c] = MaxLight
            /\ IsTopRow(c) => g.level["sunlight"][c] = MaxLight
  BY <1>2, WrittenEdited
<1>4. h = [definition |-> definition, data |-> data', open |-> ready, level |-> level',
           incomplete |-> incomplete', changed |-> {}]
  BY <1>1 DEF Now
<1>5. g = [definition |-> definition, data |-> data', open |-> ready, level |-> level,
           incomplete |-> incomplete, changed |-> {}]
  BY DEF Now
<1>6. data' \in [Cells -> Blocks]
  BY <1>1 DEF LightIsRight, TypeOK
<1>7. SkyStays'
  BY <1>1 DEF LightIsRight, TypeOK, SkyStays
<1>8. /\ present \subseteq Chunks /\ dirty \subseteq present /\ queue \subseteq present
      /\ ready \subseteq present /\ missed \subseteq Missed /\ edits \in Nat
  BY DEF LightIsRight, TypeOK
<1>9. /\ Lightened(h, lit, overlooked') /\ overlooked' \subseteq overlooked \cup {at}
      /\ overlooked' # {} => "unseen" \in missed'
      /\ dirty' \subseteq present /\ queue' \subseteq present /\ missed' \subseteq Missed
      /\ \A o \in Banks, c \in Cells : level'[o][c] # level[o][c] => Home(c) \in dirty'
  <2>1. CASE Home(at) \in lit
    <3> PICK set : set = Chunk_SetBlock(g, at)
      OBVIOUS
    <3>1. /\ level' = set.level /\ incomplete' = set.incomplete /\ dirty' = dirty \cup set.changed
          /\ queue' = queue \cup (Around[Home(at)] \cap present)
          /\ missed' = missed \cup (IF Whole /\ Roofed THEN {} ELSE {"cut"})
          /\ overlooked' = overlooked \ {at}
      BY <2>1 DEF World_SetBlock
    <3>2. Edited(g, lit, at)
      BY <1>2, <1>3, <2>1 DEF LightIsRight, TypeOK, Edited, Written, IsOpen
    <3>3. Lightened(set, lit, overlooked') /\ SameWorld(g, set) /\ Noted(g, set)
      BY <3>1, <3>2, SetBlockLightens
    <3>4. set \in Grids /\ set.changed \subseteq set.open
      BY <3>3 DEF Lightened, Proper
    <3>5. set.open = ready /\ set.definition = definition /\ set.data = data'
      BY <1>5, <3>3 DEF SameWorld
    <3>6. h = [set EXCEPT !.changed = {}]
      <4>1. set = [definition |-> definition, data |-> data', open |-> ready, level |-> level',
                   incomplete |-> incomplete', changed |-> set.changed]
        BY <3>1, <3>4, <3>5 DEF Grids
      <4> QED
        BY <1>4, <4>1
    <3>7. Lightened(h, lit, overlooked')
      BY <3>3, <3>6, Forgets
    <3>8. missed' \subseteq Missed /\ (overlooked' # {} => "unseen" \in missed')
      BY <1>8, <3>1 DEF Missed, LightIsRight, Remembered
    <3>9. \A o \in Banks, c \in Cells : level'[o][c] # level[o][c] => Home(c) \in dirty'
      <4>1. g.level = level
        BY <1>5
      <4> QED
        BY <3>1, <3>3, <4>1 DEF Noted
    <3> QED
      BY <1>8, <3>1, <3>4, <3>5, <3>7, <3>8, <3>9
  <2>2. CASE Home(at) \notin lit /\ Home(at) \notin ready
    <3>1. /\ overlooked' = overlooked /\ level' = level /\ incomplete' = incomplete /\ dirty' = dirty
          /\ queue' = queue
          /\ missed' = missed \cup (IF Home(at) \in held THEN {"unseen"} ELSE {})
                             \cup (IF Under(Home(at)) \cap held # {} THEN {"mask"} ELSE {})
      BY <2>2 DEF World_SetBlock, lightVars
    <3>2. h = g
      BY <1>4, <1>5, <3>1
    <3>3. ~IsOpen(g, at) /\ g \in Grids /\ Sky(g)
      BY <1>2, <2>2 DEF Written, IsOpen
    <3>4. Proper(g, overlooked)
      <4>1. "sunlight" \in Banks /\ MaxLight \in Int /\ MaxLight >= 1
        BY SizesAssumption DEF Banks
      <4>2. g.level["sunlight"][at] = 0
        BY <1>3, <3>3, <4>1 DEF Proper
      <4> QED
        BY <1>3, <4>1, <4>2 DEF Proper
    <3>5. ASSUME NEW o \in Banks PROVE Spread(g, o, {}, overlooked)
      <4> SUFFICES ASSUME NEW c \in Cells \ overlooked, NEW f \in Faces,
                          IsOpen(g, c), Step(c, f) \in Cells \ overlooked, ~BlocksLight(g, c), Passes(g, c, f)
                   PROVE  /\ IsOpen(g, Step(c, f)) =>
                                 \/ BlocksLight(g, Step(c, f))
                                 \/ g.level[o][Step(c, f)] >= Offer(g, o, c, f)
                                 \/ Marked(g, o, c, f)
                          /\ ~IsOpen(g, Step(c, f)) => g.level[o][c] = 0 \/ <<Home(c), f>> \in g.incomplete[o]
        BY DEF Spread
      <4>1. c # at
        BY <3>3
      <4>2. CASE Step(c, f) # at
        <5>1. Spread(g, o, {}, overlooked \cup {at})
          BY <1>3
        <5> QED
          BY <4>1, <4>2, <5>1 DEF Spread
      <4>3. CASE Step(c, f) = at
        <5>1. Home(c) \in ready /\ Home(at) # Home(c) /\ g.level = level /\ g.incomplete = incomplete
          BY <1>5, <2>2 DEF IsOpen
        <5>2. level[o][c] = 0 \/ <<Home(c), f>> \in incomplete[o]
          <6> PICK n : n = Now
            OBVIOUS
          <6>1. Spread(n, o, {}, overlooked) /\ n.level = level /\ n.incomplete = incomplete /\ n.open = ready
            BY DEF LightIsRight, Lightened, AllSpread, Now
          <6>2. BlocksLight(n, c) = BlocksLight(g, c) /\ Passes(n, c, f) = Passes(g, c, f)
            BY <1>2, <4>1 DEF Written, BlocksLight, Passes
          <6>3. IsOpen(n, c) /\ ~IsOpen(n, at)
            BY <2>2, <5>1, <6>1 DEF IsOpen
          <6> QED
            BY <4>3, <6>1, <6>2, <6>3 DEF Spread
        <5> QED
          BY <3>3, <4>3, <5>1, <5>2
      <4> QED
        BY <4>2, <4>3
    <3>6. Sources(g, lit)
      BY <1>3, <2>2 DEF Sources
    <3>7. Lightened(g, lit, overlooked)
      BY <1>3, <3>3, <3>4, <3>5, <3>6 DEF Lightened, AllSpread
    <3>8. missed' \subseteq Missed /\ (overlooked' # {} => "unseen" \in missed')
      BY <1>8, <3>1 DEF Missed, LightIsRight, Remembered
    <3> QED
      BY <1>8, <3>1, <3>2, <3>7, <3>8
  <2>3. CASE Home(at) \notin lit /\ Home(at) \in ready
    <3>1. /\ overlooked' = overlooked \cup {at} /\ level' = level /\ incomplete' = incomplete
          /\ dirty' = dirty /\ queue' = queue
          /\ missed' = missed \cup (IF Home(at) \in held THEN {"unseen"} ELSE {})
                             \cup (IF Under(Home(at)) \cap held # {} THEN {"mask"} ELSE {})
      BY <2>3 DEF World_SetBlock, lightVars
    <3>2. h = g
      BY <1>4, <1>5, <3>1
    <3>3. Sources(g, lit) /\ Sky(g)
      BY <1>2, <1>3, <2>3 DEF Sources, Written
    <3>4. Lightened(g, lit, overlooked')
      BY <1>3, <3>1, <3>3 DEF Lightened, AllSpread
    <3>5. Home(at) \in held
      BY <2>3 DEF LightIsRight, Remembered
    <3>6. missed' \subseteq Missed /\ "unseen" \in missed'
      BY <1>8, <3>1, <3>5 DEF Missed
    <3> QED
      BY <1>8, <3>1, <3>2, <3>4, <3>6
  <2> QED
    BY <2>1, <2>2, <2>3
<1>10. Lightened(Now, lit, overlooked)'
  BY <1>1, <1>9 DEF Lightened, Sky
<1>11. TypeOK'
  <2>1. Proper(h, overlooked') /\ h \in Grids
    BY <1>9 DEF Lightened, Proper
  <2>2. incomplete' \in [Banks -> SUBSET (Chunks \X Faces)]
    BY <1>4, <2>1 DEF Grids
  <2>3. \A o \in Banks, c \in Cells : level'[o][c] \in 0 .. (IF Home(c) \in ready' THEN MaxLight ELSE 0)
    <3>1. h.open = ready /\ h.level = level'
      BY <1>4
    <3>2. \A o \in Banks, c \in Cells : level'[o][c] \in 0 .. MaxLight /\ (Home(c) \notin ready => level'[o][c] = 0)
      BY <2>1, <3>1, GridFacts DEF Proper, IsOpen
    <3> QED
      BY <1>1, <3>2, SizesAssumption
  <2>4. edits' \in Nat
    BY <1>8 DEF World_SetBlock
  <2>5. old' \subseteq built' \X present'
    <3>1. /\ old \subseteq built \X present /\ built \in SUBSET Chunks /\ ready' \subseteq present
          /\ old' \subseteq old \cup Outdated(built)
      BY <1>1 DEF World_SetBlock, LightIsRight, TypeOK
    <3>2. Outdated(built) \subseteq built \X present
      BY <2>3, <3>1, OutdatedThere DEF LightIsRight
    <3> QED
      BY <1>1, <3>1, <3>2
  <2> QED
    BY <1>1, <1>6, <1>9, <2>2, <2>3, <2>4, <2>5 DEF LightIsRight, TypeOK
<1>12. Remembered'
  BY <1>1, <1>9 DEF LightIsRight, Remembered
<1> QED
  BY <1>7, <1>9, <1>10, <1>11, <1>12 DEF LightIsRight

\* No step spoils the light.
LEMMA NextIsRight ==
    ASSUME LightIsRight, [Next]_vars
    PROVE  LightIsRight'
<1>1. ASSUME NEW k \in Chunks, World_AddChunk(k) PROVE LightIsRight'
  BY <1>1, AddIsRight
<1>2. ASSUME NEW k \in Chunks, World_RemoveChunk(k) PROVE LightIsRight'
  BY <1>2, RemoveIsRight
<1>3. ASSUME NEW k \in Chunks, World_ReadChunksQueues(k) PROVE LightIsRight'
  BY <1>3, ReadIsRight
<1>4. ASSUME NEW e \in Edits, World_SetBlock(e.at, e.block) PROVE LightIsRight'
  <2>1. e.at \in Cells /\ ~IsTopRow(e.at) /\ e.block \in Blocks
    BY BlocksAssumption, SkyAssumption
  <2> QED
    BY <1>4, <2>1, EditIsRight
<1>5. ASSUME NEW d \in Definitions, World_InvalidateBlockDefinitions(d) PROVE LightIsRight'
  BY <1>5, InvalidateIsRight
<1>6. CASE UNCHANGED vars
  <2>1. UNCHANGED <<definition, data, mask, present, ready, lit, built, dirty, queue, level, incomplete, held, missed,
                    overlooked, old, edits, unloads, relights>>
    BY <1>6 DEF vars, chunkVars, lightVars, history, counters
  <2>2. Now' = Now
    BY <2>1 DEF Now
  <2>3. TypeOK'
    BY <2>1 DEF LightIsRight, TypeOK
  <2>4. Lightened(Now, lit, overlooked)'
    BY <2>1, <2>2 DEF LightIsRight, Lightened, Sky
  <2> QED
    BY <2>1, <2>3, <2>4 DEF LightIsRight, SkyStays, Remembered
<1> QED
  BY <1>1, <1>2, <1>3, <1>4, <1>5, <1>6 DEF Next

\* Nothing is too dark.
LEMMA RightIsEnough == LightIsRight => LitEnough
<1> SUFFICES ASSUME LightIsRight, NEW c \in Cells, Home(c) \in lit
             PROVE  /\ Lamp(c) => level["light"][c] = MaxLight
                    /\ IsTopRow(c) => level["sunlight"][c] = MaxLight
                    /\ \A b \in Banks, f \in Faces :
                          ~BlocksLight(Now, c) /\ Enters(Now, c, f) /\ Home(Step(c, f)) \in lit
                          /\ {c, Step(c, f)} \cap overlooked = {} =>
                             level[b][Step(c, f)] >= Offer(Now, b, c, f)
  BY DEF LitEnough
<1> PICK g : g = Now
  OBVIOUS
<1>1. Lightened(g, lit, overlooked) /\ g.level = level /\ g.open = ready /\ lit \subseteq ready
  BY DEF LightIsRight, TypeOK, Now
<1>2. /\ Lamp(c) => level["light"][c] = MaxLight
      /\ IsTopRow(c) => level["sunlight"][c] = MaxLight
  BY <1>1 DEF Lightened, Sources, Lamp
<1>3. ASSUME NEW b \in Banks, NEW f \in Faces, ~BlocksLight(g, c), Enters(g, c, f),
             Home(Step(c, f)) \in lit, {c, Step(c, f)} \cap overlooked = {}
      PROVE  level[b][Step(c, f)] >= Offer(g, b, c, f)
  <2>1. /\ IsOpen(g, c) /\ IsOpen(g, Step(c, f)) /\ Step(c, f) \in Cells
        /\ Passes(g, c, f) /\ ~BlocksLight(g, Step(c, f))
        /\ c \notin overlooked /\ Step(c, f) \notin overlooked
    BY <1>1, <1>3 DEF Enters, Reaches, IsOpen
  <2>2. Spread(g, b, {}, overlooked)
    BY <1>1 DEF Lightened, AllSpread
  <2>3. g.level[b][Step(c, f)] >= Offer(g, b, c, f) \/ Marked(g, b, c, f)
    BY <1>3, <2>1, <2>2 DEF Spread
  <2>4. ~Marked(g, b, c, f)
    <3> SUFFICES ASSUME Marked(g, b, c, f) PROVE FALSE
      OBVIOUS
    <3>1. Home(c) \in Chunks /\ Home(Step(c, f)) \in Chunks
      BY <2>1, Positions
    <3>2. Home(Step(c, f)) = Step(Home(c), f) /\ Step(Home(Step(c, f)), Opposite(f)) = Home(c)
      BY <3>1, Across, Stepping, Positions DEF Marked
    <3>3. <<Home(c), f>> \in OpenMarks(g, b) \/ <<Home(Step(c, f)), Opposite(f)>> \in OpenMarks(g, b)
      BY <2>1, <3>2 DEF Marked, OpenMarks, IsOpen
    <3> QED
      BY <1>1, <3>3 DEF Lightened
  <2> QED
    BY <1>1, <2>3, <2>4
<1> QED
  BY <1>2, <1>3

\* In every reachable state light has gone wherever it goes, in and between the
\* lit chunks: whatever chunks came, left and came back, in whatever order, and
\* whatever definitions changed in between, no cell is darker than its lamp, the
\* sky or its neighbours make it (chunklightning.c); except next to a block that
\* changed while its chunk waited to be lit again, where World_SetBlock only
\* writes the block and nothing sends light on until that block is edited again,
\* its chunk returns or all light is made anew.
THEOREM LightInvariantHolds == Spec => []LightInvariant
<1>1. Spec => []LightIsRight
  BY InitIsRight, NextIsRight, PTL DEF Spec
<1>2. LightIsRight => LightInvariant
  BY RightIsEnough DEF LightIsRight, LightInvariant
<1> QED
  BY <1>1, <1>2, PTL

\* A chunk that needs light or a mesh is in the queue.
Waiting == present \ (lit \cap built) \subseteq queue

LEMMA InitWaits == Init => Waiting
  BY DEF Init, Waiting

LEMMA NextWaits ==
    ASSUME LightIsRight, Waiting, [Next]_vars
    PROVE  Waiting'
<1>1. ASSUME NEW k \in Chunks, World_AddChunk(k) PROVE Waiting'
  BY <1>1 DEF World_AddChunk, Waiting
<1>2. ASSUME NEW k \in Chunks, World_RemoveChunk(k) PROVE Waiting'
  BY <1>2 DEF World_RemoveChunk, Waiting
<1>3. ASSUME NEW k \in Chunks, World_ReadChunksQueues(k) PROVE Waiting'
  <2>1. lit' = lit \cup ToLight(k) /\ present' = present /\ built' = built \cup {k}
           /\ queue \ {k} \subseteq queue'
    BY <1>3, ReadIsRight DEF World_ReadChunksQueues, ChunkMeshGeneration_Build
  <2>2. k \in present => k \in lit'
    <3> SUFFICES ASSUME k \in present, k \notin lit PROVE k \in ToLight(k)
      BY <2>1
    <3>1. k[2] \in Int /\ k = <<k[1], k[2]>>
      BY SizesAssumption DEF Chunks
    <3>2. \A y \in k[2] .. k[2] : y = k[2]
      BY <3>1
    <3> QED
      BY <3>1, <3>2 DEF ToLight
  <2> QED
    BY <2>1, <2>2 DEF Waiting
<1>4. ASSUME NEW at, NEW b, World_SetBlock(at, b) PROVE Waiting'
  BY <1>4 DEF World_SetBlock, Waiting
<1>5. ASSUME NEW d \in Definitions, World_InvalidateBlockDefinitions(d) PROVE Waiting'
  BY <1>5 DEF World_InvalidateBlockDefinitions, Waiting
<1>6. CASE UNCHANGED vars
  BY <1>6 DEF vars, chunkVars, Waiting
<1> QED
  BY <1>1, <1>2, <1>3, <1>4, <1>5, <1>6 DEF Next

\* A mesh that shows old light is built again: its own chunk is dirty, or it is
\* queued, or will be when the chunk beside it gets its first mesh.
Settling(p) ==
    /\ p[2] \in Beside[p[1]] \cup {p[1]}
    /\ p[2] = p[1] => p[1] \in dirty
    /\ p[2] # p[1] => p[1] \in queue \/ p[2] \notin built

OldSettles == \A p \in old : Settling(p)

LEMMA BesideBack ==
    ASSUME NEW k \in Chunks, NEW n \in Beside[k]
    PROVE  n \in Chunks /\ k \in Beside[n]
<1>1. PICK f \in Faces : n = Step(k, f) /\ n \in Chunks
  BY DEF Beside
<1>2. k \in Int \X Int
  BY Positions
<1>3. k = Step(n, Opposite(f)) /\ Opposite(f) \in Faces
  BY <1>1, <1>2, Stepping
<1> QED
  BY <1>1, <1>3 DEF Beside

LEMMA ReadSettles ==
    ASSUME LightIsRight, OldSettles, NEW k \in Chunks, World_ReadChunksQueues(k)
    PROVE  OldSettles'
<1> PICK made, stale : made = Chunk_Generate(k) /\ stale = (dirty \cup made.g.changed) \ {k}
  OBVIOUS
<1>1. /\ dirty' = stale /\ queue' = (queue \ {k}) \cup Requeued(k, stale) /\ built' = built \cup {k}
      /\ old' = {p \in old : p[1] # k} \cup
                {p \in Outdated(built \ {k}) : p[2] = p[1] \/ p[2] \notin built}
  BY DEF World_ReadChunksQueues, ChunkMeshGeneration_Build
<1>2. \A b \in Banks, c \in Cells : level'[b][c] # level[b][c] => Home(c) \in made.g.changed
  BY ReadIsRight
<1>3. built \subseteq present /\ present \subseteq Chunks /\ old \subseteq built \X present
  BY DEF LightIsRight, TypeOK
<1> SUFFICES ASSUME NEW p \in old' PROVE Settling(p)'
  BY DEF OldSettles
\* A chunk beside one that gets its first mesh is queued.
<1>4. ASSUME p[1] \in built, p[2] = k, p[2] \notin built, p[2] \in Beside[p[1]]
      PROVE  p[1] \in queue'
  <2>1. p[1] \in Beside[k] /\ p[1] \in present
    BY <1>3, <1>4, BesideBack
  <2> QED
    BY <1>1, <1>4, <2>1 DEF Requeued, RequeuedNew
<1>5. CASE p \in old /\ p[1] # k
  <2>1. /\ p[2] \in Beside[p[1]] \cup {p[1]} /\ p[1] \in built
        /\ p[2] = p[1] => p[1] \in dirty
        /\ p[2] # p[1] => p[1] \in queue \/ p[2] \notin built
    BY <1>3, <1>5 DEF OldSettles, Settling
  <2> QED
    BY <1>1, <1>4, <1>5, <2>1 DEF Settling
<1>6. CASE p \in Outdated(built \ {k}) /\ (p[2] = p[1] \/ p[2] \notin built)
  <2>1. built \ {k} \in SUBSET Chunks
    BY <1>3
  <2>2. /\ p[1] \in built \ {k} /\ p[2] \in Beside[p[1]] \cup {p[1]}
        /\ p[2] \in made.g.changed
    BY <1>2, <1>6, <2>1, OutdatedIn
  <2> QED
    BY <1>1, <1>4, <1>6, <2>2 DEF Settling
<1> QED
  BY <1>1, <1>5, <1>6

LEMMA EditSettles ==
    ASSUME LightIsRight, OldSettles, NEW at \in Cells, ~IsTopRow(at), NEW b \in Blocks,
           World_SetBlock(at, b)
    PROVE  OldSettles'
<1>1. \A o \in Banks, c \in Cells : level'[o][c] # level[o][c] => Home(c) \in dirty'
  BY EditIsRight
<1>2. built' = built /\ built \subseteq present /\ present \subseteq Chunks /\ dirty \subseteq dirty' /\ queue \subseteq queue'
  BY DEF World_SetBlock, LightIsRight, TypeOK
<1>3. ASSUME NEW p \in old PROVE Settling(p)'
  BY <1>2, <1>3 DEF OldSettles, Settling
<1>4. ASSUME NEW p \in old' \ old PROVE Settling(p)'
  <2>1. /\ p \in Outdated(built) /\ (p[2] = p[1] \/ p[1] \in Around[Home(at)])
        /\ queue' = queue \cup (Around[Home(at)] \cap present)
    BY <1>4 DEF World_SetBlock
  <2>2. built \in SUBSET Chunks
    BY <1>2
  <2>3. p[1] \in built /\ p[2] \in Beside[p[1]] \cup {p[1]} /\ p[2] \in dirty'
    BY <1>1, <2>1, <2>2, OutdatedIn
  <2> QED
    BY <1>2, <2>1, <2>3 DEF Settling
<1> QED
  BY <1>3, <1>4 DEF OldSettles

LEMMA InvalidateSettles ==
    ASSUME LightIsRight, OldSettles, NEW d \in Definitions, World_InvalidateBlockDefinitions(d)
    PROVE  OldSettles'
<1>1. /\ dirty' = present /\ queue' = present /\ built' = built
      /\ old' = old \cup Outdated(built)
      /\ built \subseteq present /\ present \subseteq Chunks /\ old \subseteq built \X present
  BY DEF World_InvalidateBlockDefinitions, LightIsRight, TypeOK
<1>2. ASSUME NEW p \in old PROVE Settling(p)'
  BY <1>1, <1>2 DEF OldSettles, Settling
<1>3. ASSUME NEW p \in Outdated(built) PROVE Settling(p)'
  <2>1. built \in SUBSET Chunks
    BY <1>1
  <2>2. p[1] \in built /\ p[2] \in Beside[p[1]] \cup {p[1]}
    BY <1>3, <2>1, OutdatedIn
  <2> QED
    BY <1>1, <2>2 DEF Settling
<1> QED
  BY <1>1, <1>2, <1>3 DEF OldSettles

LEMMA NextSettles ==
    ASSUME LightIsRight, OldSettles, [Next]_vars
    PROVE  OldSettles'
<1>1. ASSUME NEW k \in Chunks, World_AddChunk(k) PROVE OldSettles'
  BY <1>1 DEF World_AddChunk, OldSettles, Settling, history
<1>2. ASSUME NEW k \in Chunks, World_RemoveChunk(k) PROVE OldSettles'
  <2>1. /\ built' = built \ {k} /\ dirty' = dirty \ {k} /\ queue' = queue \ {k}
        /\ \A p \in old' : p \in old /\ p[1] # k /\ p[2] # k
    BY <1>2 DEF World_RemoveChunk
  <2> QED
    BY <2>1 DEF OldSettles, Settling
<1>3. ASSUME NEW e \in Edits, World_SetBlock(e.at, e.block) PROVE OldSettles'
  <2>1. e.at \in Cells /\ ~IsTopRow(e.at) /\ e.block \in Blocks
    BY BlocksAssumption, SkyAssumption
  <2> QED
    BY <1>3, <2>1, EditSettles
<1>4. CASE UNCHANGED vars
  BY <1>4 DEF vars, chunkVars, history, OldSettles, Settling
<1> QED
  BY <1>1, <1>2, <1>3, <1>4, ReadSettles, InvalidateSettles DEF Next

\* The last turn leaves no mesh to build again: what is not queued has a mesh,
\* and the light of its own chunk and of those beside it in it.
LEMMA LastTurn ==
    ASSUME LightIsRight, Waiting, OldSettles, [Next]_vars, queue # {}, queue' = {}, UNCHANGED present
    PROVE  dirty' = {} /\ old' = {}
<1>1. ASSUME NEW k \in Chunks, World_AddChunk(k) PROVE dirty' = {}
  BY <1>1 DEF World_AddChunk
<1>2. ASSUME NEW k \in Chunks, World_RemoveChunk(k) PROVE dirty' = {}
  BY <1>2 DEF World_RemoveChunk
<1>3. ASSUME NEW k \in Chunks, World_ReadChunksQueues(k) PROVE dirty' = {}
  <2> PICK made, stale : made = Chunk_Generate(k) /\ stale = (dirty \cup made.g.changed) \ {k}
    OBVIOUS
  <2>1. dirty' = stale /\ queue' = (queue \ {k}) \cup Requeued(k, stale)
    BY <1>3 DEF World_ReadChunksQueues, ChunkMeshGeneration_Build
  <2>2. queue \ {k} = {} /\ stale \cap built = {}
    BY <2>1 DEF Requeued
  <2>3. stale \subseteq present
    <3>1. made.g.changed \subseteq ready' /\ LightIsRight'
      BY <1>3, ReadIsRight
    <3>2. ready' \subseteq present' /\ dirty \subseteq present
      BY <3>1 DEF LightIsRight, TypeOK
    <3> QED
      BY <3>1, <3>2
  <2>4. present \ {k} \subseteq built
    BY <2>2 DEF Waiting
  <2> QED
    BY <2>1, <2>2, <2>3, <2>4
<1>4. ASSUME NEW at, NEW b, World_SetBlock(at, b) PROVE dirty' = {}
  BY <1>4 DEF World_SetBlock
<1>5. ASSUME NEW d \in Definitions, World_InvalidateBlockDefinitions(d) PROVE dirty' = {}
  BY <1>5 DEF World_InvalidateBlockDefinitions
<1>6. CASE UNCHANGED vars
  BY <1>6 DEF vars, chunkVars
<1>7. dirty' = {}
  BY <1>1, <1>2, <1>3, <1>4, <1>5, <1>6 DEF Next
<1>8. OldSettles' /\ Waiting' /\ LightIsRight'
  BY NextSettles, NextWaits, NextIsRight
<1>9. present' \subseteq built' /\ old' \subseteq built' \X present'
  BY <1>8 DEF Waiting, LightIsRight, TypeOK
<1>10. ASSUME NEW p \in old' PROVE FALSE
  <2>1. p[2] \in built'
    BY <1>9
  <2>2. Settling(p)'
    BY <1>8 DEF OldSettles
  <2> QED
    BY <1>7, <2>1, <2>2 DEF Settling
<1> QED
  BY <1>7, <1>10

\* A chunk that is held has light and a mesh or waits for them; and when the
\* queue is worked off, every mesh shows the light of its own chunk as it is,
\* and at its borders the light of a chunk beside it as it was when that got its
\* mesh or later, with every edit around (World_ReadChunksQueues, World_SetBlock
\* and AddFace).
THEOREM MeshesSettleHolds == Spec => MeshesSettle
<1>1. Spec => []LightIsRight
  BY InitIsRight, NextIsRight, PTL DEF Spec
<1>2. LightIsRight /\ Waiting /\ [Next]_vars => Waiting'
  BY NextWaits
<1>3. Spec => []Waiting
  BY <1>1, <1>2, InitWaits, PTL DEF Spec
<1>4. Init => OldSettles
  BY DEF Init, OldSettles
<1>5. LightIsRight /\ OldSettles /\ [Next]_vars => OldSettles'
  BY NextSettles
<1>6. Spec => []OldSettles
  BY <1>1, <1>4, <1>5, PTL DEF Spec
<1>7. Waiting => present \ (lit \cap built) \subseteq queue
  BY DEF Waiting
<1>8. LightIsRight /\ Waiting /\ OldSettles /\ [Next]_vars =>
         [queue # {} /\ queue' = {} /\ UNCHANGED present => dirty' = {} /\ old' = {}]_vars
  BY LastTurn
<1> QED
  BY <1>1, <1>3, <1>6, <1>7, <1>8, PTL DEF Spec, MeshesSettle

\* Chunk_Generate of a chunk that is lit changes no light.
LEMMA NothingToLight ==
    ASSUME NEW k \in Chunks, Lightened(Now, lit, overlooked), lit \subseteq ready, ToLight(k) = {}
    PROVE  Chunk_Generate(k).g.changed = {}
<1>1. Proper(Opened(k), overlooked) /\ Opened(k).changed = {}
  BY OpenedIs
<1> PICK w : IsGeneration(w, k)
  BY <1>1, GenerationIs
<1>2. /\ w[0].g = Opened(k) /\ Chunk_Generate(k) = w[Height]
      /\ \A y \in 1 .. Height : w[y] = OneRow(k, y, w[y - 1])
  BY DEF IsGeneration
<1> PICK Good : Good = {y \in 0 .. Height : w[y] = w[0]}
  OBVIOUS
<1>3. Height \in Nat /\ 0 \in Good
  BY SizesAssumption
<1>4. ASSUME NEW y \in 1 .. Height, y - 1 \in Good PROVE y \in Good
  <2>1. w[y] = w[y - 1]
    BY <1>2 DEF OneRow
  <2> QED
    BY <1>3, <1>4, <2>1
<1>5. 0 .. Height \subseteq Good
  BY <1>3, <1>4, Reaching
<1> QED
  BY <1>1, <1>2, <1>3, <1>5

\* One turn: a first mesh, one more lit, or less to do.
LEMMA TurnDrains ==
    ASSUME LightIsRight, NEW k \in Chunks, World_ReadChunksQueues(k)
    PROVE  \/ built \subseteq built' /\ built' # built
           \/ built' = built /\ lit \subseteq lit' /\ lit' # lit
           \/ built' = built /\ lit' = lit /\ ToDo' \subseteq ToDo /\ ToDo' # ToDo
<1> PICK made, stale : made = Chunk_Generate(k) /\ stale = (dirty \cup made.g.changed) \ {k}
  OBVIOUS
<1>1. /\ k \in queue /\ dirty' = stale /\ queue' = (queue \ {k}) \cup Requeued(k, stale)
      /\ built' = built \cup {k}
  BY DEF World_ReadChunksQueues, ChunkMeshGeneration_Build
<1>2. lit' = lit \cup ToLight(k) /\ ToLight(k) \cap lit = {}
  <2>1. ASSUME NEW n \in ToLight(k) PROVE n \notin lit
    <3>1. /\ n \in Chunks /\ n[1] = k[1] /\ n[2] >= k[2]
          /\ \A y \in k[2] .. n[2] : <<k[1], y>> \in present \ lit
      BY DEF ToLight
    <3>2. n[2] \in k[2] .. n[2] /\ n = <<k[1], n[2]>>
      BY <3>1 DEF Chunks
    <3> QED
      BY <3>1, <3>2
  <2> QED
    BY <2>1, ReadIsRight
<1>3. CASE k \notin built
  BY <1>1, <1>3
<1>4. CASE k \in built /\ ToLight(k) # {}
  BY <1>1, <1>2, <1>4
<1>5. CASE k \in built /\ ToLight(k) = {}
  <2>1. made.g.changed = {}
    BY <1>5, NothingToLight DEF LightIsRight, TypeOK
  <2>2. built' = built /\ lit' = lit /\ stale = dirty \ {k}
    BY <1>1, <1>2, <1>5, <2>1
  <2>3. queue' = (queue \ {k}) \cup (stale \cap built)
    BY <1>1, <1>5 DEF Requeued, RequeuedNew
  <2>4. ToDo' = queue' \cup (dirty' \cap built')
    BY DEF ToDo
  <2>5. ToDo' = ToDo \ {k} /\ k \in ToDo
    BY <1>1, <2>2, <2>3, <2>4 DEF ToDo
  <2> QED
    BY <2>2, <2>5
<1> QED
  BY <1>3, <1>4, <1>5

\* Chunks never queue each other for ever: as long as nothing arrives, leaves or
\* is edited, every turn is progress in one of three ways, and each can happen
\* only so often: all three sets are bounded by the chunks there are
\* (World_ReadChunksQueues).
THEOREM QueueDrainsHolds == Spec => QueueDrains
<1> DEFINE Progress ==
              \/ built \subseteq built' /\ built' # built
              \/ built' = built /\ lit \subseteq lit' /\ lit' # lit
              \/ built' = built /\ lit' = lit /\ ToDo' \subseteq ToDo /\ ToDo' # ToDo
<1>1. Spec => []LightIsRight
  BY InitIsRight, NextIsRight, PTL DEF Spec
<1>2. ASSUME LightIsRight, Next, Working PROVE Progress
  <2>1. UNCHANGED <<present, edits, unloads, relights>>
    BY <1>2 DEF Working, counters
  <2>2. ASSUME NEW k \in Chunks, World_AddChunk(k) PROVE FALSE
    BY <2>1, <2>2 DEF World_AddChunk
  <2>3. ASSUME NEW k \in Chunks, World_RemoveChunk(k) PROVE FALSE
    BY <2>1, <2>3 DEF World_RemoveChunk
  <2>4. edits \in Nat /\ relights \in Nat
    BY <1>2 DEF LightIsRight, TypeOK
  <2>5. ASSUME NEW at, NEW b, World_SetBlock(at, b) PROVE FALSE
    BY <2>1, <2>4, <2>5 DEF World_SetBlock
  <2>6. ASSUME NEW d \in Definitions, World_InvalidateBlockDefinitions(d) PROVE FALSE
    BY <2>1, <2>4, <2>6 DEF World_InvalidateBlockDefinitions
  <2>7. ASSUME NEW k \in Chunks, World_ReadChunksQueues(k) PROVE Progress
    BY <1>2, <2>7, TurnDrains
  <2> QED
    BY <1>2, <2>2, <2>3, <2>5, <2>6, <2>7 DEF Next
<1>3. LightIsRight /\ [Next]_vars => [Working => Progress]_vars
  BY <1>2
<1> QED
  BY <1>1, <1>3, PTL DEF Spec, QueueDrains

----------------------------------------------------------------------------
(* Nothing too bright: while chunks are away there are still levels of     *)
(* which each has a reason, none below the light there is.                 *)

Levels == [Banks -> [Cells -> 0 .. MaxLight]]

\* All above a cell is clear.
Clearly(g, c) == \A d \in Cells : d[1] = c[1] /\ d[2] > c[2] => Of(g, d).clear

\* A level comes from beside, from a chunk of hs.
FromBeside(g, hs, L, b, c) ==
    \E n \in Cells, f \in Faces : /\ Step(n, f) = c /\ Home(n) \in hs /\ Reaches(g, n, f)
                                  /\ L[b][n] - Loss(g, b, c, f) >= L[b][c]

\* A level is a lamp's, the sky's, whether its light comes through a sky mask or
\* through the chunks above, or comes from beside.
Reason(g, sky, hs, L, b, c) ==
    \/ Shines(g, b, c)
    \/ /\ b = "sunlight" /\ c \in sky /\ ~BlocksLight(g, c)
       /\ Clearly(g, c) /\ L[b][c] <= Cap(g, c)
    \/ FromBeside(g, hs, L, b, c)

Reasoned(g, sky, hs, L) ==
    /\ L \in Levels
    /\ \A b \in Banks, c \in Cells : L[b][c] # 0 => Home(c) \in hs /\ Reason(g, sky, hs, L, b, c)

\* A reason remains in more chunks with more light around.
LEMMA FromMore ==
    ASSUME NEW g \in Grids, NEW hs, NEW more, hs \subseteq more,
           NEW L \in Levels, NEW M \in Levels, NEW b \in Banks, NEW c \in Cells,
           \A n \in Cells : M[b][n] >= L[b][n], M[b][c] = L[b][c], FromBeside(g, hs, L, b, c)
    PROVE  FromBeside(g, more, M, b, c)
<1>1. PICK n \in Cells, f \in Faces : /\ Step(n, f) = c /\ Home(n) \in hs /\ Reaches(g, n, f)
                                      /\ L[b][n] - Loss(g, b, c, f) >= L[b][c]
  BY DEF FromBeside
<1>2. M[b][n] >= L[b][n] /\ M[b][n] \in 0 .. MaxLight /\ L[b][n] \in 0 .. MaxLight /\ L[b][c] \in 0 .. MaxLight
  BY DEF Levels
<1>3. Loss(g, b, c, f) \in {0, 1} /\ MaxLight \in Int
  BY GridFacts
<1>4. M[b][n] - Loss(g, b, c, f) >= M[b][c]
  BY <1>1, <1>2, <1>3
<1> QED
  BY <1>1, <1>4 DEF FromBeside

\* Only what the cells hold matters.
LEMMA SameReasoned ==
    ASSUME NEW g, NEW h, h.definition = g.definition, h.data = g.data,
           NEW sky, NEW hs, NEW L, Reasoned(g, sky, hs, L)
    PROVE  Reasoned(h, sky, hs, L)
<1>1. \A c : Of(h, c) = Of(g, c) /\ BlocksLight(h, c) = BlocksLight(g, c) /\ Cap(h, c) = Cap(g, c)
  BY DEF Of, BlocksLight, Cap
<1>2. \A c : Clearly(h, c) = Clearly(g, c)
  BY <1>1 DEF Clearly
<1>3. /\ \A c, f : Reaches(h, c, f) = Reaches(g, c, f)
      /\ \A b, c, f : Loss(h, b, c, f) = Loss(g, b, c, f)
      /\ \A b, c : Shines(h, b, c) = Shines(g, b, c)
  BY <1>1 DEF Reaches, Passes, Loss, Shines
<1>4. \A b, c : FromBeside(h, hs, L, b, c) = FromBeside(g, hs, L, b, c)
  BY <1>3 DEF FromBeside
<1>5. \A b, c : Reason(h, sky, hs, L, b, c) = Reason(g, sky, hs, L, b, c)
  BY <1>1, <1>2, <1>3, <1>4 DEF Reason
<1> QED
  BY <1>5 DEF Reasoned

\* Light that is added by lamps and by true sky masks has a reason.
LEMMA MoreReasoned ==
    ASSUME overlooked = {},
           NEW g \in Grids, NEW h, Proper(h, overlooked), Brightens(g, h), NEW ks, Fed(g, h, ks),
           \A c \in mask : Home(c) \in ks => Clearly(g, c),
           NEW hs, NEW more, hs \subseteq more, h.open \subseteq more,
           NEW L, Reasoned(g, mask, hs, L), \A b \in Banks, c \in Cells : g.level[b][c] <= L[b][c]
    PROVE  \E M : Reasoned(g, mask, more, M) /\ \A b \in Banks, c \in Cells : h.level[b][c] <= M[b][c]
<1> DEFINE M == [b \in Banks |-> [c \in Cells |-> IF h.level[b][c] > L[b][c] THEN h.level[b][c] ELSE L[b][c]]]
<1>1. h \in Grids /\ SameWorld(g, h) /\ L \in Levels /\ MaxLight \in Int
  BY SizesAssumption DEF Proper, Brightens, Reasoned
<1>2. \A b \in Banks, c \in Cells :
         /\ g.level[b][c] \in 0 .. MaxLight /\ h.level[b][c] \in 0 .. MaxLight /\ L[b][c] \in 0 .. MaxLight
         /\ g.level[b][c] <= L[b][c]
  BY <1>1, GridFacts DEF Levels
<1>3. \A b \in Banks, c \in Cells :
         M[b][c] = IF h.level[b][c] > L[b][c] THEN h.level[b][c] ELSE L[b][c]
  OBVIOUS
<1>4. M \in Levels
  BY <1>2 DEF Levels
<1> HIDE DEF M
<1>5. \A b \in Banks, c \in Cells : M[b][c] >= h.level[b][c] /\ M[b][c] >= L[b][c]
  BY <1>1, <1>2, <1>3
<1>6. ASSUME NEW b \in Banks, NEW c \in Cells, M[b][c] # 0
      PROVE  Home(c) \in more /\ Reason(g, mask, more, M, b, c)
  <2>1. CASE M[b][c] = L[b][c]
    <3>1. Home(c) \in hs /\ Reason(g, mask, hs, L, b, c)
      BY <1>6, <2>1 DEF Reasoned
    <3>2. FromBeside(g, hs, L, b, c) => FromBeside(g, more, M, b, c)
      BY <1>1, <1>4, <1>5, <2>1, FromMore
    <3> QED
      BY <2>1, <3>1, <3>2 DEF Reason
  <2>2. CASE M[b][c] # L[b][c]
    <3>1. M[b][c] = h.level[b][c] /\ h.level[b][c] # g.level[b][c]
      BY <1>1, <1>2, <1>3, <2>2
    <3>2. Home(c) \in more
      BY <1>6, <3>1 DEF Proper, IsOpen
    <3>3. Given(g, ks, b, c) \/ Feeds(h, b, c)
      BY <3>1 DEF Fed
    <3>4. ASSUME Feeds(h, b, c) PROVE FromBeside(g, more, M, b, c)
      <4>1. PICK n \in Cells, f \in Faces : /\ Step(n, f) = c /\ IsOpen(h, n) /\ Enters(h, n, f)
                                            /\ Offer(h, b, n, f) >= h.level[b][c]
        BY <3>4 DEF Feeds
      <4>2. Home(n) \in more /\ Reaches(g, n, f)
        BY <1>1, <4>1, SameSaid DEF IsOpen, Enters, Reaches
      <4>3. h.level[b][n] - Loss(g, b, c, f) >= h.level[b][c]
        BY <1>1, <4>1, SameSaid DEF Offer
      <4>4. M[b][n] >= h.level[b][n] /\ M[b][n] \in Int /\ h.level[b][n] \in Int /\ h.level[b][c] \in Int
        BY <1>4, <1>5, <1>2 DEF Levels
      <4>5. Loss(g, b, c, f) \in {0, 1}
        BY GridFacts
      <4> QED
        BY <3>1, <4>1, <4>2, <4>3, <4>4, <4>5 DEF FromBeside
    <3>5. ASSUME b = "sunlight", c \in mask, Home(c) \in ks, ~BlocksLight(g, c)
          PROVE  Reason(g, mask, more, M, b, c)
      <4>1. ~Of(g, c).clear => h.level["sunlight"][c] <= MaxLight - 1
        BY <1>1, SameSaid DEF Proper
      <4>2. M[b][c] <= Cap(g, c)
        BY <1>1, <1>2, <3>1, <3>5, <4>1 DEF Cap
      <4> QED
        BY <3>5, <4>2 DEF Reason
    <3> QED
      BY <3>2, <3>3, <3>4, <3>5 DEF Given, Reason, Shines
  <2> QED
    BY <2>1, <2>2
<1>7. Reasoned(g, mask, more, M)
  BY <1>4, <1>6 DEF Reasoned
<1> QED
  BY <1>5, <1>7, <1>2, <1>4 DEF Levels

\* A column of a sky mask is marked up to the sky, in the top rows of chunks.
MaskUp == \A c \in mask, d \in Cells : d[1] = c[1] /\ d[2] >= c[2] /\ d \in Row(Home(d), "top") => d \in mask

\* Clear cells that see the sky above a cell of a sky mask: in held chunks they
\* will have the light of the sky once nothing above them is missing.
Filled(g, hs) ==
    {d \in Cells : /\ Home(d) \in hs /\ Of(g, d).clear /\ Clearly(g, d)
                   /\ \E c \in mask : c[1] = d[1] /\ c[2] <= d[2]}

Full(g, hs, L) ==
    [b \in Banks |-> [c \in Cells |-> IF b = "sunlight" /\ c \in Filled(g, hs) THEN MaxLight ELSE L[b][c]]]

\* A level that is justified by the chunks of hs; a sky mask stands for the sky
\* under chunks that are not among them.
Stands(g, hs, M, b, c) ==
    \/ Shines(g, b, c)
    \/ /\ b = "sunlight" /\ c \in mask /\ Step(Home(c), "top") \in Chunks \ hs
       /\ ~BlocksLight(g, c) /\ M[b][c] <= Cap(g, c)
    \/ FromBeside(g, hs, M, b, c)

\* The cell above.
LEMMA CellAbove ==
    ASSUME NEW c \in Cells, ~IsTopRow(c), NEW a, a = Step(c, "top")
    PROVE  /\ a \in Cells /\ Step(a, "bottom") = c
           /\ a[1] = c[1] /\ a[2] = c[2] + 1 /\ c[2] \in Int /\ a[2] \in Int
           /\ Home(a) \in Chunks /\ Home(a) \in {Home(c), Step(Home(c), "top")}
           /\ Home(a) # Home(c) => c \in Row(Home(c), "top")
<1>1. c = <<c[1], c[2]>> /\ c[1] \in 0 .. Width * Side - 1 /\ c[2] \in 0 .. Height * Side - 1
  BY DEF Cells
<1>2. Width * Side - 1 \in Int /\ Height * Side - 1 \in Int
  BY SizesAssumption
<1>3. a = <<c[1], c[2] + 1>>
  BY DEF Step
<1>4. c[2] + 1 \in 0 .. Height * Side - 1
  BY <1>1, <1>2 DEF IsTopRow
<1>5. a \in Cells
  BY <1>1, <1>3, <1>4 DEF Cells
<1>6. "top" \in Faces /\ Opposite("top") = "bottom" /\ c \in Int \X Int
  BY Positions DEF Faces, Opposite
<1>7. Step(a, "bottom") = c
  BY <1>6, Stepping
<1>8. Home(a) \in {Home(c), Step(Home(c), "top")} /\ Home(a) \in Chunks /\ Home(c) \in Chunks
  BY <1>5, <1>6, Across, Positions
<1>9. Home(a) # Home(c) => c \in Row(Home(c), "top")
  BY <1>8 DEF Row, CellsOf
<1> QED
  BY <1>1, <1>2, <1>3, <1>5, <1>7, <1>8, <1>9

\* A filled cell lights the one below, as brightly as the sky does.
LEMMA FilledGives ==
    ASSUME NEW g \in Grids, NEW hs, NEW M \in Levels, NEW c \in Cells, ~BlocksLight(g, c),
           NEW a \in Cells, a \in Filled(g, hs), Step(a, "bottom") = c,
           M["sunlight"][a] = MaxLight, M["sunlight"][c] <= Cap(g, c)
    PROVE  FromBeside(g, hs, M, "sunlight", c)
<1>1. "bottom" \in Faces /\ MaxLight \in Int
  BY SizesAssumption DEF Faces
<1>2. Home(a) \in hs /\ Of(g, a).clear
  BY DEF Filled
<1>3. Reaches(g, a, "bottom")
  <2>1. Of(g, a) \in Kinds
    BY GridFacts
  <2>2. Of(g, a).passes = Faces
    BY <1>2, <2>1 DEF Kinds
  <2> QED
    BY <1>1, <2>2 DEF Reaches, Passes
<1>4. M["sunlight"][a] - Loss(g, "sunlight", c, "bottom") >= M["sunlight"][c]
  <2>1. M["sunlight"][c] \in 0 .. MaxLight
    BY DEF Levels, Banks
  <2>2. Cap(g, c) = MaxLight - Loss(g, "sunlight", c, "bottom")
    BY <1>1 DEF Cap, Loss
  <2>3. Loss(g, "sunlight", c, "bottom") \in {0, 1}
    BY GridFacts
  <2> QED
    BY <1>1, <2>1, <2>2, <2>3
<1> QED
  BY <1>1, <1>2, <1>3, <1>4 DEF FromBeside

\* With the filled cells the levels that have a reason are justified.
LEMMA FullStands ==
    ASSUME NEW g \in Grids, NEW hs \in SUBSET Chunks, MaskRows, MaskUp,
           NEW L, Reasoned(g, mask, hs, L), NEW M, M = Full(g, hs, L)
    PROVE  /\ M \in Levels /\ \A b \in Banks, c \in Cells : L[b][c] <= M[b][c]
           /\ \A b \in Banks, c \in Cells : M[b][c] # 0 => Home(c) \in hs /\ Stands(g, hs, M, b, c)
<1>1. L \in Levels /\ MaxLight \in Int /\ MaxLight >= 1 /\ "sunlight" \in Banks
  BY SizesAssumption DEF Reasoned, Banks
<1>2. \A b \in Banks, c \in Cells : L[b][c] \in 0 .. MaxLight
  BY <1>1 DEF Levels
<1>3. \A b \in Banks, c \in Cells :
         M[b][c] = IF b = "sunlight" /\ c \in Filled(g, hs) THEN MaxLight ELSE L[b][c]
  BY DEF Full
<1>4. M \in Levels
  <2>1. \A b \in Banks, c \in Cells :
           (IF b = "sunlight" /\ c \in Filled(g, hs) THEN MaxLight ELSE L[b][c]) \in 0 .. MaxLight
    BY <1>1, <1>2
  <2> QED
    BY <2>1 DEF Full, Levels
<1>5. \A b \in Banks, c \in Cells : L[b][c] <= M[b][c]
  BY <1>1, <1>2, <1>3
<1>6. ASSUME NEW c \in Cells, c \in Filled(g, hs), ~IsTopRow(c)
      PROVE  Stands(g, hs, M, "sunlight", c)
  <2> PICK a : a = Step(c, "top")
    OBVIOUS
  <2>1. /\ a \in Cells /\ Step(a, "bottom") = c
        /\ a[1] = c[1] /\ a[2] = c[2] + 1 /\ c[2] \in Int /\ a[2] \in Int
        /\ Home(a) \in Chunks /\ Home(a) \in {Home(c), Step(Home(c), "top")}
        /\ Home(a) # Home(c) => c \in Row(Home(c), "top")
    BY <1>6, CellAbove
  <2>2. /\ Home(c) \in hs /\ Of(g, c).clear /\ Clearly(g, c)
        /\ \E m \in mask : m[1] = c[1] /\ m[2] <= c[2]
    BY <1>6 DEF Filled
  <2>3. ~BlocksLight(g, c) /\ M["sunlight"][c] = MaxLight /\ Cap(g, c) = MaxLight
    <3>1. Of(g, c) \in Kinds
      BY GridFacts
    <3> QED
      BY <1>1, <1>3, <1>6, <2>2, <3>1 DEF Kinds, BlocksLight, Cap
  <2>4. CASE Home(a) \in hs
    <3>1. \A d \in Cells : d[2] \in Int
      BY SizesAssumption DEF Cells
    <3>2. Of(g, a).clear /\ Clearly(g, a)
      BY <2>1, <2>2, <3>1 DEF Clearly
    <3>3. \E m \in mask : m[1] = a[1] /\ m[2] <= a[2]
      <4>1. PICK m \in mask : m[1] = c[1] /\ m[2] <= c[2]
        BY <2>2
      <4>2. m[2] \in Int
        BY <3>1 DEF MaskRows
      <4> QED
        BY <2>1, <4>1, <4>2
    <3>4. a \in Filled(g, hs)
      BY <2>1, <2>4, <3>2, <3>3 DEF Filled
    <3>5. M["sunlight"][a] = MaxLight
      BY <1>1, <1>3, <2>1, <3>4
    <3>6. M["sunlight"][c] <= Cap(g, c)
      BY <1>1, <2>3
    <3>7. FromBeside(g, hs, M, "sunlight", c)
      BY <1>4, <2>1, <2>3, <3>4, <3>5, <3>6, FilledGives
    <3> QED
      BY <3>7 DEF Stands
  <2>5. CASE Home(a) \notin hs
    <3>1. Home(a) # Home(c) /\ Step(Home(c), "top") \in Chunks \ hs
      BY <2>1, <2>2, <2>5
    <3>2. c \in mask
      <4>1. PICK m \in mask : m[1] = c[1] /\ m[2] <= c[2]
        BY <2>2
      <4>2. m[2] \in Int
        BY SizesAssumption DEF MaskRows, Cells
      <4>3. c[2] >= m[2] /\ c[1] = m[1] /\ c \in Row(Home(c), "top")
        BY <2>1, <3>1, <4>1, <4>2
      <4> QED
        BY <4>3 DEF MaskUp
    <3> QED
      BY <1>1, <2>3, <3>1, <3>2 DEF Stands
  <2> QED
    BY <2>4, <2>5
<1>7. ASSUME NEW c \in Cells, ~IsTopRow(c), c \in mask, ~BlocksLight(g, c), Clearly(g, c),
             M["sunlight"][c] <= Cap(g, c)
      PROVE  Stands(g, hs, M, "sunlight", c)
  <2> PICK a : a = Step(c, "top")
    OBVIOUS
  <2>1. /\ a \in Cells /\ Step(a, "bottom") = c
        /\ a[1] = c[1] /\ a[2] = c[2] + 1 /\ c[2] \in Int /\ a[2] \in Int
        /\ Home(a) \in Chunks /\ Home(a) \in {Home(c), Step(Home(c), "top")}
    BY <1>7, CellAbove
  <2>2. Home(a) # Home(c) /\ Home(a) = Step(Home(c), "top")
    BY <1>7, <2>1 DEF MaskRows, Row
  <2>3. CASE Home(a) \notin hs
    BY <1>7, <2>1, <2>2, <2>3 DEF Stands
  <2>4. CASE Home(a) \in hs
    <3>1. \A d \in Cells : d[2] \in Int
      BY SizesAssumption DEF Cells
    <3>2. Of(g, a).clear /\ Clearly(g, a)
      BY <1>7, <2>1, <3>1 DEF Clearly
    <3>3. a \in Filled(g, hs)
      <4>1. c[1] = a[1] /\ c[2] <= a[2]
        BY <2>1
      <4> QED
        BY <1>7, <2>1, <2>4, <3>2, <4>1 DEF Filled
    <3>4. M["sunlight"][a] = MaxLight
      BY <1>1, <1>3, <2>1, <3>3
    <3>5. FromBeside(g, hs, M, "sunlight", c)
      BY <1>4, <1>7, <2>1, <3>3, <3>4, FilledGives
    <3> QED
      BY <3>5 DEF Stands
  <2> QED
    BY <2>3, <2>4
<1>8. ASSUME NEW b \in Banks, NEW c \in Cells, M[b][c] # 0
      PROVE  Home(c) \in hs /\ Stands(g, hs, M, b, c)
  <2>1. CASE b = "sunlight" /\ c \in Filled(g, hs)
    <3>1. Home(c) \in hs
      BY <2>1 DEF Filled
    <3>2. IsTopRow(c) => Stands(g, hs, M, b, c)
      BY <2>1 DEF Stands, Shines
    <3> QED
      BY <1>6, <2>1, <3>1, <3>2
  <2>2. CASE ~(b = "sunlight" /\ c \in Filled(g, hs))
    <3>1. M[b][c] = L[b][c] /\ Home(c) \in hs /\ Reason(g, mask, hs, L, b, c)
      BY <1>3, <1>8, <2>2 DEF Reasoned
    <3>2. Shines(g, b, c) => Stands(g, hs, M, b, c)
      BY DEF Stands
    <3>3. b = "sunlight" /\ IsTopRow(c) => Shines(g, b, c)
      BY DEF Shines
    <3>4. ASSUME b = "sunlight", c \in mask, ~BlocksLight(g, c), Clearly(g, c), L[b][c] <= Cap(g, c)
          PROVE  Stands(g, hs, M, b, c)
      BY <1>7, <3>1, <3>2, <3>3, <3>4
    <3>5. ASSUME FromBeside(g, hs, L, b, c) PROVE Stands(g, hs, M, b, c)
      <4>1. \A n \in Cells : M[b][n] >= L[b][n]
        BY <1>2, <1>4, <1>5 DEF Levels
      <4>2. FromBeside(g, hs, M, b, c)
        BY <1>1, <1>4, <3>1, <3>5, <4>1, FromMore
      <4> QED
        BY <4>2 DEF Stands
    <3> QED
      BY <3>1, <3>2, <3>4, <3>5 DEF Reason
  <2> QED
    BY <2>1, <2>2
<1> QED
  BY <1>4, <1>5, <1>8

\* The chunks that were lit by their masks, with what is above them never held.
Bare == {n \in lit : Step(n, "top") \in Chunks \ held}

\* No cell has more light than there is reason for, and none of that is too
\* bright for chunks that are away; and the masks have been applied.
NotTooBright ==
    /\ MaskRows /\ MaskUp /\ ready \subseteq held
    /\ missed = {} =>
          /\ \E L : Reasoned(Now, mask, held, L) /\ \A b \in Banks, c \in Cells : level[b][c] <= L[b][c]
          /\ Skylit(Now, Bare)

\* Where no chunk is missing light is as bright as it was ever justified: light
\* from beside has gone on, cell after cell from the brightest ones.
LEMMA AllReached ==
    ASSUME LightIsRight, overlooked = {}, Whole, Skylit(Now, Bare), NEW M \in Levels,
           \A b \in Banks, c \in Cells : M[b][c] # 0 => Home(c) \in held /\ Stands(Now, held, M, b, c)
    PROVE  \A b \in Banks, c \in Cells : level[b][c] >= M[b][c]
<1> DEFINE Top(n) == \A b \in Banks, c \in Cells : 2 * M[b][c] + c[2] >= Rounds - n => level[b][c] >= M[b][c]
           Good == {n \in 0 .. Rounds : Top(n)}
<1>1. /\ MaxLight \in Nat /\ Height * Side \in Nat /\ Rounds \in Nat
      /\ \A c \in Cells : c[2] \in 0 .. Height * Side - 1 /\ c[2] \in Nat
  <2>1. MaxLight \in Nat /\ Height * Side \in Nat
    BY SizesAssumption
  <2> QED
    BY <2>1 DEF Rounds, Cells
<1>2. \A b \in Banks, c \in Cells : M[b][c] \in 0 .. MaxLight
  BY DEF Levels
<1>3. /\ Now \in Grids /\ Now.level = level /\ Now.open = ready /\ lit \subseteq ready /\ lit \subseteq held
      /\ held \subseteq lit /\ LitEnough
  BY RightIsEnough DEF LightIsRight, Lightened, Proper, Now, TypeOK, Whole
<1>4. \A b \in Banks, c \in Cells : level[b][c] \in 0 .. MaxLight
  BY <1>3, GridFacts
<1>5. Top(0)
  <2> SUFFICES ASSUME NEW b \in Banks, NEW c \in Cells, 2 * M[b][c] + c[2] >= Rounds PROVE FALSE
    BY <1>1
  <2>1. M[b][c] \in 0 .. MaxLight /\ c[2] \in 0 .. Height * Side - 1
    BY <1>1, <1>2
  <2> QED
    BY <1>1, <2>1 DEF Rounds
<1>6. ASSUME NEW m \in 1 .. Rounds, Top(m - 1) PROVE Top(m)
  <2> SUFFICES ASSUME NEW b \in Banks, NEW c \in Cells, 2 * M[b][c] + c[2] >= Rounds - m
               PROVE  level[b][c] >= M[b][c]
    OBVIOUS
  <2>1. M[b][c] \in 0 .. MaxLight /\ level[b][c] \in 0 .. MaxLight /\ c[2] \in Nat
    BY <1>1, <1>2, <1>4
  <2>2. CASE M[b][c] = 0
    BY <1>1, <2>1, <2>2
  <2>3. CASE M[b][c] # 0
    <3>1. Home(c) \in held /\ Home(c) \in lit /\ Stands(Now, held, M, b, c)
      BY <1>3, <2>3
    <3>2. CASE Shines(Now, b, c)
      <4>1. level[b][c] = MaxLight
        BY <1>3, <3>1, <3>2 DEF LitEnough, Shines, Lamp
      <4> QED
        BY <1>1, <2>1, <4>1
    <3>3. ASSUME b = "sunlight", c \in mask, Step(Home(c), "top") \in Chunks \ held,
                 ~BlocksLight(Now, c), M[b][c] <= Cap(Now, c)
          PROVE  level[b][c] >= M[b][c]
      <4>1. Home(c) \in Bare
        BY <3>1, <3>3 DEF Bare
      <4>2. level[b][c] >= Cap(Now, c)
        BY <1>3, <3>3, <4>1 DEF Skylit
      <4>3. Cap(Now, c) \in Int
        BY <1>1 DEF Cap
      <4> QED
        BY <1>1, <2>1, <3>3, <4>2, <4>3
    <3>4. ASSUME FromBeside(Now, held, M, b, c) PROVE level[b][c] >= M[b][c]
      <4>1. PICK n \in Cells, f \in Faces : /\ Step(n, f) = c /\ Home(n) \in held /\ Reaches(Now, n, f)
                                            /\ M[b][n] - Loss(Now, b, c, f) >= M[b][c]
        BY <3>4 DEF FromBeside
      <4>2. /\ Loss(Now, b, c, f) \in {0, 1} /\ M[b][n] \in 0 .. MaxLight
            /\ level[b][n] \in 0 .. MaxLight /\ n[2] \in Nat
        BY <1>1, <1>2, <1>3, <1>4, GridFacts
      <4>3. 2 * M[b][n] + n[2] >= 2 * M[b][c] + c[2] + 1
        <5>1. CASE Loss(Now, b, c, f) = 1
          <6>1. c[2] <= n[2] + 1
            <7>1. n = <<n[1], n[2]>>
              BY DEF Cells
            <7> QED
              BY <4>1, <4>2, <7>1 DEF Step
          <6>2. M[b][n] >= M[b][c] + 1
            BY <1>1, <2>1, <4>1, <4>2, <5>1
          <6> QED
            BY <1>1, <2>1, <4>2, <6>1, <6>2
        <5>2. CASE Loss(Now, b, c, f) = 0
          <6>1. f = "bottom"
            BY <5>2 DEF Loss
          <6>2. c[2] = n[2] - 1
            <7>1. n = <<n[1], n[2]>> /\ c = <<n[1], n[2] - 1>>
              BY <4>1, <6>1 DEF Cells, Step
            <7> QED
              BY <7>1
          <6>3. M[b][n] >= M[b][c]
            BY <1>1, <2>1, <4>1, <4>2, <5>2
          <6> QED
            BY <1>1, <2>1, <4>2, <6>2, <6>3
        <5> QED
          BY <4>2, <5>1, <5>2
      <4>4. level[b][n] >= M[b][n]
        <5>1. 2 * M[b][n] + n[2] >= Rounds - (m - 1)
          BY <1>1, <2>1, <4>2, <4>3
        <5> QED
          BY <1>6, <5>1
      <4>5. M[b][n] # 0 /\ Home(n) \in lit
        BY <1>1, <1>3, <2>1, <2>3, <4>1, <4>2
      <4>6. ~BlocksLight(Now, n)
        <5>1. Stands(Now, held, M, b, n)
          BY <4>5
        <5>2. Of(Now, n).emits => ~BlocksLight(Now, n)
          BY <4>1 DEF Whole
        <5>3. IsTopRow(n) => ~BlocksLight(Now, n)
          <6>1. IsTopRow(n) => Of(Now, n).clear /\ Of(Now, n) \in Kinds
            BY <1>3, GridFacts DEF LightIsRight, Lightened, Sky
          <6> QED
            BY <6>1 DEF Kinds, BlocksLight
        <5> QED
          BY <5>1, <5>2, <5>3 DEF Stands, Shines, FromBeside, Reaches
      <4>7. Enters(Now, n, f)
        BY <1>3, <3>1, <4>1 DEF Enters, IsOpen
      <4>8. level[b][c] >= level[b][n] - Loss(Now, b, c, f)
        <5>1. {n, c} \cap overlooked = {}
          OBVIOUS
        <5> QED
          BY <1>3, <3>1, <4>1, <4>5, <4>6, <4>7, <5>1 DEF LitEnough, Offer
      <4> QED
        BY <1>1, <2>1, <4>1, <4>2, <4>4, <4>8
    <3> QED
      BY <1>1, <2>1, <3>1, <3>2, <3>3, <3>4 DEF Stands
  <2> QED
    BY <2>2, <2>3
<1>7. 0 .. Rounds \subseteq Good
  <2>1. 0 \in Good /\ \A n \in 1 .. Rounds : n - 1 \in Good => n \in Good
    <3>1. \A n \in 1 .. Rounds : n \in 0 .. Rounds
      BY <1>1
    <3>2. 0 \in 0 .. Rounds
      BY <1>1
    <3> HIDE DEF Top
    <3> QED
      BY <1>5, <1>6, <3>1, <3>2
  <2> HIDE DEF Good
  <2> QED
    BY <1>1, <2>1, Reaching
<1>8. Top(Rounds)
  <2> HIDE DEF Top
  <2> QED
    BY <1>1, <1>7
<1>9. ASSUME NEW b \in Banks, NEW c \in Cells PROVE level[b][c] >= M[b][c]
  <2>1. M[b][c] \in 0 .. MaxLight /\ c[2] \in Nat
    BY <1>1, <1>2
  <2>2. 2 * M[b][c] + c[2] >= Rounds - Rounds
    BY <1>1, <2>1
  <2> QED
    BY <1>8, <2>2
<1> QED
  BY <1>9

\* So all light there is is justified.
LEMMA AllJustified ==
    ASSUME LightIsRight, NotTooBright, missed = {}, Whole
    PROVE  \A b \in Banks, c \in Cells : level[b][c] # 0 =>
              /\ Home(c) \in lit
              /\ \/ Shines(Now, b, c)
                 \/ b = "sunlight" /\ c \in mask /\ Step(Home(c), "top") \in Chunks \ held
                 \/ Feeds(Now, b, c)
<1>1. PICK L : Reasoned(Now, mask, held, L) /\ \A b \in Banks, c \in Cells : level[b][c] <= L[b][c]
  BY DEF NotTooBright
<1> PICK M : M = Full(Now, held, L)
  OBVIOUS
<1>2. /\ Now \in Grids /\ Now.level = level /\ Now.open = ready /\ lit \subseteq ready
      /\ held \subseteq lit /\ held \in SUBSET Chunks
  BY DEF LightIsRight, Lightened, Proper, Now, TypeOK, Whole
<1>3. /\ M \in Levels /\ \A b \in Banks, c \in Cells : L[b][c] <= M[b][c]
      /\ \A b \in Banks, c \in Cells : M[b][c] # 0 => Home(c) \in held /\ Stands(Now, held, M, b, c)
  BY <1>1, <1>2, FullStands DEF NotTooBright
<1>4. \A b \in Banks, c \in Cells : level[b][c] >= M[b][c]
  <2>1. overlooked = {}
    BY DEF LightIsRight, Remembered
  <2> QED
    BY <1>3, <2>1, AllReached DEF NotTooBright
<1>5. \A b \in Banks, c \in Cells : level[b][c] = M[b][c]
  <2>1. \A b \in Banks, c \in Cells :
           level[b][c] \in 0 .. MaxLight /\ L[b][c] \in 0 .. MaxLight /\ M[b][c] \in 0 .. MaxLight
    BY <1>1, <1>2, <1>3, GridFacts DEF Reasoned, Levels
  <2>2. MaxLight \in Int
    BY SizesAssumption
  <2> QED
    BY <1>1, <1>3, <1>4, <2>1, <2>2
<1>6. ASSUME NEW b \in Banks, NEW c \in Cells, level[b][c] # 0
      PROVE  /\ Home(c) \in lit
             /\ \/ Shines(Now, b, c)
                \/ b = "sunlight" /\ c \in mask /\ Step(Home(c), "top") \in Chunks \ held
                \/ Feeds(Now, b, c)
  <2>1. Home(c) \in held /\ Stands(Now, held, M, b, c)
    BY <1>3, <1>5, <1>6
  <2>2. ASSUME FromBeside(Now, held, M, b, c) PROVE Feeds(Now, b, c)
    <3>1. PICK n \in Cells, f \in Faces : /\ Step(n, f) = c /\ Home(n) \in held /\ Reaches(Now, n, f)
                                          /\ M[b][n] - Loss(Now, b, c, f) >= M[b][c]
      BY <2>2 DEF FromBeside
    <3>2. IsOpen(Now, n) /\ IsOpen(Now, c)
      BY <1>2, <2>1, <3>1 DEF IsOpen
    <3>3. Enters(Now, n, f) /\ Offer(Now, b, n, f) >= level[b][c]
      BY <1>2, <1>5, <3>1, <3>2 DEF Enters, Offer
    <3> QED
      BY <1>2, <3>1, <3>2, <3>3 DEF Feeds
  <2> QED
    BY <1>2, <2>1, <2>2 DEF Stands
<1> QED
  BY <1>6

\* What has to be shown of a step.
LEMMA StaysSo ==
    ASSUME NotTooBright, mask' = mask, ready' \subseteq held',
           missed' = {} => \E L : /\ Reasoned(Now', mask, held', L)
                                  /\ \A b \in Banks, c \in Cells : level'[b][c] <= L[b][c],
           missed' = {} => \A c \in mask : Home(c) \in Bare' /\ ~BlocksLight(Now', c) =>
                              level'["sunlight"][c] >= Cap(Now', c)
    PROVE  NotTooBright'
<1>1. MaskRows' /\ MaskUp'
  BY DEF NotTooBright, MaskRows, MaskUp
<1>2. ASSUME missed' = {} PROVE Skylit(Now, Bare)'
  <2>1. Now'.level = level'
    BY DEF Now
  <2> QED
    BY <1>2, <2>1 DEF Skylit
<1> QED
  BY <1>1, <1>2 DEF NotTooBright

\* Without light nothing needs a reason.
LEMMA DarkReasoned ==
    ASSUME NEW g, NEW sky, NEW hs, NEW L, L = [b \in Banks |-> [c \in Cells |-> 0]]
    PROVE  Reasoned(g, sky, hs, L)
<1>1. 0 \in 0 .. MaxLight
  BY SizesAssumption
<1>2. L \in Levels /\ \A b \in Banks, c \in Cells : L[b][c] = 0
  BY <1>1 DEF Levels
<1> QED
  BY <1>2 DEF Reasoned

LEMMA InitNotTooBright == Init => NotTooBright
<1> SUFFICES ASSUME Init PROVE NotTooBright
  OBVIOUS
<1>1. /\ lit = {} /\ ready = {} /\ level = [b \in Banks |-> [c \in Cells |-> 0]]
      /\ mask = {c \in Cells : /\ c \in Row(Home(c), "top")
                               /\ \A y \in 0 .. Height * Side - 1 :
                                     y > c[2] => ~definition[data[<<c[1], y>>]].blocks}
  BY DEF Init
<1>2. MaskRows
  BY <1>1 DEF MaskRows
<1>3. MaskUp
  <2> SUFFICES ASSUME NEW c \in mask, NEW d \in Cells, d[1] = c[1], d[2] >= c[2], d \in Row(Home(d), "top")
               PROVE  d \in mask
    BY DEF MaskUp
  <2>1. c[2] \in Int /\ d[2] \in Int /\ \A y \in 0 .. Height * Side - 1 : y \in Int
    BY <1>1, SizesAssumption DEF Cells
  <2>2. \A y \in 0 .. Height * Side - 1 : y > d[2] => y > c[2]
    BY <2>1
  <2> QED
    BY <1>1, <2>2
<1>4. Reasoned(Now, mask, held, level)
  BY <1>1, DarkReasoned
<1>5. \A b \in Banks, c \in Cells : level[b][c] <= level[b][c]
  BY <1>1
<1>6. Skylit(Now, Bare)
  BY <1>1 DEF Skylit, Bare
<1> QED
  BY <1>1, <1>2, <1>3, <1>4, <1>5, <1>6 DEF NotTooBright

\* World_AddChunk changes nothing of it.
LEMMA AddNotTooBright ==
    ASSUME NotTooBright, NEW k \in Chunks, World_AddChunk(k)
    PROVE  NotTooBright'
<1>1. UNCHANGED <<definition, data, mask, ready, lit, level, incomplete, held, missed>>
  BY DEF World_AddChunk, lightVars, history
<1>2. Now' = Now
  BY <1>1 DEF Now
<1> QED
  BY <1>1, <1>2 DEF NotTooBright, MaskRows, MaskUp, Bare, Skylit

\* World_RemoveChunk: less light, for which there are the same reasons.
LEMMA RemoveNotTooBright ==
    ASSUME LightIsRight, NotTooBright, NEW k \in Chunks, World_RemoveChunk(k)
    PROVE  NotTooBright'
<1> PICK h : h = Now'
  OBVIOUS
<1>1. /\ UNCHANGED <<definition, data, mask, held, missed>>
      /\ ready' = ready \ {k} /\ lit' = lit \ {k}
      /\ level' = [b \in Banks |-> [c \in Cells |-> IF Home(c) = k THEN 0 ELSE level[b][c]]]
  BY DEF World_RemoveChunk, history
<1>2. h.definition = Now.definition /\ h.data = Now.data /\ Now \in Grids /\ Now.level = level
  BY <1>1 DEF LightIsRight, Lightened, Proper, Now
<1>3. \A b \in Banks, c \in Cells : level'[b][c] = IF Home(c) = k THEN 0 ELSE level[b][c]
  BY <1>1
<1>4. ASSUME missed' = {}
      PROVE  \E L : Reasoned(h, mask, held', L) /\ \A b \in Banks, c \in Cells : level'[b][c] <= L[b][c]
  <2>1. PICK L : Reasoned(Now, mask, held, L) /\ \A b \in Banks, c \in Cells : level[b][c] <= L[b][c]
    BY <1>1, <1>4 DEF NotTooBright
  <2>2. Reasoned(h, mask, held, L)
    BY <1>2, <2>1, SameReasoned
  <2>3. \A b \in Banks, c \in Cells : L[b][c] \in 0 .. MaxLight /\ level[b][c] \in 0 .. MaxLight
    BY <1>2, <2>1, GridFacts DEF Reasoned, Levels
  <2>4. \A b \in Banks, c \in Cells : level'[b][c] <= L[b][c]
    BY <1>3, <2>1, <2>3, SizesAssumption
  <2> QED
    BY <1>1, <2>2, <2>4
<1>5. ASSUME missed' = {}, NEW c \in mask, Home(c) \in Bare', ~BlocksLight(h, c)
      PROVE  level'["sunlight"][c] >= Cap(h, c)
  <2>1. Home(c) \in Bare /\ Home(c) # k
    BY <1>1, <1>5 DEF Bare
  <2>2. BlocksLight(h, c) = BlocksLight(Now, c) /\ Cap(h, c) = Cap(Now, c)
    BY <1>2 DEF BlocksLight, Cap, Of
  <2>3. level["sunlight"][c] >= Cap(Now, c)
    BY <1>1, <1>2, <1>5, <2>1, <2>2 DEF NotTooBright, Skylit
  <2>4. c \in Cells /\ "sunlight" \in Banks
    BY DEF NotTooBright, MaskRows, Banks
  <2> QED
    BY <1>3, <2>1, <2>2, <2>3, <2>4
<1>6. ready' \subseteq held'
  BY <1>1 DEF NotTooBright
<1> QED
  BY <1>1, <1>4, <1>5, <1>6, StaysSo

\* World_InvalidateBlockDefinitions: no light.
LEMMA InvalidateNotTooBright ==
    ASSUME NotTooBright, NEW d \in Definitions, World_InvalidateBlockDefinitions(d)
    PROVE  NotTooBright'
<1>1. /\ UNCHANGED <<mask, ready, held, missed>> /\ lit' = {}
      /\ level' = [b \in Banks |-> [c \in Cells |-> 0]]
  BY DEF World_InvalidateBlockDefinitions, history
<1>2. Reasoned(Now', mask, held', level') /\ \A b \in Banks, c \in Cells : level'[b][c] <= level'[b][c]
  BY <1>1, DarkReasoned
<1>3. Bare' = {}
  BY <1>1 DEF Bare
<1>4. ready' \subseteq held'
  BY <1>1 DEF NotTooBright
<1> QED
  BY <1>1, <1>2, <1>3, <1>4, StaysSo

LEMMA ToBeLit ==
    ASSUME NEW k \in Chunks, NEW n \in ToLight(k)
    PROVE  n \in Chunks /\ n \in present \ lit
<1>1. n \in Chunks /\ n[1] = k[1] /\ n[2] >= k[2] /\ \A y \in k[2] .. n[2] : <<k[1], y>> \in present \ lit
  BY DEF ToLight
<1>2. k[2] \in Int /\ n[2] \in Int /\ n = <<k[1], n[2]>>
  BY <1>1, SizesAssumption DEF Chunks
<1>3. n[2] \in k[2] .. n[2]
  BY <1>1, <1>2
<1> QED
  BY <1>1, <1>2, <1>3

\* A held chunk above one that is to be lit is lit before it.
LEMMA LitFromAbove ==
    ASSUME NEW k \in Chunks, NEW n \in ToLight(k), NEW a, a = Step(n, "top"),
           a \in Chunks, a \in present \ lit
    PROVE  a \in ToLight(k)
<1>1. n \in Chunks /\ n[1] = k[1] /\ n[2] >= k[2] /\ \A y \in k[2] .. n[2] : <<k[1], y>> \in present \ lit
  BY DEF ToLight
<1>2. k[2] \in Int /\ n[2] \in Int /\ a = <<k[1], n[2] + 1>>
  BY <1>1, SizesAssumption DEF Chunks, Step
<1>3. a[1] = k[1] /\ a[2] = n[2] + 1
  BY <1>2
<1>4. \A y \in k[2] .. a[2] : y \in k[2] .. n[2] \/ y = n[2] + 1
  BY <1>2, <1>3
<1>5. a[2] >= k[2]
  BY <1>1, <1>2, <1>3
<1> QED
  BY <1>1, <1>2, <1>3, <1>4, <1>5 DEF ToLight

\* A mask that does not lie: nothing above its cells but clear ones.
LEMMA TrueMask ==
    ASSUME MaskRows, NEW c \in mask, Step(Home(c), "top") \notin present, ~MaskLies(Home(c)),
           NEW g, g.definition = definition, g.data = data
    PROVE  Clearly(g, c)
<1>1. ClearAbove(c)
  BY DEF MaskLies, MaskRows
<1> SUFFICES ASSUME NEW d \in Cells, d[1] = c[1], d[2] > c[2] PROVE Of(g, d).clear
  BY DEF Clearly
<1>2. d[2] \in 0 .. Height * Side - 1 /\ d = <<c[1], d[2]>>
  BY DEF Cells
<1>3. definition[data[<<c[1], d[2]>>]].clear
  BY <1>1, <1>2 DEF ClearAbove
<1> QED
  BY <1>2, <1>3 DEF Of

\* World_ReadChunksQueues: what is added comes from lamps and from masks that do
\* not lie.
LEMMA ReadNotTooBright ==
    ASSUME LightIsRight, NotTooBright, NEW k \in Chunks, World_ReadChunksQueues(k)
    PROVE  NotTooBright'
<1> PICK made, g, h : made = Chunk_Generate(k) /\ g = Opened(k) /\ h = Now'
  OBVIOUS
<1>1. /\ UNCHANGED <<definition, data, mask, present>>
      /\ ready' = made.g.open /\ lit' = made.lit /\ level' = made.g.level
      /\ held' = held \cup made.lit
      /\ missed' = missed \cup (IF \E n \in made.lit \ lit : MaskLies(n) THEN {"mask"} ELSE {})
  BY DEF World_ReadChunksQueues
<1>2. /\ Lightened(Now, lit, overlooked) /\ lit \subseteq ready /\ ready \subseteq present
      /\ present \subseteq Chunks /\ lit \subseteq held
  BY DEF LightIsRight, TypeOK
<1>3. /\ Improves(g, made.g) /\ made.lit = lit \cup ToLight(k)
      /\ Fed(g, made.g, Unroofed(k)) /\ (MaskRows => Skylit(made.g, Unroofed(k)))
  BY <1>2, Generates
<1>4. g \in Grids /\ g.open = ready \cup ToLight(k) /\ g.level = level
  BY <1>2, OpenedIs DEF Proper
<1>5. /\ g.definition = definition /\ g.data = data
      /\ Now.definition = definition /\ Now.data = data /\ Now.level = level
      /\ h.definition = definition' /\ h.data = data' /\ h.level = level'
  BY DEF Opened, Now
<1>6. /\ Proper(made.g, overlooked) /\ Brightens(g, made.g) /\ SameWorld(g, made.g) /\ made.g \in Grids
  BY <1>3 DEF Improves, Brightens, Proper
<1>7. made.g.open = ready \cup ToLight(k) /\ made.g.definition = definition /\ made.g.data = data
  BY <1>4, <1>5, <1>6 DEF SameWorld
<1>8. MaskRows /\ ready' \subseteq held' /\ held \subseteq held'
  BY <1>1, <1>3, <1>7 DEF NotTooBright
<1>9. ASSUME missed' = {} PROVE missed = {} /\ \A n \in ToLight(k) : ~MaskLies(n)
  BY <1>1, <1>3, <1>9, ToBeLit
<1>10. ASSUME missed' = {}, NEW c \in mask, Home(c) \in Unroofed(k) PROVE Clearly(g, c)
  <2>1. Step(Home(c), "top") \notin present /\ ~MaskLies(Home(c))
    BY <1>9, <1>10 DEF Unroofed
  <2> QED
    BY <1>5, <1>8, <2>1, TrueMask
<1>11. ASSUME missed' = {}
       PROVE  \E M : Reasoned(h, mask, held', M) /\ \A b \in Banks, c \in Cells : level'[b][c] <= M[b][c]
  <2>1. PICK L : Reasoned(Now, mask, held, L) /\ \A b \in Banks, c \in Cells : level[b][c] <= L[b][c]
    BY <1>9, <1>11 DEF NotTooBright
  <2>2. Reasoned(g, mask, held, L)
    BY <1>5, <2>1, SameReasoned
  <2>3. \A c \in mask : Home(c) \in Unroofed(k) => Clearly(g, c)
    BY <1>10, <1>11
  <2>4. made.g.open \subseteq held'
    BY <1>1, <1>8
  <2> PICK m, ks, more : m = made.g /\ ks = Unroofed(k) /\ more = held'
    OBVIOUS
  <2>5. PICK M : Reasoned(g, mask, more, M) /\ \A b \in Banks, c \in Cells : m.level[b][c] <= M[b][c]
    <3>1. /\ Proper(m, overlooked) /\ Brightens(g, m) /\ Fed(g, m, ks)
          /\ \A c \in mask : Home(c) \in ks => Clearly(g, c)
      BY <1>3, <1>6, <2>3
    <3>2. /\ held \subseteq more /\ m.open \subseteq more
          /\ \A b \in Banks, c \in Cells : g.level[b][c] <= L[b][c]
      BY <1>4, <1>8, <2>1, <2>4
    <3>3. missed = {}
      BY <1>9, <1>11
    <3>4. overlooked = {}
      BY <3>3 DEF LightIsRight, Remembered
    <3>5. g \in Grids /\ Reasoned(g, mask, held, L)
      BY <1>4, <2>2
    <3> QED
      BY <3>1, <3>2, <3>4, <3>5, MoreReasoned, ZenonT(60)
  <2>6. Reasoned(h, mask, more, M)
    BY <1>1, <1>5, <2>5, SameReasoned
  <2> QED
    BY <1>1, <2>5, <2>6
<1>12. Bare' \subseteq Bare \cup Unroofed(k)
  <2> SUFFICES ASSUME NEW n \in lit', Step(n, "top") \in Chunks \ held' PROVE n \in Bare \cup Unroofed(k)
    BY DEF Bare
  <2>1. CASE n \in lit
    BY <1>8, <2>1 DEF Bare
  <2>2. CASE n \notin lit
    <3>1. n \in ToLight(k)
      BY <1>1, <1>3, <2>2
    <3>2. Step(n, "top") \notin ToLight(k) /\ Step(n, "top") \notin lit
      BY <1>1, <1>2, <1>3
    <3>3. Step(n, "top") \notin present
      BY <3>1, <3>2, LitFromAbove
    <3> QED
      BY <3>1, <3>3 DEF Unroofed
  <2> QED
    BY <2>1, <2>2
<1>13. ASSUME missed' = {}, NEW c \in mask, Home(c) \in Bare', ~BlocksLight(h, c)
       PROVE  level'["sunlight"][c] >= Cap(h, c)
  <2>1. Skylit(Now, Bare)
    BY <1>9, <1>13 DEF NotTooBright
  <2>2. \A x : BlocksLight(g, x) = BlocksLight(Now, x) /\ Cap(g, x) = Cap(Now, x)
    BY <1>5 DEF BlocksLight, Cap, Of
  <2>3. Skylit(g, Bare)
    BY <1>4, <1>5, <2>1, <2>2 DEF Skylit
  <2>4. Skylit(made.g, Bare) /\ Skylit(made.g, Unroofed(k))
    BY <1>3, <1>4, <1>6, <1>8, <2>3, SkylitStays
  <2>5. BlocksLight(h, c) = BlocksLight(made.g, c) /\ Cap(h, c) = Cap(made.g, c)
    BY <1>1, <1>5, <1>7 DEF BlocksLight, Cap, Of
  <2>6. made.g.level["sunlight"][c] >= Cap(made.g, c)
    BY <1>12, <1>13, <2>4, <2>5 DEF Skylit
  <2> QED
    BY <1>1, <2>5, <2>6
<1> QED
  BY <1>1, <1>8, <1>11, <1>13, StaysSo

\* What is above a cell is in its chunk or above it.
LEMMA HomeBelow ==
    ASSUME NEW c \in Cells, NEW d \in Cells, d[1] = c[1], d[2] > c[2]
    PROVE  Home(c) = Home(d) \/ Home(c) \in Under(Home(d))
<1>1. c[2] \in Int /\ d[2] \in Int /\ Side \in Nat \ {0}
  BY SizesAssumption DEF Cells
<1> DEFINE p == c[2] \div Side
           q == d[2] \div Side
<1>2. /\ p \in Int /\ q \in Int
      /\ Side * p <= c[2] /\ c[2] < Side * p + Side /\ Side * q <= d[2] /\ d[2] < Side * q + Side
  BY <1>1, Dividing
<1>3. Home(c) = <<c[1] \div Side, p>> /\ Home(d) = <<c[1] \div Side, q>>
  BY DEF Home
<1> HIDE DEF p, q
<1>4. p <= q
  <2> SUFFICES ASSUME p >= q + 1 PROVE FALSE
    BY <1>2
  <2>1. Side * p >= Side * (q + 1)
    BY <1>1, <1>2
  <2>2. Side * (q + 1) = Side * q + Side /\ Side * p \in Int /\ Side * q \in Int
    BY <1>1, <1>2
  <2> QED
    BY <1>1, <1>2, <2>1, <2>2
<1>5. p = q \/ p < q
  BY <1>2, <1>4
<1> QED
  BY <1>3, <1>5, Positions DEF Under

\* A block that changes out of sight, with nothing held below it, was no reason.
LEMMA AwayReasoned ==
    ASSUME NEW g, NEW h, NEW at \in Cells, \A c \in Cells \ {at} : Of(h, c) = Of(g, c),
           NEW hs, Home(at) \notin hs, Under(Home(at)) \cap hs = {},
           NEW sky, NEW L, Reasoned(g, sky, hs, L)
    PROVE  Reasoned(h, sky, hs, L)
<1> SUFFICES ASSUME NEW b \in Banks, NEW c \in Cells, L[b][c] # 0
             PROVE  Home(c) \in hs /\ Reason(h, sky, hs, L, b, c)
  BY DEF Reasoned
<1>1. Home(c) \in hs /\ Reason(g, sky, hs, L, b, c) /\ c # at
  BY DEF Reasoned
<1>2. BlocksLight(h, c) = BlocksLight(g, c) /\ Cap(h, c) = Cap(g, c) /\ Shines(h, b, c) = Shines(g, b, c)
  BY <1>1 DEF BlocksLight, Cap, Shines
<1>3. ASSUME Clearly(g, c) PROVE Clearly(h, c)
  <2> SUFFICES ASSUME NEW d \in Cells, d[1] = c[1], d[2] > c[2] PROVE Of(h, d).clear
    BY DEF Clearly
  <2>1. d # at
    BY <1>1, HomeBelow
  <2> QED
    BY <1>3, <2>1 DEF Clearly
<1>4. ASSUME FromBeside(g, hs, L, b, c) PROVE FromBeside(h, hs, L, b, c)
  <2>1. PICK n \in Cells, f \in Faces : /\ Step(n, f) = c /\ Home(n) \in hs /\ Reaches(g, n, f)
                                        /\ L[b][n] - Loss(g, b, c, f) >= L[b][c]
    BY <1>4 DEF FromBeside
  <2>2. Passes(h, n, f) = Passes(g, n, f) /\ Loss(h, b, c, f) = Loss(g, b, c, f)
    BY <1>1, <2>1 DEF Passes, Loss
  <2>3. Reaches(h, n, f)
    BY <1>2, <2>1, <2>2 DEF Reaches
  <2> QED
    BY <2>1, <2>2, <2>3 DEF FromBeside
<1> QED
  BY <1>1, <1>2, <1>3, <1>4 DEF Reason

\* What is upheld is its own reason.
LEMMA UpheldReasoned ==
    ASSUME NEW g, NEW apart, Proper(g, apart), \A b \in Banks : Upheld(g, b),
           NEW hs, g.open \subseteq hs, NEW sky
    PROVE  Reasoned(g, sky, hs, g.level)
<1>1. g \in Grids /\ g.level \in Levels
  BY DEF Proper, Grids, Levels
<1> SUFFICES ASSUME NEW b \in Banks, NEW c \in Cells, g.level[b][c] # 0
             PROVE  Home(c) \in hs /\ Reason(g, sky, hs, g.level, b, c)
  BY <1>1 DEF Reasoned
<1>2. Home(c) \in hs
  BY DEF Proper, IsOpen
<1>3. ASSUME Feeds(g, b, c) PROVE FromBeside(g, hs, g.level, b, c)
  <2>1. PICK n \in Cells, f \in Faces : /\ Step(n, f) = c /\ IsOpen(g, n) /\ Enters(g, n, f)
                                        /\ Offer(g, b, n, f) >= g.level[b][c]
    BY <1>3 DEF Feeds
  <2> QED
    BY <2>1 DEF FromBeside, IsOpen, Enters, Offer
<1> QED
  BY <1>2, <1>3 DEF Upheld, Reason

\* World_SetBlock: the light around the block is made anew, where all of it is
\* justified; out of sight, light that may depend on it is given up.
LEMMA EditNotTooBright ==
    ASSUME LightIsRight, NotTooBright, NEW at \in Cells, ~IsTopRow(at), NEW o \in Blocks,
           World_SetBlock(at, o), LightIsRight'
    PROVE  NotTooBright'
<1> PICK g, h : g = [Now EXCEPT !.data = data'] /\ h = Now'
  OBVIOUS
<1>1. /\ data' = [data EXCEPT ![at] = o]
      /\ UNCHANGED <<definition, mask, present, ready, lit, built, held, unloads, relights>>
  BY DEF World_SetBlock
<1>2. Written(g, at)
  BY <1>1, WrittenIs
<1>3. /\ Now \in Grids /\ Now.level = level /\ Now.open = ready
      /\ lit \subseteq ready /\ lit \subseteq held /\ ready \subseteq held
  BY DEF LightIsRight, Lightened, Proper, Now, TypeOK, NotTooBright
<1>4. /\ h.definition = definition /\ h.data = data' /\ h.open = ready /\ h.level = level'
      /\ g.definition = definition /\ g.data = data' /\ g.open = ready /\ g.level = level
  BY <1>1 DEF Now
<1>5. \A c \in Cells \ {at} : Of(g, c) = Of(Now, c) /\ Of(h, c) = Of(Now, c)
  BY <1>2, <1>4 DEF Written, Of
<1>6. MaskRows /\ Bare' = Bare /\ ready' \subseteq held'
  BY <1>1, <1>3 DEF NotTooBright, Bare
<1>7. CASE Home(at) \in lit
  <2> PICK set : set = Chunk_SetBlock(g, at)
    OBVIOUS
  <2>1. /\ level' = set.level /\ incomplete' = set.incomplete
        /\ missed' = missed \cup (IF Whole /\ Roofed THEN {} ELSE {"cut"})
    BY <1>7 DEF World_SetBlock
  <2>2. ASSUME missed' = {}
        PROVE  /\ Reasoned(h, mask, held', level')
               /\ \A c \in mask : ~(Home(c) \in Bare')
    <3>1. missed = {} /\ Whole /\ Roofed
      BY <2>1, <2>2
    <3>2. \A n \in lit : Step(n, "top") \notin Chunks \ held
      BY <1>3, <3>1 DEF Roofed
    <3>3. ASSUME NEW b \in Banks, NEW c \in Cells, level[b][c] # 0
          PROVE  Shines(Now, b, c) \/ Feeds(Now, b, c)
      <4>1. Home(c) \in lit /\ \/ Shines(Now, b, c)
                               \/ b = "sunlight" /\ c \in mask /\ Step(Home(c), "top") \in Chunks \ held
                               \/ Feeds(Now, b, c)
        BY <3>1, <3>3, AllJustified
      <4> QED
        BY <3>2, <4>1
    <3>4. ASSUME NEW b \in Banks PROVE UpheldBut(g, b, at)
      <4> SUFFICES ASSUME NEW c \in Cells \ {at}, level[b][c] # 0
                   PROVE  \/ Shines(g, b, c)
                          \/ \E n \in Cells, f \in Faces :
                                /\ Step(n, f) = c /\ IsOpen(g, n) /\ IsOpen(g, c) /\ ~BlocksLight(g, c)
                                /\ n = at \/ Passes(g, n, f)
                                /\ Offer(g, b, n, f) >= level[b][c]
        BY <1>4 DEF UpheldBut
      <4>1. CASE Shines(Now, b, c)
        BY <1>5, <4>1 DEF Shines
      <4>2. CASE Feeds(Now, b, c)
        <5>1. PICK n \in Cells, f \in Faces : /\ Step(n, f) = c /\ IsOpen(Now, n) /\ Enters(Now, n, f)
                                              /\ Offer(Now, b, n, f) >= Now.level[b][c]
          BY <4>2 DEF Feeds
        <5>2. IsOpen(g, n) /\ IsOpen(g, c) /\ ~BlocksLight(g, c)
          BY <1>3, <1>4, <1>5, <5>1 DEF IsOpen, Enters, Reaches, BlocksLight
        <5>3. n = at \/ Passes(g, n, f)
          BY <1>5, <5>1 DEF Enters, Reaches, Passes
        <5>4. Offer(g, b, n, f) >= level[b][c]
          BY <1>3, <1>4, <1>5, <5>1 DEF Offer, Loss
        <5> QED
          BY <5>1, <5>2, <5>3, <5>4
      <4> QED
        BY <3>3, <4>1, <4>2
    <3>5. Proper(g, {at}) /\ overlooked = {} /\ IsOpen(g, at)
      <4>1. overlooked = {}
        BY <3>1 DEF LightIsRight, Remembered
      <4>2. overlooked \cup {at} = {at}
        BY <4>1
      <4> QED
        BY <1>2, <1>3, <1>4, <1>7, <4>1, <4>2, WrittenEdited DEF IsOpen
    <3>6. \A b \in Banks : Upheld(set, b)
      BY <3>4, <3>5, SetBlockUpholds
    <3>7. Proper(h, overlooked')
      BY DEF LightIsRight, Lightened
    <3>8. SameWorld(set, h) /\ h.level = set.level
      <4>1. /\ Proper(g, overlooked \cup {at})
            /\ \A b \in Banks : Spread(g, b, {}, overlooked \cup {at}) /\ OpenMarks(g, b) = {}
            /\ \A c \in Cells \ {at} : Home(c) \in lit =>
                  /\ Of(g, c).emits => g.level["light"][c] = MaxLight
                  /\ IsTopRow(c) => g.level["sunlight"][c] = MaxLight
        BY <1>2, WrittenEdited
      <4>2. Edited(g, lit, at)
        BY <1>2, <1>7, <3>5, <4>1 DEF LightIsRight, TypeOK, Edited, Written
      <4>3. SameWorld(g, set)
        BY <4>2, SetBlockLightens
      <4> QED
        BY <1>4, <2>1, <4>3 DEF SameWorld
    <3>9. \A b \in Banks : Upheld(h, b)
      BY <3>6, <3>8, SameUpheld
    <3>10. Reasoned(h, mask, held, h.level)
      BY <1>3, <1>4, <3>7, <3>9, UpheldReasoned
    <3>11. \A c \in mask : Home(c) \notin Bare
      BY <3>2 DEF Bare
    <3> QED
      BY <1>1, <1>4, <1>6, <3>10, <3>11
  <2>3. missed' = {} => \E L : /\ Reasoned(h, mask, held', L)
                               /\ \A b \in Banks, c \in Cells : level'[b][c] <= L[b][c]
    <3>1. \A b \in Banks, c \in Cells : level'[b][c] \in Int
      <4>1. h \in Grids
        BY DEF LightIsRight, Lightened, Proper
      <4> QED
        BY <1>4, <4>1, GridFacts
    <3>2. \A b \in Banks, c \in Cells : level'[b][c] <= level'[b][c]
      BY <3>1
    <3> QED
      BY <2>2, <3>2
  <2> QED
    BY <1>1, <1>6, <2>2, <2>3, StaysSo
<1>8. CASE Home(at) \notin lit
  <2>1. /\ level' = level
        /\ missed' = missed \cup (IF Home(at) \in held THEN {"unseen"} ELSE {})
                            \cup (IF Under(Home(at)) \cap held # {} THEN {"mask"} ELSE {})
    BY <1>8 DEF World_SetBlock, lightVars
  <2>2. ASSUME missed' = {} PROVE missed = {} /\ Home(at) \notin held /\ Under(Home(at)) \cap held = {}
    BY <2>1, <2>2
  <2>3. ASSUME missed' = {}
        PROVE  \E L : Reasoned(h, mask, held', L) /\ \A b \in Banks, c \in Cells : level'[b][c] <= L[b][c]
    <3>1. PICK L : Reasoned(Now, mask, held, L) /\ \A b \in Banks, c \in Cells : level[b][c] <= L[b][c]
      BY <2>2, <2>3 DEF NotTooBright
    <3>2. Reasoned(h, mask, held, L)
      BY <1>5, <2>2, <2>3, <3>1, AwayReasoned
    <3> QED
      BY <1>1, <2>1, <3>1, <3>2
  <2>4. ASSUME missed' = {}, NEW c \in mask, Home(c) \in Bare', ~BlocksLight(h, c)
        PROVE  level'["sunlight"][c] >= Cap(h, c)
    <3>1. c \in Cells /\ Home(c) \in Bare /\ c # at
      BY <1>6, <1>8, <2>4 DEF Bare, MaskRows
    <3>2. BlocksLight(h, c) = BlocksLight(Now, c) /\ Cap(h, c) = Cap(Now, c)
      BY <1>5, <3>1 DEF BlocksLight, Cap
    <3>3. level["sunlight"][c] >= Cap(Now, c)
      BY <1>3, <2>2, <2>4, <3>1, <3>2 DEF NotTooBright, Skylit
    <3> QED
      BY <2>1, <3>2, <3>3
  <2> QED
    BY <1>1, <1>6, <2>3, <2>4, StaysSo
<1> QED
  BY <1>7, <1>8

LEMMA NextNotTooBright ==
    ASSUME LightIsRight, NotTooBright, [Next]_vars, LightIsRight'
    PROVE  NotTooBright'
<1>1. ASSUME NEW k \in Chunks, World_AddChunk(k) PROVE NotTooBright'
  BY <1>1, AddNotTooBright
<1>2. ASSUME NEW k \in Chunks, World_RemoveChunk(k) PROVE NotTooBright'
  BY <1>2, RemoveNotTooBright
<1>3. ASSUME NEW k \in Chunks, World_ReadChunksQueues(k) PROVE NotTooBright'
  BY <1>3, ReadNotTooBright
<1>4. ASSUME NEW e \in Edits, World_SetBlock(e.at, e.block) PROVE NotTooBright'
  <2>1. e.at \in Cells /\ ~IsTopRow(e.at) /\ e.block \in Blocks
    BY BlocksAssumption, SkyAssumption
  <2> QED
    BY <1>4, <2>1, EditNotTooBright
<1>5. ASSUME NEW d \in Definitions, World_InvalidateBlockDefinitions(d) PROVE NotTooBright'
  BY <1>5, InvalidateNotTooBright
<1>6. CASE UNCHANGED vars
  <2>1. UNCHANGED <<definition, data, mask, ready, lit, level, incomplete, held, missed>>
    BY <1>6 DEF vars, chunkVars, lightVars, history
  <2>2. Now' = Now
    BY <2>1 DEF Now
  <2> QED
    BY <2>1, <2>2 DEF NotTooBright, MaskRows, MaskUp, Bare, Skylit
<1> QED
  BY <1>1, <1>2, <1>3, <1>4, <1>5, <1>6 DEF Next

\* What is justified is supported.
LEMMA JustifiedIsSupported == LightIsRight /\ NotTooBright => NotOverlit
<1> SUFFICES ASSUME LightIsRight, NotTooBright, missed = {}, Whole,
                    NEW b \in Banks, NEW c \in Cells, level[b][c] # 0
             PROVE  Supported(b, c)
  BY DEF NotOverlit
<1>1. Home(c) \in lit /\ \/ Shines(Now, b, c)
                         \/ b = "sunlight" /\ c \in mask /\ Step(Home(c), "top") \in Chunks \ held
                         \/ Feeds(Now, b, c)
  BY AllJustified
<1>2. ASSUME Feeds(Now, b, c)
      PROVE  \E f \in Faces : LET n == Step(c, Opposite(f)) IN
                n \in Cells /\ Home(n) \in lit /\ Reaches(Now, n, f)
                /\ level[b][n] - Loss(Now, b, c, f) >= level[b][c]
  <2>1. PICK n \in Cells, f \in Faces : /\ Step(n, f) = c /\ IsOpen(Now, n) /\ Enters(Now, n, f)
                                        /\ Offer(Now, b, n, f) >= Now.level[b][c]
    BY <1>2 DEF Feeds
  <2>2. Step(c, Opposite(f)) = n
    BY <2>1, Positions, Stepping
  <2>3. Now.level = level /\ Now.open = ready /\ ready \subseteq held /\ held \subseteq lit
    BY DEF Now, NotTooBright, Whole
  <2>4. Home(n) \in lit /\ Reaches(Now, n, f) /\ level[b][n] - Loss(Now, b, c, f) >= level[b][c]
    BY <2>1, <2>3 DEF IsOpen, Enters, Offer
  <2> QED
    BY <2>1, <2>2, <2>4
<1> QED
  BY <1>1, <1>2 DEF Supported, Shines, Lamp

\* In every reachable state in which all chunks that ever were lit are, no cell
\* has light without a reason: from the sky, a lamp, a sky mask under a chunk
\* never held or a brighter neighbour; whatever chunks left and came back, in
\* whatever order, and however blocks and definitions changed, unless something
\* was missed (chunklightning.c, chunk.c).
THEOREM NotOverlitHolds == Spec => []NotOverlit
<1>1. Init => LightIsRight /\ NotTooBright
  BY InitIsRight, InitNotTooBright
<1>2. LightIsRight /\ NotTooBright /\ [Next]_vars => (LightIsRight /\ NotTooBright)'
  BY NextIsRight, NextNotTooBright
<1>3. LightIsRight /\ NotTooBright => NotOverlit
  BY JustifiedIsSupported
<1> QED
  BY <1>1, <1>2, <1>3, PTL DEF Spec
=============================================================================
