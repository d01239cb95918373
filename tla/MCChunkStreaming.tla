------------------------- MODULE MCChunkStreaming -------------------------
(* Two players, two places whose surroundings overlap, two chunks.         *)
EXTENDS ChunkStreaming, TLC

CONSTANTS p1, p2, near, far, c1, c2, g1, g2

\* Near wants only c1; far wants both.  A player that walks back from far may
\* still be delivered c2 or keep it.
MCWanted   == (near :> {c1}) @@ (far :> {c2})
MCAccepted == (near :> {c1}) @@ (far :> {c1, c2})
MCKept     == (near :> {c1}) @@ (far :> {c1, c2})

\* Two generators that disagree everywhere.
MCGenerated == (g1 :> (c1 :> 0 @@ c2 :> 1)) @@ (g2 :> (c1 :> 1 @@ c2 :> 0))
=============================================================================
