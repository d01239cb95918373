---------------------------- MODULE MCChunkLight ----------------------------
(* Four chunks of three by three cells.                                    *)
EXTENDS ChunkLight, TLC

all == {"left", "right", "top", "bottom"}

Kind(e, b, c, p) == [emits |-> e, blocks |-> b, clear |-> c, passes |-> p]

\* Air, stone, a torch, water, and a slab that lets light through sideways; a
\* server may also send a torch that is out.
Lit ==
    ("air"   :> Kind(FALSE, FALSE, TRUE, all)) @@
    ("stone" :> Kind(FALSE, TRUE, FALSE, {})) @@
    ("torch" :> Kind(TRUE, FALSE, TRUE, all)) @@
    ("water" :> Kind(FALSE, FALSE, FALSE, all)) @@
    ("slab"  :> Kind(FALSE, FALSE, FALSE, {"left", "right"}))
Out == [Lit EXCEPT !["torch"].emits = FALSE]

MCDefinitions == {Lit, Out}

\* Rows from the top; the chunk border is in the middle.
Map(rows) == [c \in Cells |-> rows[Height * Side - c[2]][c[1] + 1]]

a == "air"
s == "stone"
t == "torch"
w == "water"
h == "slab"

Cave == Map(<< <<a, a, a, a, a, a>>,
               <<a, s, s, s, s, a>>,
               <<a, s, a, t, a, s>>,
               <<s, s, a, s, h, s>>,
               <<s, a, a, s, a, a>>,
               <<s, s, s, s, s, s>> >>)

MCWorlds == {Cave}

MCEdits == {[at |-> <<3, 2>>, block |-> "air"], [at |-> <<3, 3>>, block |-> "air"],
            [at |-> <<0, 4>>, block |-> "stone"]}
=============================================================================
