----------------------------- MODULE MCWorldGen -----------------------------
(* Six chunks of three by three cells on both sides of x = 0.  Numbers that *)
(* look random are small congruences of the position and a seed.           *)
EXTENDS WorldGen

MCChunks == (-1 .. 0) \X (0 .. 2)

Xs    == -24 .. 24
Wide  == Xs \X (-14 .. 24)
Cells == (-8 .. 8) \X (-8 .. 8)

Hill(seed, x) == 3 + ((x * x + seed * x + seed) % 4)

Meadow == [top |-> 3, filler |-> 2, stone |-> 1, underwater |-> 6, depth |-> 1]
Desert == [top |-> 7, filler |-> 7, stone |-> 1, underwater |-> 7, depth |-> 0]
Glass  == [top |-> 12, filler |-> 2, stone |-> 1, underwater |-> 6, depth |-> 1]

Opaque == {1, 2, 3, 6, 7, 10, 19, 20, 21, 22}

Iron(seed) ==
    [block |-> 19, replaces |-> {1, 2}, minY |-> -2, maxY |-> 5, biome |-> -1,
     distribution |-> "clusters", size |-> 2, spacing |-> 4,
     rolls |-> [c \in Cells |->
        IF (c[1] * 3 + c[2] * 5 + seed) % 2 = 0
        THEN [at |-> <<(c[1] + seed) % 4, (c[2] * 3 + 1) % 4>>] ELSE NoRoll]]

Gold(seed) ==
    [block |-> 20, replaces |-> {1, 3, 19}, minY |-> 0, maxY |-> 7, biome |-> 1,
     distribution |-> "veins", size |-> 3, spacing |-> 4,
     rolls |-> [c \in Cells |->
        IF (c[1] + c[2] * 2 + seed) % 3 = 0 THEN NoRoll
        ELSE [at |-> <<(c[1] * 2 + seed) % 4, (c[2] + 3) % 4>>,
              turns |-> CASE (c[1] + seed) % 3 = 0 -> <<"up", "right", "right">>
                          [] (c[1] + seed) % 3 = 1 -> <<"left", "down", "left">>
                          [] OTHER -> <<"right", "right", "up">>]]]

Seam(distribution) ==
    [block |-> 20, replaces |-> {1, 2}, minY |-> 0, maxY |-> 6, biome |-> -1,
     distribution |-> distribution, size |-> 2, threshold |-> 2,
     field |-> [c \in Wide |-> (c[1] + c[2]) % 5],
     lucky |-> [c \in Wide |-> (c[1] * c[2]) % 3 # 0]]

Block(x, y, b) == [x |-> x, y |-> y, id |-> b]

House(seed) ==
    [spacing |-> 5, biome |-> -1, minY |-> 4, maxY |-> 8, maxSlope |-> 3, foundation |-> 22,
     foundationDepth |-> 2, rotate |-> TRUE, airOnly |-> FALSE, radius |-> 2, minDY |-> 0,
     maxDY |-> 2,
     blocks |-> <<Block(-1, 0, 21), Block(0, 0, 21), Block(1, 0, 0), Block(2, 0, 21),
                  Block(2, 2, 21)>>,
     rolls |-> [c \in -12 .. 12 |-> IF (c + seed) % 3 = 0 THEN NoRoll
                                    ELSE [at |-> (2 * c + seed) % 5, flipped |-> c % 2 = 0]]]

Tree(seed) ==
    [spacing |-> 4, biome |-> 1, minY |-> 2, maxY |-> 8, maxSlope |-> 3, foundation |-> 0,
     foundationDepth |-> 2, rotate |-> FALSE, airOnly |-> TRUE, radius |-> 1, minDY |-> 0,
     maxDY |-> 2,
     blocks |-> <<Block(-1, 2, 11), Block(0, 2, 11), Block(1, 2, 11), Block(0, 0, 10),
                  Block(0, 1, 10)>>,
     rolls |-> [c \in -12 .. 12 |-> IF (c + seed) % 2 = 0 THEN NoRoll
                                    ELSE [at |-> (c + seed) % 4, flipped |-> FALSE]]]

\* A branch to the upper right and leaves at its end, in some places.
Branch(seed) ==
    [when |-> [c \in Wide |-> IF c[1] % 4 = 1 /\ c[2] = Hill(seed, c[1]) + 1 THEN 1 ELSE 0],
     paddingMin |-> <<-1, -1>>, paddingMax |-> <<1, 1>>,
     commands |-> <<[op |-> "stroke", from |-> 0, to |-> 1, when |-> NoField, block |-> 10,
                     steps |-> 2, dx |-> 1, dy |-> 1, radius |-> 1, bounds |-> 1],
                    [op |-> "sphere", from |-> 1, to |-> 2, block |-> 11, dx |-> 0, dy |-> 0,
                     when |-> [c \in Wide |-> c[2] % 2], radius |-> 2, bounds |-> 1],
                    [op |-> "sphere", from |-> 2, to |-> 0, when |-> NoField, block |-> 3,
                     dx |-> 0, dy |-> 0, radius |-> 1, bounds |-> 1]>>]

Plain(seed) ==
    [bounded |-> TRUE, minY |-> -4, maxY |-> 8, seaLevel |-> 4, material |-> NoField,
     density |-> NoField, caves |-> NoField, skyField |-> NoField, ceiling |-> NoField,
     height |-> [x \in Xs |-> Hill(seed, x)],
     biome |-> [x \in Xs |-> 1 + (((x + seed) \div 3) % 2)],
     biomes |-> <<Meadow, Desert>>, rules |-> <<>>, ores |-> <<>>, structures |-> <<>>,
     features |-> <<>>, opaque |-> Opaque]

Rich(seed) ==
    [Plain(seed) EXCEPT !.ores = <<Iron(seed), Gold(seed)>>,
                        !.structures = <<House(seed), Tree(seed)>>,
                        !.features = <<Branch(seed)>>]

Overhang == [c \in Wide |-> 5 - c[2] + 3 * (c[1] % 2)]
Tunnels  == [c \in Wide |-> IF (c[1] + 2 * c[2]) % 5 = 0 THEN 1 ELSE 0]

Hollow == [Plain(1) EXCEPT !.density = Overhang, !.caves = Tunnels, !.biomes = <<Meadow, Glass>>,
                           !.ores = <<Seam("layers"), Seam("noise")>>,
                           !.structures = <<House(2)>>]

Cavern == [Plain(2) EXCEPT !.density = Overhang, !.caves = Tunnels]

Islands  == [c \in Wide |-> IF c[2] = 7 /\ c[1] % 3 = 0 THEN 1 ELSE 0]

Rule(match, block, dy, when, descending) ==
    [match |-> match, block |-> block, dy |-> dy, when |-> when, descending |-> descending]

Painted == [Plain(0) EXCEPT !.material = [c \in Wide |-> IF c[2] <= Hill(1, c[1]) THEN 1 ELSE 0],
                            !.rules = <<Rule(1, 2, 1, Tunnels, FALSE), Rule(2, 12, -1, NoField, TRUE),
                                        Rule(0, 21, 0, Islands, FALSE)>>]

Skylit == [Rich(1) EXCEPT !.skyField = [c \in Wide |-> IF c[2] <= Hill(1, c[1]) THEN 1 ELSE 0],
                          !.ceiling = [x \in Xs |-> 7]]

MCDefinitions ==
    ("rich 0" :> Rich(0)) @@ ("rich 1" :> Rich(1)) @@
    ("hollow" :> Hollow) @@ ("plain" :> Plain(0)) @@ ("cavern" :> Cavern) @@
    ("painted" :> Painted) @@ ("skylit" :> Skylit)
=============================================================================
