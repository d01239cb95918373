------------------------------ MODULE WorldGen ------------------------------
(***************************************************************************)
(* The generator of chunks, in a vertical slice of the world: terrain,     *)
(* material rules, ores, structures, features, and the sky mask.  A chunk  *)
(* is made alone, from the definitions and from random numbers that depend *)
(* on positions; the only memory is the cache of feature origins.          *)
(*                                                                         *)
(* Fields, noise and random rolls are functions of a position, given with  *)
(* the definitions: height and biome of a column, the rolls of each cell   *)
(* of an ore or a structure, the origins of a feature.  Every painting     *)
(* operator works on whatever cells its data has, so that the same brush   *)
(* paints a chunk and the whole world; what is particular to a chunk, the  *)
(* halo, the cells looked into and what is skipped, is an argument.        *)
(***************************************************************************)
EXTENDS Integers, Sequences, SequencesExt, FiniteSetsExt, TLC

CONSTANTS
    Size,         \* side of a chunk
    Chunks,       \* positions of the chunks players visit
    Margin,       \* how far beyond them the whole world is painted
    Definitions,  \* per name, what a mod has defined, with its seed
    NoField,      \* no field given
    NoRoll,       \* nothing begins in this cell
    NoChunk,      \* a chunk that is not there
    CacheLimit,   \* 4096 in the code
    KeySpan       \* 4096 in the code, chunk positions with different keys

ASSUME SizesAssumption ==
    /\ Size \in Nat \ {0} /\ Margin \in Nat /\ CacheLimit \in Nat \ {0} /\ KeySpan \in Nat \ {0}

VARIABLES
    id,         \* worldgen.id
    originCaches, \* per feature, from the key of a chunk to its origins
    chunks,     \* per position, the blocks of the chunk in memory
    skyMask     \* per position, the columns of the chunk that see the sky

vars == <<id, originCaches, chunks, skyMask>>

\* Integers in order, and the cells of a box in the order of nested loops.
Count(lo, hi) == [i \in 1 .. (hi - lo + 1) |-> lo + i - 1]
Down(hi, lo) == Reverse(Count(lo, hi))
Loops(outer, inner) ==
    [i \in 1 .. (Len(outer) * Len(inner)) |->
        <<outer[((i - 1) \div Len(inner)) + 1], inner[((i - 1) % Len(inner)) + 1]>>]

Left(k)   == k[1] * Size
Bottom(k) == k[2] * Size
Right(k)  == Left(k) + Size - 1
Top(k)    == Bottom(k) + Size - 1
CellsOf(k) == (Left(k) .. Right(k)) \X (Bottom(k) .. Top(k))
Home(c)   == <<c[1] \div Size, c[2] \div Size>>

Air == 0
Water == 5

----------------------------------------------------------------------------
(* Terrain.                                                                *)

IsTerrainSolid(d, x, y) ==
    /\ d.bounded => y \in d.minY .. d.maxY
    /\ IF d.density = NoField THEN y <= d.height[x] ELSE d.density[<<x, y>>] > 0
    /\ d.caves = NoField \/ d.caves[<<x, y>>] <= 0

FindSurfaceHeight(d, x) ==
    IF d.density = NoField /\ d.caves = NoField
    THEN Max({d.minY - 1, Min({d.maxY, d.height[x]})})
    ELSE Max({d.minY - 1} \cup {y \in d.minY .. d.maxY : IsTerrainSolid(d, x, y)})

\* How many cells are solid from this one upwards, looking no higher than top.
SolidDepth(d, x, y, top) ==
    Min({v - y : v \in {v \in y .. top : ~IsTerrainSolid(d, x, v)}} \cup {top - y + 1})

HaloShort(biome) == biome.depth

\* Rows above the chunk that decide what its top row is made of.
Halo(biome) == biome.depth + 1

Layer(d, biome, x, y, depth) ==
    CASE depth = 0 -> IF y >= d.minY /\ y <= d.seaLevel THEN Water ELSE Air
      [] depth = 1 -> IF y <= d.seaLevel THEN biome.underwater ELSE biome.top
      [] depth \in 2 .. (biome.depth + 1) -> biome.filler
      [] OTHER -> biome.stone

\* Blocks of these cells, the highest of them in row top.
Terrain(d, cells, top) ==
    [c \in cells |->
        IF d.material # NoField
        THEN IF d.bounded /\ c[2] \notin d.minY .. d.maxY THEN Air ELSE d.material[c]
        ELSE LET biome == d.biomes[d.biome[c[1]]]
             IN  Layer(d, biome, c[1], c[2], SolidDepth(d, c[1], c[2], top + Halo(biome)))]

\* Cells in the order of chunk->data: rows from the bottom, left to right.
ApplyMaterialRules(d, data, cells) ==
    LET Applied(rule, sofar, c) ==
            LET target == <<c[1], c[2] + rule.dy>>
            IN  IF /\ rule.match < 0 \/ sofar[c] = rule.match
                   /\ Home(target) = Home(c)
                   /\ rule.when = NoField \/ rule.when[c] # 0
                THEN [sofar EXCEPT ![target] = rule.block]
                ELSE sofar
        One(sofar, rule) ==
            FoldLeft(LAMBDA acc, c : Applied(rule, acc, c), sofar,
                     IF rule.descending THEN Reverse(cells) ELSE cells)
    IN  FoldLeft(One, data, d.rules)

----------------------------------------------------------------------------
(* Ores.  An ore cell is spacing wide and starts at most one deposit.      *)

FloorDivide(a, b) == a \div b

Square(c, at) == (c[1] - at[1]) * (c[1] - at[1]) + (c[2] - at[2]) * (c[2] - at[2])

OreHost(d, ore, data, c) ==
    /\ ore.biome < 0 \/ d.biome[c[1]] = ore.biome
    /\ c[2] \in ore.minY .. ore.maxY
    /\ data[c] \in ore.replaces

\* The cells of these an ore may take, taken; a cell taken twice is the same.
Struck(d, ore, data, cells) ==
    [c \in {c \in cells \cap DOMAIN data : OreHost(d, ore, data, c)} |-> ore.block] @@ data

Sphere(at, radius) ==
    {c \in (at[1] - radius .. at[1] + radius) \X (at[2] - radius .. at[2] + radius) :
        Square(c, at) <= radius * radius}

Turned(at, turn) ==
    CASE turn = "right" -> <<at[1] + 1, at[2]>> [] turn = "left" -> <<at[1] - 1, at[2]>>
      [] turn = "up" -> <<at[1], at[2] + 1>>    [] OTHER -> <<at[1], at[2] - 1>>

\* A small sphere at each step; the last turn leads nowhere.
Vein(at, turns) ==
    UNION {Sphere(FoldLeft(Turned, at, SubSeq(turns, 1, n)), 1) : n \in 0 .. (Len(turns) - 1)}

DepositIn(ore, cell) ==
    LET roll == ore.rolls[cell]
        at == <<cell[1] * ore.spacing + roll.at[1], cell[2] * ore.spacing + roll.at[2]>>
    IN  CASE roll = NoRoll -> {}
          [] roll # NoRoll /\ ore.distribution = "clusters" -> Sphere(at, ore.size)
          [] OTHER -> Vein(at, roll.turns)

\* The deposits of these ore cells.
Deposits(d, ore, data, cells) == Struck(d, ore, data, UNION {DepositIn(ore, o) : o \in cells})

\* Ores in layers or where their noise is high.
Spread(d, ore, data) ==
    LET Wanted(c) ==
            IF ore.distribution = "layers"
            THEN 2 * Max({c[2] - ore.field[c], ore.field[c] - c[2]}) <= ore.size
            ELSE ore.field[c] > ore.threshold
    IN  Struck(d, ore, data, {c \in DOMAIN data : ore.lucky[c] /\ Wanted(c)})

\* How far from a chunk a deposit that touches it may begin.
Reach(ore) == IF ore.distribution = "clusters" THEN ore.size ELSE ore.size + 2

IsSpread(ore) == ore.distribution \in {"layers", "noise"}

OreCells(ore, k) ==
    (FloorDivide(Left(k) - Reach(ore), ore.spacing)
        .. FloorDivide(Right(k) + Reach(ore), ore.spacing)) \X
    (FloorDivide(Bottom(k) - Reach(ore), ore.spacing)
        .. FloorDivide(Top(k) + Reach(ore), ore.spacing))

GenerateOres(d, k, data) ==
    FoldLeft(LAMBDA acc, ore :
                CASE Bottom(k) > ore.maxY \/ Top(k) < ore.minY -> acc
                  [] IsSpread(ore) -> Spread(d, ore, acc)
                  [] OTHER -> Deposits(d, ore, acc, OreCells(ore, k)),
             data, d.ores)

----------------------------------------------------------------------------
(* Structures stand on the surface, one at most per cell of a row.         *)

PlaceStructureBlock(structure, old, block) ==
    IF structure.airOnly /\ old # Air THEN old ELSE block

\* Of a block at c, what is written: itself, and the foundation under it down
\* to firm ground.
Writes(d, structure, b, c) ==
    LET loose == {n \in 1 .. structure.foundationDepth :
                     \A m \in 1 .. n : ~IsTerrainSolid(d, c[1], c[2] - m)}
        founded == structure.foundation # 0 /\ b.id # 0 /\ b.y = structure.minDY
    IN  <<[at |-> c, block |-> b.id]>> \o
        [n \in 1 .. (IF founded THEN Cardinality(loose) ELSE 0) |->
            [at |-> <<c[1], c[2] - n>>, block |-> structure.foundation]]

Building(d, structure, at, flipped) ==
    FlattenSeq([i \in DOMAIN structure.blocks |->
        LET b == structure.blocks[i]
        IN  Writes(d, structure, b, <<at[1] + (IF flipped THEN -b.x ELSE b.x), at[2] + b.y>>)])

\* Whether the surface is fit for the structure at column x.
Suitable(d, structure, x) ==
    LET y == FindSurfaceHeight(d, x) + 1
    IN  /\ y > d.minY
        /\ y \in structure.minY .. structure.maxY
        /\ structure.biome < 0 \/ d.biome[x] = structure.biome
        /\ \A dx \in -1 .. 1 :
              FindSurfaceHeight(d, x + dx * structure.radius) + 1 - y
                 \in -structure.maxSlope .. structure.maxSlope

\* A structure that stands on y comes nowhere near these rows.
Misses(structure, y, bottom, top) ==
    \/ y + structure.maxDY < bottom
    \/ y + structure.minDY - structure.foundationDepth > top

\* The structure of a cell, if it comes near these rows.
BuildingIn(d, structure, cell, bottom, top) ==
    LET roll == structure.rolls[cell]
        x == cell * structure.spacing + roll.at
        y == FindSurfaceHeight(d, x) + 1
    IN  CASE roll = NoRoll -> <<>>
          [] roll # NoRoll /\ (~Suitable(d, structure, x) \/ Misses(structure, y, bottom, top)) -> <<>>
          [] OTHER -> Building(d, structure, <<x, y>>, structure.rotate /\ roll.flipped)

\* All of them, each cell of data written in turn.
Buildings(d, structure, data, cells, bottom, top) ==
    LET writes == FlattenSeq([i \in DOMAIN cells |->
                                 BuildingIn(d, structure, cells[i], bottom, top)])
    IN  [c \in DOMAIN data |->
            FoldLeft(LAMBDA old, w : PlaceStructureBlock(structure, old, w.block), data[c],
                     SelectSeq(writes, LAMBDA w : w.at = c))]

StructureCells(structure, k) ==
    Count(FloorDivide(Left(k) - structure.radius, structure.spacing),
          FloorDivide(Right(k) + structure.radius, structure.spacing))

GenerateStructures(d, k, data) ==
    FoldLeft(LAMBDA acc, s : Buildings(d, s, acc, StructureCells(s, k), Bottom(k), Top(k)),
             data, d.structures)

----------------------------------------------------------------------------
(* Features: chains of commands from each origin, through position slots.  *)

InSphere(c, at, bounds, radius) ==
    /\ \A i \in 1 .. 2 : c[i] - at[i] \in -bounds .. (bounds - 1)
    /\ Square(c, at) < radius * radius

\* The spheres a command paints from a position, and where it leads.
Stroke(command, at) ==
    LET steps == IF command.op = "stroke" THEN command.steps ELSE 1
        Along(n) == <<at[1] + n * command.dx, at[2] + n * command.dy>>
    IN  [spheres |-> [n \in 1 .. steps |-> [at |-> Along(n - 1), of |-> command]],
         end |-> Along(steps)]

\* A command whose slot nobody has written, or whose condition fails, writes
\* nothing, its own slot included.
ExecuteFeatureCommands(feature, origin) ==
    LET Skipped(command, slots) ==
            \/ command.from \notin DOMAIN slots
            \/ command.when # NoField /\ command.when[slots[command.from]] = 0
        One(sofar, command) ==
            IF Skipped(command, sofar.slots) THEN sofar
            ELSE LET stroke == Stroke(command, sofar.slots[command.from])
                 IN  [slots |-> (command.to :> stroke.end) @@ sofar.slots,
                      spheres |-> sofar.spheres \o stroke.spheres]
    IN  FoldLeft(One, [slots |-> (0 :> origin), spheres |-> <<>>], feature.commands).spheres

\* A cell shows the last sphere painted over it.
Executed(feature, data, origins) ==
    LET spheres == FlattenSeq([i \in DOMAIN origins |->
                                  ExecuteFeatureCommands(feature, origins[i])])
        Over(c) == {i \in DOMAIN spheres :
                       InSphere(c, spheres[i].at, spheres[i].of.bounds, spheres[i].of.radius)}
    IN  [c \in DOMAIN data |->
            IF Over(c) = {} THEN data[c] ELSE spheres[Max(Over(c))].of.block]

\* Where features begin in a chunk, in the order they are found.
OriginsIn(feature, k) ==
    SelectSeq(Loops(Down(Right(k), Left(k)), Down(Top(k), Bottom(k))),
              LAMBDA c : feature.when[c] # 0)

PackedColumn(k) == k[1] % KeySpan

\* ServerChunk_GetPackedPos.
PackedPos(k) == <<k[1] % KeySpan, k[2] % KeySpan>>

\* Room for one more: a full cache is emptied.
Evicted(cache) == IF Cardinality(DOMAIN cache) >= CacheLimit THEN <<>> ELSE cache

GetFeatureOrigins(feature, cache, k) ==
    LET key == PackedPos(k)
    IN  IF key \in DOMAIN cache THEN [cache |-> cache, origins |-> cache[key]]
        ELSE [cache |-> (key :> OriginsIn(feature, k)) @@ Evicted(cache),
              origins |-> OriginsIn(feature, k)]

\* g is a chunk under way and the caches: [data, caches].
Worldgen_Features(d, k, g) ==
    LET Around(feature) ==
            Loops(Count(feature.paddingMin[2], feature.paddingMax[2]),
                  Count(feature.paddingMin[1], feature.paddingMax[1]))
        Near(feature, sofar, offset) ==
            LET found == GetFeatureOrigins(feature, sofar.cache,
                                           <<k[1] + offset[2], k[2] + offset[1]>>)
            IN  [cache |-> found.cache, origins |-> sofar.origins \o found.origins]
        One(sofar, f) ==
            LET feature == d.features[f]
                found == FoldLeft(LAMBDA acc, offset : Near(feature, acc, offset),
                                  [cache |-> sofar.caches[f], origins |-> <<>>], Around(feature))
            IN  [data |-> Executed(feature, sofar.data, found.origins),
                 caches |-> [sofar.caches EXCEPT ![f] = found.cache]]
    IN  FoldLeft(One, g, Count(1, Len(d.features)))

Worldgen_Generate(d, k, caches) ==
    LET terrain == Terrain(d, CellsOf(k), Top(k))
        cells == [i \in 1 .. (Size * Size) |->
                     <<Left(k) + ((i - 1) % Size), Bottom(k) + ((i - 1) \div Size)>>]
        ruled == ApplyMaterialRules(d, terrain, cells)
    IN  Worldgen_Features(d, k,
            [data |-> GenerateStructures(d, k, GenerateOres(d, k, ruled)), caches |-> caches])

----------------------------------------------------------------------------
(* The sky mask.                                                           *)

\* Nothing but opaque terrain can be above.
OnlyTerrain(d) ==
    /\ d.structures = <<>> /\ d.ores = <<>> /\ d.features = <<>> /\ d.material = NoField
    /\ \A b \in ToSet(d.biomes) : {b.top, b.filler, b.stone, b.underwater} \subseteq d.opaque

CeilingOfTerrain(d) == d.maxY

Ceiling(d) == Max({d.maxY} \cup {d.maxY + 1 + s.maxDY : s \in ToSet(d.structures)})

Columns(k) == Left(k) .. Right(k)

\* The chunks above, one after the other, while any column still sees the sky.
RECURSIVE OpenAbove(_, _, _, _)
OpenAbove(d, k, open, caches) ==
    IF Bottom(k) > Ceiling(d) \/ open = {} THEN [open |-> open, caches |-> caches]
    ELSE LET above == Worldgen_Generate(d, k, caches)
         IN  OpenAbove(d, <<k[1], k[2] + 1>>,
                       {x \in open : \A y \in Bottom(k) .. Top(k) :
                                        above.data[<<x, y>>] \notin d.opaque},
                       above.caches)

Worldgen_SkyMask(d, k, caches) ==
    LET Rows(hi) == (Top(k) + 1) .. hi
        top(x) == IF d.ceiling = NoField THEN d.maxY ELSE d.ceiling[x]
    IN  CASE d.skyField # NoField ->
               [open |-> {x \in Columns(k) : \A y \in Rows(top(x)) : d.skyField[<<x, y>>] <= 0},
                caches |-> caches]
          [] d.skyField = NoField /\ OnlyTerrain(d) ->
               [open |-> {x \in Columns(k) :
                            IF d.density = NoField /\ d.caves = NoField
                            THEN Top(k) + 1 > Min({d.maxY, d.height[x]})
                            ELSE \A y \in Rows(Ceiling(d)) : ~IsTerrainSolid(d, x, y)},
                caches |-> caches]
          [] OTHER -> OpenAbove(d, <<k[1], k[2] + 1>>, Columns(k), caches)

----------------------------------------------------------------------------
(* Chunks come and go; each is generated and then given its mask.          *)

Init ==
    /\ id \in DOMAIN Definitions
    /\ originCaches = [f \in DOMAIN Definitions[id].features |-> <<>>]
    /\ chunks = [k \in Chunks |-> NoChunk]
    /\ skyMask = [k \in Chunks |-> NoChunk]

\* ServerChunk_LoadFile of a chunk that has no file.
Load(k) ==
    /\ chunks[k] = NoChunk
    /\ LET made == Worldgen_Generate(Definitions[id], k, originCaches)
           mask == Worldgen_SkyMask(Definitions[id], k, made.caches)
       IN  /\ chunks' = [chunks EXCEPT ![k] = made.data]
           /\ skyMask' = [skyMask EXCEPT ![k] = mask.open]
           /\ originCaches' = mask.caches
    /\ UNCHANGED id

\* A chunk that was not edited leaves memory without a trace.
Unload(k) ==
    /\ chunks[k] # NoChunk
    /\ chunks' = [chunks EXCEPT ![k] = NoChunk]
    /\ skyMask' = [skyMask EXCEPT ![k] = NoChunk]
    /\ UNCHANGED <<id, originCaches>>

Next == \E k \in Chunks : Load(k) \/ Unload(k)

Spec == Init /\ [][Next]_vars

----------------------------------------------------------------------------
(* The world without chunks: everything painted once, in the order of the  *)
(* definitions, over all cells, from all places where something begins.    *)

West  == Min({Left(k) : k \in Chunks}) - Margin
East  == Max({Right(k) : k \in Chunks}) + Margin
Low   == Min({Bottom(k) : k \in Chunks}) - Margin
High  == Max({Top(k) : k \in Chunks}) + Margin
Area  == (West .. East) \X (Low .. High)

RulesOverall(d, data) ==
    LET column == [x \in West .. East |->
                      ApplyMaterialRules(d, [c \in {x} \X (Low .. High) |-> data[c]],
                                         Loops(<<x>>, Count(Low, High)))]
    IN  [c \in Area |-> column[c[1]][c]]

OresOverall(d, data) ==
    FoldLeft(LAMBDA acc, ore :
                IF IsSpread(ore) THEN Spread(d, ore, acc)
                ELSE Deposits(d, ore, acc,
                              (West \div ore.spacing .. East \div ore.spacing) \X
                              (Low \div ore.spacing .. High \div ore.spacing)),
             data, d.ores)

StructuresOverall(d, data) ==
    FoldLeft(LAMBDA acc, s : Buildings(d, s, acc, Count(West \div s.spacing, East \div s.spacing),
                                       Low, High),
             data, d.structures)

FeaturesOverall(d, data) ==
    LET homes == Loops(Count(Low \div Size, High \div Size), Count(West \div Size, East \div Size))
        Origins(feature) ==
            FlattenSeq([i \in DOMAIN homes |-> OriginsIn(feature, <<homes[i][2], homes[i][1]>>)])
    IN  FoldLeft(LAMBDA acc, feature : Executed(feature, acc, Origins(feature)), data, d.features)

World ==
    [name \in DOMAIN Definitions |->
        LET d == Definitions[name]
            terrain == Terrain(d, Area, High)
        IN  FeaturesOverall(d, StructuresOverall(d, OresOverall(d, RulesOverall(d, terrain))))]

----------------------------------------------------------------------------
(* Properties.                                                             *)

\* A chunk in memory has a block in each of its cells, and a mask of its own
\* columns; a cache keeps to its limit.
TypeOK ==
    /\ id \in DOMAIN Definitions
    /\ \A k \in Chunks :
          /\ chunks[k] = NoChunk \/ chunks[k] \in [CellsOf(k) -> 0 .. 255]
          /\ skyMask[k] = NoChunk <=> chunks[k] = NoChunk
          /\ skyMask[k] = NoChunk \/ skyMask[k] \subseteq Columns(k)
    /\ \A f \in DOMAIN originCaches : Cardinality(DOMAIN originCaches[f]) <= CacheLimit

\* Whatever chunks were made before and whatever the caches hold, a chunk is
\* its part of the one world: no layer, deposit, structure or feature is cut
\* at a border.
Seamless ==
    \A k \in Chunks : chunks[k] # NoChunk => \A c \in CellsOf(k) : chunks[k][c] = World[id][c]

\* A skylight field makes the mask what the mod says; without one, rules are
\* not looked at when all else is opaque terrain, nor is anything high above
\* the terrain and the structures.
MaskCanTell ==
    [name \in DOMAIN Definitions |->
        LET d == Definitions[name]
        IN  /\ d.skyField = NoField
            /\ OnlyTerrain(d) => d.rules = <<>>
            /\ \A c \in Area : World[name][c] \in d.opaque =>
                  c[2] <= Max({d.maxY} \cup {d.maxY + s.maxDY + 1 : s \in ToSet(d.structures)})]

\* A bit of the mask is set exactly if nothing opaque is above the chunk in
\* the one world, its ores, structures, features and the caches included.
SkyMaskTruth ==
    MaskCanTell[id] =>
        \A k \in Chunks : skyMask[k] # NoChunk =>
            skyMask[k] = {x \in Columns(k) : \A y \in (Top(k) + 1) .. High :
                              World[id][<<x, y>>] \notin Definitions[id].opaque}

Near == UNION {{<<k[1] + x, k[2] + y>> : x \in -1 .. 1, y \in -1 .. 1} : k \in Chunks}

\* A cached list of origins is the one that would be found again.
CacheIsPure ==
    \A f \in DOMAIN originCaches, k \in Near :
        PackedPos(k) \in DOMAIN originCaches[f] =>
            originCaches[f][PackedPos(k)] = OriginsIn(Definitions[id].features[f], k)

\* The caches and chunks that are kept are what would be computed again.
CacheInvariant == TypeOK /\ CacheIsPure
=============================================================================
