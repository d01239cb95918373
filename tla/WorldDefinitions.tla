-------------------------- MODULE WorldDefinitions --------------------------
(***************************************************************************)
(* The definitions of a world generator through the life of a server: mods *)
(* register fields, biomes, ores, structures, rules and features while     *)
(* they load; the definitions are then checked, compared with those the    *)
(* world was made by, and frozen; chunks are generated from them until the *)
(* server stops or crashes and loads its mods again, which may have been   *)
(* changed.  A definition keeps what the checks look at: its blocks, its   *)
(* fields, its biome.                                                      *)
(***************************************************************************)
EXTENDS WorldFields

CONSTANTS
    Names,        \* of biomes
    Builtin,      \* "builtin:plains"
    Blocks,       \* block ids in use
    BuiltinBlocks, \* those up to BLOCK_DEFAULT_LAST_ID
    Seeds,        \* of the world
    MaxCalls,     \* bound of the model: calls scripts make, over all starts
    MaxRestarts   \* bound of the model

ASSUME DefinitionsAssumption ==
    /\ BuiltinBlocks \subseteq Blocks /\ 3 \in BuiltinBlocks
    /\ Builtin \notin Names

VARIABLES
    seed,
    config,      \* worldgen.density, temperature
    biomes,      \* Seq of [name, block, heightField]
    ores,        \* Seq of [block, host, biome, of], of is the name it was given
    structures,  \* Seq of [block, foundation]
    rules,       \* Seq of [when, block]
    features,    \* Seq of [when, block]
    blocks,      \* serverWorld.hasBlockDefinition
    phase,       \* of the process: "loading", "running" (frozen) or "down"
    meta,        \* world/worldgen.meta
    madeBy,      \* history: definitions chunks were generated from
    calls, restarts

defined == <<seed, config, biomes, ores, structures, rules, features>>
vars == <<fields, defined, blocks, phase, meta, madeBy, calls, restarts>>

\* What world/worldgen.meta holds when there is none, and when a crash cut it
\* short; otherwise it holds a fingerprint.
NoFile == <<>>
Torn == <<"torn">>

Plains == [name |-> Builtin, block |-> 3, heightField |-> None]

\* Worldgen_Reset and an empty table of block definitions.
Fresh(s) ==
    /\ seed' = s
    /\ config' = [density |-> None, temperature |-> None]
    /\ biomes' = <<Plains>>
    /\ ores' = <<>> /\ structures' = <<>> /\ rules' = <<>> /\ features' = <<>>
    /\ fields' = <<>>
    /\ blocks' = {}

Init ==
    /\ seed \in Seeds
    /\ config = [density |-> None, temperature |-> None]
    /\ biomes = <<Plains>>
    /\ ores = <<>> /\ structures = <<>> /\ rules = <<>> /\ features = <<>>
    /\ fields = <<>>
    /\ blocks = {}
    /\ phase = "loading" /\ meta = NoFile /\ madeBy = {} /\ calls = 0 /\ restarts = 0

----------------------------------------------------------------------------
(* Calls of scripts, which registered callbacks may make at any time.      *)

AlwaysMutable == TRUE
\* worldgen.frozen is not set.
CheckDefinitionsMutable == phase = "loading"

Called ==
    /\ phase \in {"loading", "running"}
    /\ CheckDefinitionsMutable
    /\ calls < MaxCalls
    /\ calls' = calls + 1
    /\ UNCHANGED <<seed, phase, meta, madeBy, restarts>>

AnyField == 0 .. Len(fields)
\* ReadField of a parameter that must be a 2D field.
ColumnField == {None} \cup {i \in DOMAIN fields : fields[i].isColumnConstant}

CreateField(op, in, value) ==
    /\ Called
    /\ PushFieldNode(Node(op, in, value))
    /\ UNCHANGED <<config, biomes, ores, structures, rules, features, blocks>>

ConfigureWorldgen(density, temperature) ==
    /\ Called
    /\ config' = [density |-> density, temperature |-> temperature]
    /\ UNCHANGED <<fields, biomes, ores, structures, rules, features, blocks>>

OnlyOneSoFar == Len(biomes) = 1
\* The first biome of a mod takes the place of the built-in one.
OnlyBuiltin == Len(biomes) = 1 /\ biomes[1].name = Builtin

NamesOf(list) == {list[i].name : i \in DOMAIN list}

DefineBiome(name, block, heightField) ==
    /\ Called
    /\ name \notin NamesOf(biomes)
    /\ LET biome == [name |-> name, block |-> block, heightField |-> heightField]
       IN  biomes' = IF OnlyBuiltin THEN <<biome>> ELSE Append(biomes, biome)
    /\ UNCHANGED <<fields, config, ores, structures, rules, features, blocks>>

\* ReadBiomeIndex: the biome must have been registered.
ReadBiomeIndex(name) == CHOOSE i \in DOMAIN biomes : biomes[i].name = name

DefineOre(block, host, name) ==
    /\ Called
    /\ name \in NamesOf(biomes)
    /\ ores' = Append(ores, [block |-> block, host |-> host, biome |-> ReadBiomeIndex(name),
                             of |-> name])
    /\ UNCHANGED <<fields, config, biomes, structures, rules, features, blocks>>

DefineStructure(block, foundation) ==
    /\ Called
    /\ structures' = Append(structures, [block |-> block, foundation |-> foundation])
    /\ UNCHANGED <<fields, config, biomes, ores, rules, features, blocks>>

DefineMaterialRule(when, block) ==
    /\ Called
    /\ rules' = Append(rules, [when |-> when, block |-> block])
    /\ UNCHANGED <<fields, config, biomes, ores, structures, features, blocks>>

DefineFeature(when, block) ==
    /\ Called
    /\ when # None
    /\ features' = Append(features, [when |-> when, block |-> block])
    /\ UNCHANGED <<fields, config, biomes, ores, structures, rules, blocks>>

\* midless.define_block is not part of the world generator, and stays allowed.
DefineBlock(b) ==
    /\ phase \in {"loading", "running"}
    /\ calls < MaxCalls
    /\ calls' = calls + 1
    /\ blocks' = blocks \cup {b}
    /\ UNCHANGED <<fields, defined, phase, meta, madeBy, restarts>>

----------------------------------------------------------------------------
(* Worldgen_Freeze.                                                        *)

IsBlockDefined(b) == b \in BuiltinBlocks \cup blocks

BlocksButFoundations ==
    {rules[i].block : i \in DOMAIN rules} \cup {features[i].block : i \in DOMAIN features} \cup
    {biomes[i].block : i \in DOMAIN biomes} \cup
    (UNION {{ores[i].block, ores[i].host} : i \in DOMAIN ores}) \cup
    {structures[i].block : i \in DOMAIN structures}

\* The blocks ValidateBlockId is asked about.
Validated == BlocksButFoundations \cup {structures[i].foundation : i \in DOMAIN structures}

FingerprintOfCounts ==
    <<seed, config, Len(fields), Len(biomes), Len(ores), Len(structures), Len(rules), Len(features)>>

\* CalculateDefinitionFingerprint, taken to tell any two definitions apart.
Fingerprint == <<defined, fields>>

Valid == \A b \in Validated : IsBlockDefined(b)

Frozen ==
    /\ phase' = "running"
    /\ UNCHANGED <<fields, defined, blocks, madeBy, calls, restarts>>

Refused ==
    /\ phase' = "down"
    /\ UNCHANGED <<fields, defined, blocks, madeBy, calls, restarts>>

\* A new world is noted before anything is generated in it.
FreezeNewWorld ==
    /\ phase = "loading" /\ Valid
    /\ meta = NoFile
    /\ meta' = Fingerprint
    /\ Frozen

FreezeKnownWorld ==
    /\ phase = "loading" /\ Valid
    /\ meta = Fingerprint
    /\ UNCHANGED meta
    /\ Frozen

\* Undefined blocks, other definitions, or a file that cannot be written.
FreezeFails ==
    /\ phase = "loading"
    /\ ~Valid \/ meta # Fingerprint
    /\ UNCHANGED meta
    /\ Refused

\* An error in one mod, found after all have run, keeps the server from starting.
ModFails ==
    /\ phase = "loading"
    /\ UNCHANGED meta
    /\ Refused

\* A crash while the file is written, or at any other time; or a clean stop.
CrashInSave ==
    /\ phase = "loading" /\ Valid
    /\ meta = NoFile
    /\ meta' = Torn
    /\ Refused

Stop ==
    /\ phase = "running"
    /\ UNCHANGED meta
    /\ Refused

Restart(s) ==
    /\ phase = "down"
    /\ restarts < MaxRestarts
    /\ restarts' = restarts + 1
    /\ Fresh(s)
    /\ phase' = "loading"
    /\ UNCHANGED <<meta, madeBy, calls>>

----------------------------------------------------------------------------
(* Generation.                                                             *)

\* A chunk that is in no file is made by the definitions as they are.
Generate ==
    /\ phase = "running"
    /\ madeBy' = madeBy \cup {<<defined, fields>>}
    /\ UNCHANGED <<fields, defined, blocks, phase, meta, calls, restarts>>

ScriptCall ==
    \/ \E op \in Ops : \E in \in InputsOf(op, Len(fields)) :
          \E value \in (IF op = "constant" THEN Numbers ELSE {0}) : CreateField(op, in, value)
    \/ \E density \in AnyField, temperature \in ColumnField : ConfigureWorldgen(density, temperature)
    \/ \E name \in Names, b \in Blocks, f \in ColumnField : DefineBiome(name, b, f)
    \/ \E b, host \in Blocks, name \in Names \cup {Builtin} : DefineOre(b, host, name)
    \/ \E b, foundation \in Blocks : DefineStructure(b, foundation)
    \/ \E when \in AnyField, b \in Blocks : DefineMaterialRule(when, b) \/ DefineFeature(when, b)
    \/ \E b \in Blocks \ BuiltinBlocks : DefineBlock(b)

Next ==
    \/ ScriptCall
    \/ FreezeNewWorld \/ FreezeKnownWorld \/ FreezeFails \/ ModFails \/ CrashInSave
    \/ Stop \/ \E s \in Seeds : Restart(s)
    \/ Generate

Spec == Init /\ [][Next]_vars

----------------------------------------------------------------------------
(* Properties.                                                             *)

IsFlat(f) == f \in AnyField /\ (f # None => fields[f].isColumnConstant)

AllNames == Names \cup {Builtin}

\* Types, and every field a definition names is there; fields that must not
\* depend on height do not.
TypeOK ==
    /\ FieldsOK
    /\ biomes \in Seq([name : AllNames, block : Blocks, heightField : FieldIds])
    /\ ores \in Seq([block : Blocks, host : Blocks, biome : Nat, of : AllNames])
    /\ structures \in Seq([block : Blocks, foundation : Blocks])
    /\ rules \in Seq([when : FieldIds, block : Blocks])
    /\ features \in Seq([when : FieldIds, block : Blocks])
    /\ seed \in Seeds /\ phase \in {"loading", "running", "down"}
    /\ config \in [density : AnyField, temperature : AnyField] /\ IsFlat(config.temperature)
    /\ \A i \in DOMAIN biomes : IsFlat(biomes[i].heightField)
    /\ \A i \in DOMAIN ores : ores[i].biome \in DOMAIN biomes
    /\ \A i \in DOMAIN rules : rules[i].when \in AnyField
    /\ \A i \in DOMAIN features : features[i].when \in DOMAIN fields
    /\ blocks \subseteq Blocks
    /\ calls \in Nat /\ restarts \in Nat

\* All chunks of a world directory are made from the same definitions and
\* seed, through restarts, crashes and changes of mods.
OneWorld == Cardinality(madeBy) <= 1

\* Between starts, what a script has registered stays, and once chunks are
\* generated nothing of it changes.
DefinitionsKeep ==
    [][(restarts' = restarts =>
          /\ HandlesKeep
          /\ IsPrefix(ores, ores') /\ IsPrefix(structures, structures')
          /\ IsPrefix(rules, rules') /\ IsPrefix(features, features')
          /\ phase = "running" => UNCHANGED <<fields, defined>>)]_vars

\* An ore stays in the biome it was registered for, whatever is registered
\* later; the built-in biome is the one that may be replaced.
OresKeepTheirBiome ==
    \A i \in DOMAIN ores : ores[i].of # Builtin => biomes[ores[i].biome].name = ores[i].of

\* While chunks are made, remembering what has been computed never shows, and
\* what is taken to be the same all along a column is.
EvalIsPure == phase = "running" => EvalsArePure /\ FlatAreFlat

\* No generation begins with a block that is not defined, in any definition.
BlocksDefined ==
    phase = "running" =>
        \A b \in BlocksButFoundations \cup {structures[i].foundation : i \in DOMAIN structures} :
            IsBlockDefined(b)

\* Chunks were made from the definitions that the world's meta file records, and
\* a running server has just these; a world without the file has no chunks.
ChunksAreNoted ==
    /\ madeBy \subseteq {meta}
    /\ meta = NoFile => madeBy = {}
    /\ phase = "running" => meta = Fingerprint

\* The tables are well formed at every point of the loading of mods, and what
\* is generated is on record.
DefinitionsInvariant == TypeOK /\ BlocksDefined /\ ChunksAreNoted
=============================================================================
