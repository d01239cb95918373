----------------------- MODULE WorldDefinitionsProofs -----------------------
(***************************************************************************)
(* Proofs about the definitions of a world, for any number of calls,       *)
(* restarts and fields.  Scripts only ever add to the tables, so what was  *)
(* checked of an entry when it was made stays true of it; and the meta     *)
(* file, written once and before the first chunk, is all that later starts *)
(* are compared with.  Fields are made of earlier fields, so what a node   *)
(* is worth is found by going down to the first ones.                      *)
(***************************************************************************)
EXTENDS WorldDefinitions, SequenceFacts, FiniteSetTheorems

USE DefinitionsAssumption, FieldsAssumption

----------------------------------------------------------------------------
(* Tables that grow.                                                       *)

\* Everything of s is in t, at its place.
Grows(s, t) == Len(s) <= Len(t) /\ \A i \in DOMAIN s : i \in DOMAIN t /\ t[i] = s[i]

\* A definition that is registered keeps the ones before it.
LEMMA AppendGrows ==
    ASSUME NEW S, NEW s \in Seq(S), NEW e \in S
    PROVE  /\ Append(s, e) \in Seq(S) /\ Grows(s, Append(s, e))
           /\ Len(Append(s, e)) = Len(s) + 1 /\ Append(s, e)[Len(s) + 1] = e
           /\ DOMAIN Append(s, e) = DOMAIN s \cup {Len(s) + 1}
  BY DEF Grows

\* A list grows from itself.
LEMMA SameGrows ==
    ASSUME NEW S, NEW s \in Seq(S)
    PROVE  Grows(s, s)
  BY DEF Grows

\* A list that grew from another begins with it.
LEMMA GrowsIsPrefix ==
    ASSUME NEW S, NEW s \in Seq(S), NEW t \in Seq(S), Grows(s, t)
    PROVE  IsPrefix(s, t)
<1>1. SubSeq(s, 1, Len(s)) = SubSeq(t, 1, Len(s))
  BY DEF Grows
<1> QED
  BY <1>1 DEF IsPrefix, Grows

----------------------------------------------------------------------------
(* The graph of fields.                                                    *)

\* The inputs of a node are fields that were there before it.
LEMMA InputsAreFields ==
    ASSUME NEW n \in Nat, NEW op, NEW in \in InputsOf(op, n)
    PROVE  in \in (0 .. n) \X (0 .. n) \X (0 .. n)
<1>1. CASE op \in Leaves
  BY <1>1 DEF InputsOf, Absent, None
<1>2. CASE op \notin Leaves /\ op = "abs"
  BY <1>2 DEF InputsOf, None
<1>3. CASE op \notin Leaves /\ op = "add"
  BY <1>3 DEF InputsOf, None
<1>4. CASE op \notin Leaves /\ op = "select"
  BY <1>4 DEF InputsOf, None
<1>5. CASE op \notin Leaves /\ op \notin {"abs", "add", "select"}
  BY <1>5 DEF InputsOf, None
<1> QED
  BY <1>1, <1>2, <1>3, <1>4, <1>5

\* A field that a script creates is made of fields that are there, and is new
\* or one of them.
LEMMA PushKeeps ==
    ASSUME FieldsOK, NEW op \in Ops, NEW in \in InputsOf(op, Len(fields)),
           NEW value \in Numbers \cup {0}, PushFieldNode(Node(op, in, value))
    PROVE  FieldsOK' /\ Grows(fields, fields')
<1> DEFINE n == Node(op, in, value)
<1>1. fields \in Seq(FieldNodes) /\ Len(fields) \in Nat /\ Len(fields) <= MaxFields
  BY DEF FieldsOK
<1>2. in \in (0 .. Len(fields)) \X (0 .. Len(fields)) \X (0 .. Len(fields))
  BY <1>1, InputsAreFields
<1>3. n \in FieldNodes /\ n.in = in
  <2>1. IsColumnConstant(op, in) \in BOOLEAN
    BY DEF IsColumnConstant
  <2>2. in \in FieldIds \X FieldIds \X FieldIds
    BY <1>1, <1>2 DEF FieldIds
  <2> QED
    BY <2>1, <2>2 DEF Node, FieldNodes
<1> HIDE DEF n
<1>4. CASE fields' = fields
  BY <1>1, <1>4, SameGrows DEF FieldsOK, Same
<1>5. CASE /\ fields' = Append(fields, n) /\ Len(fields) < MaxFields
           /\ \A i \in DOMAIN fields : ~Same(fields[i], n)
  <2>1. /\ fields' \in Seq(FieldNodes) /\ Grows(fields, fields')
        /\ Len(fields') = Len(fields) + 1 /\ fields'[Len(fields) + 1] = n
        /\ DOMAIN fields' = DOMAIN fields \cup {Len(fields) + 1}
    BY <1>1, <1>3, <1>5, AppendGrows
  <2>2. DOMAIN fields = 1 .. Len(fields)
    BY <1>1
  <2>3. ASSUME NEW i \in DOMAIN fields'
        PROVE  /\ \A k \in 1 .. 3 : fields'[i].in[k] \in 0 .. (i - 1)
               /\ \A j \in 1 .. (i - 1) : ~Same(fields'[i], fields'[j])
    <3>1. CASE i \in DOMAIN fields
      <4>1. /\ fields'[i] = fields[i] /\ i \in 1 .. Len(fields)
            /\ \A j \in 1 .. (i - 1) : j \in DOMAIN fields
        BY <1>1, <2>1, <2>2, <3>1 DEF Grows
      <4>2. \A j \in 1 .. (i - 1) : fields'[j] = fields[j]
        BY <2>1, <4>1 DEF Grows
      <4>3. /\ \A k \in 1 .. 3 : fields[i].in[k] \in 0 .. (i - 1)
            /\ \A j \in 1 .. (i - 1) : ~Same(fields[i], fields[j])
        BY <3>1 DEF FieldsOK
      <4> QED
        BY <4>1, <4>2, <4>3
    <3>2. CASE i = Len(fields) + 1
      <4>1. fields'[i] = n /\ i - 1 = Len(fields)
        BY <1>1, <2>1, <3>2
      <4>2. \A j \in 1 .. (i - 1) : fields'[j] = fields[j] /\ ~Same(fields[j], n)
        BY <1>5, <2>1, <2>2, <4>1 DEF Grows
      <4>3. \A j \in 1 .. (i - 1) : ~Same(n, fields'[j])
        BY <4>2 DEF Same
      <4>4. \A k \in 1 .. 3 : n.in[k] \in 0 .. (i - 1)
        BY <1>2, <1>3, <4>1
      <4> QED
        BY <4>1, <4>3, <4>4
    <3> QED
      BY <2>1, <3>1, <3>2
  <2>4. Len(fields') <= MaxFields
    BY <1>1, <1>5, <2>1
  <2> QED
    BY <2>1, <2>3, <2>4 DEF FieldsOK
<1> QED
  BY <1>4, <1>5 DEF PushFieldNode, n

----------------------------------------------------------------------------
(* The calls of scripts.                                                   *)

\* A handle means the same field in a graph that has grown.
LEMMA HandlesStay ==
    ASSUME FieldsOK, FieldsOK', Grows(fields, fields')
    PROVE  /\ AnyField \subseteq AnyField' /\ DOMAIN fields \subseteq DOMAIN fields'
           /\ \A f : IsFlat(f) => IsFlat(f)'
<1>1. /\ Len(fields) \in Nat /\ Len(fields') \in Nat /\ Len(fields) <= Len(fields')
      /\ DOMAIN fields = 1 .. Len(fields) /\ DOMAIN fields' = 1 .. Len(fields')
  BY DEF FieldsOK, Grows
<1>2. ASSUME NEW f, IsFlat(f) PROVE IsFlat(f)'
  <2>1. f \in 0 .. Len(fields) /\ (f # None => fields[f].isColumnConstant)
    BY <1>2 DEF IsFlat, AnyField
  <2>2. f \in 0 .. Len(fields')
    BY <1>1, <2>1
  <2>3. f # None => f \in DOMAIN fields
    BY <1>1, <2>1 DEF None
  <2>4. f # None => fields'[f].isColumnConstant
    BY <2>1, <2>3 DEF Grows
  <2> QED
    BY <2>2, <2>4 DEF IsFlat, AnyField
<1> QED
  BY <1>1, <1>2 DEF AnyField

\* A field that a script may name has an id.
LEMMA AnyFieldIsId == ASSUME FieldsOK, NEW f \in AnyField PROVE f \in FieldIds
  BY DEF FieldsOK, AnyField, FieldIds

\* A field for columns is flat.
LEMMA ColumnFieldIsFlat ==
    ASSUME FieldsOK, NEW f \in ColumnField
    PROVE  IsFlat(f) /\ f \in FieldIds
<1>1. f \in AnyField
  BY DEF FieldsOK, ColumnField, AnyField, None
<1> QED
  BY <1>1, AnyFieldIsId DEF ColumnField, IsFlat

\* Calls of scripts are counted.
LEMMA CallsCount == ASSUME NEW n \in Nat, NEW m, m = n + 1 PROVE m \in Nat
  OBVIOUS

TablesOK == TypeOK /\ OresKeepTheirBiome

\* A field is created, or an equal one found.
LEMMA CreateFieldKeeps ==
    ASSUME TablesOK, NEW op \in Ops, NEW in \in InputsOf(op, Len(fields)),
           NEW value \in Numbers \cup {0}, CreateField(op, in, value)
    PROVE  TablesOK'
<1> USE DEF TablesOK
<1>0. calls' \in Nat
  BY CallsCount DEF CreateField, Called, TypeOK
<1>1. FieldsOK /\ FieldsOK' /\ Grows(fields, fields')
  BY PushKeeps DEF CreateField, TypeOK
<1>2. /\ AnyField \subseteq AnyField' /\ DOMAIN fields \subseteq DOMAIN fields'
      /\ \A f : IsFlat(f) => IsFlat(f)'
  BY <1>1, HandlesStay
<1>3. UNCHANGED <<seed, config, biomes, ores, structures, rules, features, blocks, phase, restarts>>
  BY DEF CreateField, Called
<1>4. config' \in [density : AnyField', temperature : AnyField'] /\ IsFlat(config.temperature)'
  BY <1>2, <1>3 DEF TypeOK
<1>5. TypeOK'
  BY <1>0, <1>1, <1>2, <1>3, <1>4 DEF TypeOK
<1> QED
  BY <1>3, <1>5 DEF OresKeepTheirBiome

\* midless.configure_worldgen.
LEMMA ConfigureWorldgenKeeps ==
    ASSUME TablesOK, NEW density \in AnyField, NEW temperature \in ColumnField,
           ConfigureWorldgen(density, temperature)
    PROVE  TablesOK'
<1> USE DEF TablesOK
<1>0. calls' \in Nat
  BY CallsCount DEF ConfigureWorldgen, Called, TypeOK
<1>1. UNCHANGED <<fields, seed, biomes, ores, structures, rules, features, blocks, phase, restarts>>
  BY DEF ConfigureWorldgen, Called
<1>2. config' = [density |-> density, temperature |-> temperature]
  BY DEF ConfigureWorldgen
<1>3. IsFlat(temperature)
  BY ColumnFieldIsFlat DEF TypeOK
<1>4. TypeOK'
  BY <1>0, <1>1, <1>2, <1>3 DEF TypeOK, FieldsOK, IsFlat, AnyField
<1> QED
  BY <1>1, <1>4 DEF OresKeepTheirBiome

\* The index of an ore's biome: the built-in biome may be replaced under it,
\* no other is ever moved.
LEMMA DefineBiomeKeeps ==
    ASSUME TablesOK, NEW name \in Names, NEW block \in Blocks, NEW f \in ColumnField,
           DefineBiome(name, block, f)
    PROVE  TablesOK'
<1> USE DEF TablesOK
<1>0. calls' \in Nat
  BY CallsCount DEF DefineBiome, Called, TypeOK
<1> DEFINE Biomes == [name : AllNames, block : Blocks, heightField : FieldIds]
           biome == [name |-> name, block |-> block, heightField |-> f]
<1>1. UNCHANGED <<fields, seed, config, ores, structures, rules, features, blocks, phase, restarts>>
  BY DEF DefineBiome, Called
<1>2. biomes' = IF OnlyBuiltin THEN <<biome>> ELSE Append(biomes, biome)
  BY DEF DefineBiome
<1>3. IsFlat(f) /\ f \in FieldIds
  BY ColumnFieldIsFlat DEF TypeOK
<1>4. biome \in Biomes /\ biome.heightField = f
  BY <1>3 DEF AllNames
<1>5. biomes \in Seq(Biomes) /\ ores \in Seq([block : Blocks, host : Blocks, biome : Nat, of : AllNames])
  BY DEF TypeOK
<1> HIDE DEF biome, Biomes
<1>6. /\ biomes' \in Seq(Biomes)
      /\ \A i \in DOMAIN biomes' : IsFlat(biomes'[i].heightField)
      /\ DOMAIN biomes \subseteq DOMAIN biomes'
      /\ ~OnlyBuiltin => \A i \in DOMAIN biomes : biomes'[i] = biomes[i]
  <2>1. CASE OnlyBuiltin
    BY <1>2, <1>3, <1>4, <1>5, <2>1, SingletonFacts DEF OnlyBuiltin
  <2>2. CASE ~OnlyBuiltin
    <3>1. \A i \in DOMAIN biomes : IsFlat(biomes[i].heightField)
      BY DEF TypeOK
    <3> QED
      BY <1>2, <1>3, <1>4, <1>5, <2>2, <3>1, AppendGrows DEF Grows
  <2> QED
    BY <2>1, <2>2
<1>7. \A g : IsFlat(g)' <=> IsFlat(g)
  BY <1>1 DEF IsFlat, AnyField
<1>8. TypeOK'
  BY <1>0, <1>1, <1>6, <1>7 DEF TypeOK, FieldsOK, AnyField, Biomes
<1>9. OresKeepTheirBiome'
  <2> SUFFICES ASSUME NEW i \in DOMAIN ores, ores[i].of # Builtin
               PROVE  biomes'[ores[i].biome].name = ores[i].of
    BY <1>1 DEF OresKeepTheirBiome
  <2>1. ores[i].biome \in DOMAIN biomes /\ biomes[ores[i].biome].name = ores[i].of
    BY DEF OresKeepTheirBiome, TypeOK
  <2>2. ~OnlyBuiltin
    <3>1. ASSUME OnlyBuiltin PROVE DOMAIN biomes = {1}
      BY <1>5, <3>1 DEF OnlyBuiltin
    <3> QED
      BY <2>1, <3>1 DEF OnlyBuiltin
  <2> QED
    BY <1>6, <2>1, <2>2
<1> QED
  BY <1>8, <1>9

\* midless.define_ore.
LEMMA DefineOreKeeps ==
    ASSUME TablesOK, NEW block \in Blocks, NEW host \in Blocks, NEW name \in AllNames,
           DefineOre(block, host, name)
    PROVE  TablesOK'
<1> USE DEF TablesOK
<1>0. calls' \in Nat
  BY CallsCount DEF DefineOre, Called, TypeOK
<1> DEFINE Ores == [block : Blocks, host : Blocks, biome : Nat, of : AllNames]
           at == ReadBiomeIndex(name)
           ore == [block |-> block, host |-> host, biome |-> at, of |-> name]
<1>1. UNCHANGED <<fields, seed, config, biomes, structures, rules, features, blocks, phase, restarts>>
  BY DEF DefineOre, Called
<1>2. ores' = Append(ores, ore) /\ name \in NamesOf(biomes)
  BY DEF DefineOre
<1>3. at \in DOMAIN biomes /\ biomes[at].name = name
  BY <1>2 DEF ReadBiomeIndex, NamesOf
<1>4. at \in Nat
  BY <1>3 DEF TypeOK
<1> HIDE DEF at
<1>5. ore \in Ores /\ ore.biome = at /\ ore.of = name
  BY <1>4
<1> HIDE DEF ore
<1>6. ores \in Seq(Ores)
  BY DEF TypeOK
<1>7. /\ ores' \in Seq(Ores)
      /\ \A i \in DOMAIN ores' : ores'[i] = ore \/ (i \in DOMAIN ores /\ ores'[i] = ores[i])
  BY <1>2, <1>5, <1>6, AppendGrows DEF Grows
<1>8. \A i \in DOMAIN ores' : ores'[i].biome \in DOMAIN biomes
  BY <1>3, <1>5, <1>7 DEF TypeOK
<1>9. TypeOK'
  BY <1>0, <1>1, <1>7, <1>8 DEF TypeOK, FieldsOK, IsFlat, AnyField
<1>10. OresKeepTheirBiome'
  BY <1>1, <1>3, <1>5, <1>7 DEF OresKeepTheirBiome
<1> QED
  BY <1>9, <1>10

\* midless.define_structure.
LEMMA DefineStructureKeeps ==
    ASSUME TablesOK, NEW block \in Blocks, NEW foundation \in Blocks,
           DefineStructure(block, foundation)
    PROVE  TablesOK'
<1> USE DEF TablesOK
<1>0. calls' \in Nat
  BY CallsCount DEF DefineStructure, Called, TypeOK
<1>1. UNCHANGED <<fields, seed, config, biomes, ores, rules, features, blocks, phase, restarts>>
  BY DEF DefineStructure, Called
<1>2. structures' \in Seq([block : Blocks, foundation : Blocks])
  BY AppendGrows DEF DefineStructure, TypeOK
<1>3. TypeOK'
  BY <1>0, <1>1, <1>2 DEF TypeOK, FieldsOK, IsFlat, AnyField
<1> QED
  BY <1>1, <1>3 DEF OresKeepTheirBiome

\* midless.define_material_rule.
LEMMA DefineMaterialRuleKeeps ==
    ASSUME TablesOK, NEW when \in AnyField, NEW block \in Blocks, DefineMaterialRule(when, block)
    PROVE  TablesOK'
<1> USE DEF TablesOK
<1>0. calls' \in Nat
  BY CallsCount DEF DefineMaterialRule, Called, TypeOK
<1> DEFINE r == [when |-> when, block |-> block]
<1>1. UNCHANGED <<fields, seed, config, biomes, ores, structures, features, blocks, phase, restarts>>
  BY DEF DefineMaterialRule, Called
<1>2. rules' = Append(rules, r) /\ rules \in Seq([when : FieldIds, block : Blocks])
  BY DEF DefineMaterialRule, TypeOK
<1>3. r \in [when : FieldIds, block : Blocks] /\ r.when = when
  BY AnyFieldIsId DEF TypeOK
<1> HIDE DEF r
<1>4. /\ rules' \in Seq([when : FieldIds, block : Blocks])
      /\ \A i \in DOMAIN rules' : rules'[i] = r \/ (i \in DOMAIN rules /\ rules'[i] = rules[i])
  BY <1>2, <1>3, AppendGrows DEF Grows
<1>5. TypeOK'
  BY <1>0, <1>1, <1>3, <1>4 DEF TypeOK, FieldsOK, IsFlat, AnyField
<1> QED
  BY <1>1, <1>5 DEF OresKeepTheirBiome

\* midless.define_feature.
LEMMA DefineFeatureKeeps ==
    ASSUME TablesOK, NEW when \in AnyField, NEW block \in Blocks, DefineFeature(when, block)
    PROVE  TablesOK'
<1> USE DEF TablesOK
<1>0. calls' \in Nat
  BY CallsCount DEF DefineFeature, Called, TypeOK
<1> DEFINE r == [when |-> when, block |-> block]
<1>1. UNCHANGED <<fields, seed, config, biomes, ores, structures, rules, blocks, phase, restarts>>
  BY DEF DefineFeature, Called
<1>2. /\ features' = Append(features, r) /\ features \in Seq([when : FieldIds, block : Blocks])
      /\ when \in DOMAIN fields
  BY DEF DefineFeature, TypeOK, FieldsOK, AnyField, None
<1>3. r \in [when : FieldIds, block : Blocks] /\ r.when = when
  BY AnyFieldIsId DEF TypeOK
<1> HIDE DEF r
<1>4. /\ features' \in Seq([when : FieldIds, block : Blocks])
      /\ \A i \in DOMAIN features' :
            features'[i] = r \/ (i \in DOMAIN features /\ features'[i] = features[i])
  BY <1>2, <1>3, AppendGrows DEF Grows
<1>5. TypeOK'
  BY <1>0, <1>1, <1>2, <1>3, <1>4 DEF TypeOK, FieldsOK, IsFlat, AnyField
<1> QED
  BY <1>1, <1>5 DEF OresKeepTheirBiome

\* A call of a script adds to a table, in the loading phase only, or defines a
\* block.
LEMMA ScriptCallKeeps ==
    ASSUME TablesOK, ScriptCall
    PROVE  /\ TablesOK'
           /\ UNCHANGED <<phase, meta, madeBy, restarts>>
           /\ \/ phase = "loading"
              \/ UNCHANGED <<fields, defined>> /\ blocks \subseteq blocks'
<1>1. ASSUME NEW op \in Ops, NEW in \in InputsOf(op, Len(fields)),
             NEW value \in (IF op = "constant" THEN Numbers ELSE {0}),
             CreateField(op, in, value)
      PROVE  TablesOK' /\ Called
  <2>1. value \in Numbers \cup {0}
    OBVIOUS
  <2> QED
    BY <1>1, <2>1, CreateFieldKeeps DEF CreateField
<1>2. ASSUME NEW density \in AnyField, NEW temperature \in ColumnField,
             ConfigureWorldgen(density, temperature)
      PROVE  TablesOK' /\ Called
  BY <1>2, ConfigureWorldgenKeeps DEF ConfigureWorldgen
<1>3. ASSUME NEW name \in Names, NEW b \in Blocks, NEW f \in ColumnField, DefineBiome(name, b, f)
      PROVE  TablesOK' /\ Called
  BY <1>3, DefineBiomeKeeps DEF DefineBiome
<1>4. ASSUME NEW b \in Blocks, NEW host \in Blocks, NEW name \in Names \cup {Builtin},
             DefineOre(b, host, name)
      PROVE  TablesOK' /\ Called
  <2>1. name \in AllNames
    BY DEF AllNames
  <2> QED
    BY <1>4, <2>1, DefineOreKeeps DEF DefineOre
<1>5. ASSUME NEW b \in Blocks, NEW foundation \in Blocks, DefineStructure(b, foundation)
      PROVE  TablesOK' /\ Called
  BY <1>5, DefineStructureKeeps DEF DefineStructure
<1>6. ASSUME NEW when \in AnyField, NEW b \in Blocks, DefineMaterialRule(when, b)
      PROVE  TablesOK' /\ Called
  BY <1>6, DefineMaterialRuleKeeps DEF DefineMaterialRule
<1>7. ASSUME NEW when \in AnyField, NEW b \in Blocks, DefineFeature(when, b)
      PROVE  TablesOK' /\ Called
  BY <1>7, DefineFeatureKeeps DEF DefineFeature
<1>8. ASSUME NEW b \in Blocks \ BuiltinBlocks, DefineBlock(b)
      PROVE  /\ TablesOK' /\ UNCHANGED <<fields, defined, phase, meta, madeBy, restarts>>
             /\ blocks \subseteq blocks'
  <2>1. calls' \in Nat
    BY <1>8, CallsCount DEF DefineBlock, TablesOK, TypeOK
  <2> QED
    BY <1>8, <2>1 DEF DefineBlock, defined, TablesOK, TypeOK, FieldsOK, IsFlat, AnyField,
     OresKeepTheirBiome
<1>9. Called => phase = "loading" /\ UNCHANGED <<phase, meta, madeBy, restarts>>
  BY DEF Called, CheckDefinitionsMutable
<1> QED
  BY <1>1, <1>2, <1>3, <1>4, <1>5, <1>6, <1>7, <1>8, <1>9 DEF ScriptCall

----------------------------------------------------------------------------
(* Starts, stops and crashes.                                              *)

\* A step that starts or stops the server, or generates, and leaves the
\* definitions alone.
Lifecycle ==
    FreezeNewWorld \/ FreezeKnownWorld \/ FreezeFails \/ ModFails \/ CrashInSave \/ Stop
    \/ Generate

\* A step that leaves the definitions alone.
LEMMA SameTables ==
    ASSUME TablesOK, UNCHANGED <<fields, defined, blocks, calls, restarts>>,
           phase' \in {"loading", "running", "down"}
    PROVE  TablesOK'
  BY DEF TablesOK, TypeOK, FieldsOK, IsFlat, AnyField, OresKeepTheirBiome, defined

\* The server loads mods, checks what they defined, runs, and stops.
LEMMA LifecycleKeeps ==
    ASSUME TablesOK, Lifecycle
    PROVE  TablesOK' /\ UNCHANGED <<fields, defined, blocks, restarts>>
<1>1. /\ UNCHANGED <<fields, defined, blocks, calls, restarts>>
      /\ phase' \in {"loading", "running", "down"}
  BY DEF Lifecycle, FreezeNewWorld, FreezeKnownWorld, FreezeFails, ModFails, CrashInSave, Stop,
     Generate, Frozen, Refused
<1> QED
  BY <1>1, SameTables

\* The server starts again, without definitions.
LEMMA RestartKeeps ==
    ASSUME TablesOK, NEW s \in Seeds, Restart(s)
    PROVE  TablesOK'
<1>1. /\ seed' = s /\ config' = [density |-> None, temperature |-> None]
      /\ biomes' = <<Plains>> /\ ores' = <<>> /\ structures' = <<>> /\ rules' = <<>>
      /\ features' = <<>> /\ fields' = <<>> /\ blocks' = {} /\ phase' = "loading"
      /\ calls' = calls
  BY DEF Restart, Fresh
<1>c. restarts' \in Nat
  BY CallsCount DEF Restart, TablesOK, TypeOK
<1>2. Plains \in [name : AllNames, block : Blocks, heightField : FieldIds]
  BY DEF Plains, AllNames, FieldIds, None
<1> HIDE DEF Plains
<1>3. FieldsOK'
  BY <1>1 DEF FieldsOK
<1>4. IsFlat(None)' /\ Plains.heightField = None
  BY <1>1 DEF IsFlat, AnyField, None, Plains
<1>5. config' \in [density : AnyField', temperature : AnyField'] /\ IsFlat(config.temperature)'
  BY <1>1, <1>4 DEF IsFlat
<1>6. TypeOK'
  BY <1>1, <1>2, <1>3, <1>4, <1>5, <1>c DEF TablesOK, TypeOK
<1> QED
  BY <1>1, <1>6 DEF TablesOK, OresKeepTheirBiome

\* Nothing is defined at first.
LEMMA InitTables == Init => TablesOK
<1> SUFFICES ASSUME Init PROVE TablesOK
  OBVIOUS
<1>1. Plains \in [name : AllNames, block : Blocks, heightField : FieldIds]
  BY DEF Plains, AllNames, FieldIds, None
<1>2. Plains.heightField = None
  BY DEF Plains
<1> HIDE DEF Plains
<1>3. FieldsOK
  BY DEF Init, FieldsOK
<1>4. IsFlat(None)
  BY DEF Init, IsFlat, AnyField, None
<1>5. config \in [density : AnyField, temperature : AnyField] /\ IsFlat(config.temperature)
  BY <1>4 DEF Init, IsFlat
<1>6. TypeOK
  BY <1>1, <1>2, <1>3, <1>4, <1>5 DEF Init, TypeOK
<1> QED
  BY <1>6 DEF Init, TablesOK, OresKeepTheirBiome

\* What the server is frozen with was checked, and nothing of it changes after.
LEMMA BlocksKeep ==
    ASSUME BlocksDefined, [Next]_vars, TablesOK
    PROVE  BlocksDefined'
<1> DEFINE V == BlocksButFoundations \cup {structures[i].foundation : i \in DOMAIN structures}
<1>1. UNCHANGED defined => V' = V
  BY DEF defined, BlocksButFoundations
<1>2. CASE phase' = "running" /\ phase = "running"
  <2>1. UNCHANGED defined /\ blocks \subseteq blocks'
    <3>1. CASE ScriptCall
      BY <1>2, <3>1, ScriptCallKeeps
    <3>2. CASE Lifecycle
      BY <3>2, LifecycleKeeps
    <3>3. CASE \E s \in Seeds : Restart(s)
      BY <1>2, <3>3 DEF Restart
    <3>4. CASE UNCHANGED vars
      BY <3>4 DEF vars, defined
    <3> QED
      BY <3>1, <3>2, <3>3, <3>4 DEF Next, Lifecycle
  <2> QED
    BY <1>1, <1>2, <2>1 DEF BlocksDefined, IsBlockDefined
<1>3. CASE phase' = "running" /\ phase # "running"
  <2>1. Valid /\ UNCHANGED <<defined, blocks>>
    <3>1. CASE ScriptCall
      BY <1>3, <3>1, ScriptCallKeeps
    <3>2. CASE Lifecycle
      BY <1>3, <3>2, LifecycleKeeps DEF Lifecycle, FreezeNewWorld, FreezeKnownWorld, FreezeFails,
         ModFails, CrashInSave, Stop, Generate, Refused
    <3>3. CASE \E s \in Seeds : Restart(s)
      BY <1>3, <3>3 DEF Restart
    <3>4. CASE UNCHANGED vars
      BY <1>3, <3>4 DEF vars
    <3> QED
      BY <3>1, <3>2, <3>3, <3>4 DEF Next, Lifecycle
  <2>2. \A b \in V : IsBlockDefined(b)
    BY <2>1 DEF Valid, Validated
  <2> QED
    BY <1>1, <2>1, <2>2 DEF BlocksDefined, IsBlockDefined
<1> QED
  BY <1>2, <1>3 DEF BlocksDefined

\* The meta file is written before the first chunk is made, and never again.
LEMMA NotesKeep ==
    ASSUME ChunksAreNoted, [Next]_vars, TablesOK
    PROVE  ChunksAreNoted'
<1>1. Fingerprint # NoFile
  BY DEF Fingerprint, NoFile
<1>2. UNCHANGED <<fields, defined>> => Fingerprint' = Fingerprint
  BY DEF Fingerprint, defined
<1>3. CASE ScriptCall
  BY <1>2, <1>3, ScriptCallKeeps DEF ChunksAreNoted
<1>4. CASE FreezeNewWorld
  BY <1>1, <1>2, <1>4 DEF FreezeNewWorld, Frozen, ChunksAreNoted
<1>5. CASE FreezeKnownWorld
  BY <1>2, <1>5 DEF FreezeKnownWorld, Frozen, ChunksAreNoted
<1>6. CASE FreezeFails \/ ModFails \/ Stop
  BY <1>6 DEF FreezeFails, ModFails, Stop, Refused, ChunksAreNoted
<1>7. CASE CrashInSave
  BY <1>7 DEF CrashInSave, Refused, ChunksAreNoted, NoFile, Torn
<1>8. CASE Generate
  <2>1. meta = Fingerprint /\ madeBy' = madeBy \cup {Fingerprint} /\ UNCHANGED <<phase, meta>>
    BY <1>8 DEF Generate, ChunksAreNoted, Fingerprint
  <2>2. Fingerprint' = Fingerprint
    BY <1>2, <1>8 DEF Generate
  <2> QED
    BY <1>1, <2>1, <2>2 DEF ChunksAreNoted
<1>9. CASE \E s \in Seeds : Restart(s)
  BY <1>9 DEF Restart, ChunksAreNoted
<1>10. CASE UNCHANGED vars
  BY <1>2, <1>10 DEF vars, ChunksAreNoted
<1> QED
  BY <1>3, <1>4, <1>5, <1>6, <1>7, <1>8, <1>9, <1>10 DEF Next

----------------------------------------------------------------------------
(* The theorems.                                                           *)

WorldInvariant == DefinitionsInvariant /\ OresKeepTheirBiome

\* Every step keeps it.
LEMMA WorldStep == WorldInvariant /\ [Next]_vars => WorldInvariant'
<1> SUFFICES ASSUME WorldInvariant, [Next]_vars PROVE WorldInvariant'
  OBVIOUS
<1>1. TablesOK /\ BlocksDefined /\ ChunksAreNoted
  BY DEF WorldInvariant, DefinitionsInvariant, TablesOK
<1>2. TablesOK'
  <2>1. CASE ScriptCall
    BY <1>1, <2>1, ScriptCallKeeps
  <2>2. CASE Lifecycle
    BY <1>1, <2>2, LifecycleKeeps
  <2>3. CASE \E s \in Seeds : Restart(s)
    BY <1>1, <2>3, RestartKeeps
  <2>4. CASE UNCHANGED vars
    BY <1>1, <2>4, SameTables DEF vars, TablesOK, TypeOK
  <2> QED
    BY <2>1, <2>2, <2>3, <2>4 DEF Next, Lifecycle
<1>3. BlocksDefined' /\ ChunksAreNoted'
  BY <1>1, BlocksKeep, NotesKeep
<1> QED
  BY <1>2, <1>3 DEF WorldInvariant, DefinitionsInvariant, TablesOK

\* So it is always.
LEMMA WorldInvariantHolds == Spec => []WorldInvariant
<1>1. Init => WorldInvariant
  BY InitTables DEF Init, WorldInvariant, DefinitionsInvariant, TablesOK, BlocksDefined,
     ChunksAreNoted
<1> QED
  BY <1>1, WorldStep, PTL DEF Spec

\* The tables of definitions are well formed, no chunk is generated with an
\* undefined block, and what chunks are made from is what the meta file records,
\* whatever scripts call in whatever order.
THEOREM DefinitionsInvariantHolds == Spec => []DefinitionsInvariant
<1>1. WorldInvariant => DefinitionsInvariant
  BY DEF WorldInvariant
<1> QED
  BY <1>1, WorldInvariantHolds, PTL

\* An ore stays in the biome it was registered for.
THEOREM OresKeepTheirBiomeHolds == Spec => []OresKeepTheirBiome
<1>1. WorldInvariant => OresKeepTheirBiome
  BY DEF WorldInvariant
<1> QED
  BY <1>1, WorldInvariantHolds, PTL

\* All chunks of a world are made from the same definitions and seed, through
\* any number of restarts, crashes and changes of mods.
THEOREM OneWorldHolds == Spec => []OneWorld
<1>1. WorldInvariant => OneWorld
  <2> SUFFICES ASSUME madeBy \subseteq {meta} PROVE Cardinality(madeBy) <= 1
    BY DEF WorldInvariant, DefinitionsInvariant, ChunksAreNoted, OneWorld
  <2>1. madeBy = {} \/ madeBy = {meta}
    OBVIOUS
  <2>2. Cardinality({}) = 0 /\ Cardinality({meta}) = 1
    BY FS_EmptySet, FS_Singleton
  <2> QED
    BY <2>1, <2>2
<1> QED
  BY <1>1, WorldInvariantHolds, PTL

\* A handle a script holds keeps its meaning until the server stops, what it
\* registered is not forgotten, and nothing of it changes once the server runs.
THEOREM DefinitionsKeepHolds == Spec => DefinitionsKeep
<1> DEFINE Keeps ==
        restarts' = restarts =>
          /\ HandlesKeep
          /\ IsPrefix(ores, ores') /\ IsPrefix(structures, structures')
          /\ IsPrefix(rules, rules') /\ IsPrefix(features, features')
          /\ phase = "running" => UNCHANGED <<fields, defined>>
<1>1. ASSUME WorldInvariant, WorldInvariant', Next PROVE Keeps
  <2>1. TablesOK /\ TablesOK'
    BY <1>1 DEF WorldInvariant, DefinitionsInvariant, TablesOK
  <2> DEFINE Grown == /\ Grows(fields, fields') /\ Grows(ores, ores')
                      /\ Grows(structures, structures') /\ Grows(rules, rules')
                      /\ Grows(features, features')
  <2>2. Grown => /\ HandlesKeep
                 /\ IsPrefix(ores, ores') /\ IsPrefix(structures, structures')
                 /\ IsPrefix(rules, rules') /\ IsPrefix(features, features')
    <3>1. Grows(fields, fields') => IsPrefix(fields, fields')
      BY <2>1, GrowsIsPrefix DEF TablesOK, TypeOK, FieldsOK
    <3>2. Grows(ores, ores') => IsPrefix(ores, ores')
      BY <2>1, GrowsIsPrefix DEF TablesOK, TypeOK
    <3>3. Grows(structures, structures') => IsPrefix(structures, structures')
      BY <2>1, GrowsIsPrefix DEF TablesOK, TypeOK
    <3>4. Grows(rules, rules') => IsPrefix(rules, rules')
      BY <2>1, GrowsIsPrefix DEF TablesOK, TypeOK
    <3>5. Grows(features, features') => IsPrefix(features, features')
      BY <2>1, GrowsIsPrefix DEF TablesOK, TypeOK
    <3> QED
      BY <3>1, <3>2, <3>3, <3>4, <3>5 DEF HandlesKeep
  <2>3. /\ Grows(fields, fields) /\ Grows(ores, ores) /\ Grows(structures, structures)
        /\ Grows(rules, rules) /\ Grows(features, features)
    BY <2>1 DEF Grows, TablesOK, TypeOK, FieldsOK
  <2>4. UNCHANGED <<fields, defined>> => Grown
    BY <2>3 DEF defined
  <2>5. CASE ScriptCall
    <3>1. phase = "running" => UNCHANGED <<fields, defined>>
      BY <2>1, <2>5, ScriptCallKeeps
    <3>2. Grown
      <4>1. ASSUME NEW op \in Ops, NEW in \in InputsOf(op, Len(fields)),
                   NEW value \in (IF op = "constant" THEN Numbers ELSE {0}),
                   CreateField(op, in, value)
            PROVE  Grown
        <5>1. Grows(fields, fields')
          <6>1. value \in Numbers \cup {0}
            OBVIOUS
          <6> QED
            BY <2>1, <4>1, <6>1, PushKeeps DEF CreateField, TablesOK, TypeOK
        <5> QED
          BY <2>3, <4>1, <5>1 DEF CreateField
      <4>2. ASSUME NEW b \in Blocks, NEW host \in Blocks, NEW name \in Names \cup {Builtin},
                   DefineOre(b, host, name)
            PROVE  Grown
        <5>1. Grows(ores, ores')
          BY SMTT(30), <2>1, <4>2 DEF DefineOre, Grows, TablesOK, TypeOK
        <5> QED
          BY <2>3, <4>2, <5>1 DEF DefineOre
      <4>3. ASSUME NEW b \in Blocks, NEW foundation \in Blocks, DefineStructure(b, foundation)
            PROVE  Grown
        <5>1. Grows(structures, structures')
          BY <2>1, <4>3 DEF DefineStructure, Grows, TablesOK, TypeOK
        <5> QED
          BY <2>3, <4>3, <5>1 DEF DefineStructure
      <4>4. ASSUME NEW when \in AnyField, NEW b \in Blocks, DefineMaterialRule(when, b)
            PROVE  Grown
        <5>1. Grows(rules, rules')
          BY <2>1, <4>4 DEF DefineMaterialRule, Grows, TablesOK, TypeOK
        <5> QED
          BY <2>3, <4>4, <5>1 DEF DefineMaterialRule
      <4>5. ASSUME NEW when \in AnyField, NEW b \in Blocks, DefineFeature(when, b)
            PROVE  Grown
        <5>1. Grows(features, features')
          BY <2>1, <4>5 DEF DefineFeature, Grows, TablesOK, TypeOK
        <5> QED
          BY <2>3, <4>5, <5>1 DEF DefineFeature
      <4>6. ASSUME NEW b \in Blocks \ BuiltinBlocks, DefineBlock(b) PROVE Grown
        BY <2>4, <4>6 DEF DefineBlock
      <4>7. CASE \/ \E density \in AnyField, temperature \in ColumnField :
                       ConfigureWorldgen(density, temperature)
                 \/ \E name \in Names, b \in Blocks, f \in ColumnField : DefineBiome(name, b, f)
        BY <2>3, <4>7 DEF ConfigureWorldgen, DefineBiome
      <4> QED
        BY <2>5, <4>1, <4>2, <4>3, <4>4, <4>5, <4>6, <4>7 DEF ScriptCall
    <3> QED
      BY <2>2, <3>1, <3>2
  <2>6. CASE Lifecycle
    BY <2>1, <2>2, <2>4, <2>6, LifecycleKeeps
  <2>7. CASE \E s \in Seeds : Restart(s)
    <3>1. restarts' = restarts + 1 /\ restarts \in Nat
      BY <2>1, <2>7 DEF Restart, TablesOK, TypeOK
    <3> QED
      BY <3>1
  <2> QED
    BY <1>1, <2>5, <2>6, <2>7 DEF Next, Lifecycle
<1>2. WorldInvariant /\ WorldInvariant' /\ [Next]_vars => [Keeps]_vars
  BY <1>1
<1> QED
  BY <1>2, WorldInvariantHolds, PTL DEF Spec, DefinitionsKeep, Keeps

----------------------------------------------------------------------------
(* Evaluation.  A node looks at fields made before it only, so its value   *)
(* is a matter of those; where two evaluations differ there is a first     *)
(* field they differ at, and its inputs do not.                            *)

\* A property that passes from the fields before one to it is one of all.
\* (Bad holds those that lack it.)
LEMMA NoFirst ==
    ASSUME NEW n \in Nat, NEW Bad \in SUBSET (1 .. n),
           \A i \in Bad : \E j \in Bad : j < i
    PROVE  Bad = {}
<1>1. Bad \in SUBSET Nat
  OBVIOUS
<1>2. ASSUME Bad # {} PROVE FALSE
  <2>1. PICK i \in Bad : \A j \in Bad : i <= j
    BY <1>1, <1>2, LeastOne
  <2>2. PICK j \in Bad : j < i
    BY <2>1
  <2> QED
    BY <1>1, <2>1, <2>2
<1> QED
  BY <1>2

\* Where the fields are, and where the inputs of one are.
LEMMA FieldFacts ==
    ASSUME FieldsOK
    PROVE  /\ Len(fields) \in Nat /\ DOMAIN fields = 1 .. Len(fields)
           /\ \A i \in DOMAIN fields :
                 /\ fields[i] \in FieldNodes /\ fields[i].op \in Operations
                 /\ \A k \in 1 .. 3 : fields[i].in[k] \in Nat /\ fields[i].in[k] < i
                 /\ \A k \in 1 .. 3 : fields[i].in[k] # None => fields[i].in[k] \in DOMAIN fields
<1>1. Len(fields) \in Nat /\ DOMAIN fields = 1 .. Len(fields)
  BY DEF FieldsOK
<1>2. ASSUME NEW i \in DOMAIN fields
      PROVE  /\ fields[i] \in FieldNodes /\ fields[i].op \in Operations
             /\ \A k \in 1 .. 3 : fields[i].in[k] \in Nat /\ fields[i].in[k] < i
             /\ \A k \in 1 .. 3 : fields[i].in[k] # None => fields[i].in[k] \in DOMAIN fields
  <2>1. fields[i] \in FieldNodes
    BY <1>1 DEF FieldsOK
  <2>2. fields[i].op \in Operations
    BY <2>1 DEF FieldNodes
  <2>3. \A k \in 1 .. 3 : fields[i].in[k] \in 0 .. (i - 1)
    BY DEF FieldsOK
  <2>4. i \in Nat /\ i <= Len(fields)
    BY <1>1
  <2>5. ASSUME NEW k \in 1 .. 3
        PROVE  /\ fields[i].in[k] \in Nat /\ fields[i].in[k] < i
               /\ fields[i].in[k] # None => fields[i].in[k] \in DOMAIN fields
    <3> DEFINE j == fields[i].in[k]
    <3>1. j \in 0 .. (i - 1)
      BY <2>3
    <3> HIDE DEF j
    <3>2. j \in Nat /\ j < i /\ (j # None => j \in DOMAIN fields)
      BY <1>1, <2>4, <3>1 DEF None
    <3> QED
      BY <3>2 DEF j
  <2> QED
    BY <2>1, <2>2, <2>5
<1> QED
  BY <1>1, <1>2

\* A node computes the same from the same values of its inputs, in contexts of
\* the same position, origin and step.
LEMMA SameInputs ==
    ASSUME NEW n \in FieldNodes, NEW v, NEW w, NEW at, NEW there,
           at.position = there.position, at.origin = there.origin, at.step = there.step,
           \A k \in 1 .. 3 : n.in[k] # None => v[n.in[k]] = w[n.in[k]]
    PROVE  Computed(n, v, at) = Computed(n, w, there)
<1>1. \A d : /\ Coordinate(v, n.in[1], d) = Coordinate(w, n.in[1], d)
             /\ Coordinate(v, n.in[2], d) = Coordinate(w, n.in[2], d)
             /\ Coordinate(v, n.in[3], d) = Coordinate(w, n.in[3], d)
  BY DEF Coordinate
<1> QED
  BY <1>1 DEF Computed

\* A node that is flat computes the same wherever x is.
LEMMA FlatComputes ==
    ASSUME NEW n \in FieldNodes, n.op \in Operations, NEW v, NEW w, NEW at, NEW there,
           at.position.x = there.position.x,
           n.op \notin {"y", "origin_x", "origin_y", "step", "local_index"},
           n.op = "noise3" => n.in[2] # None,
           \A k \in 1 .. 3 : n.in[k] # None => v[n.in[k]] = w[n.in[k]]
    PROVE  Computed(n, v, at) = Computed(n, w, there)
<1>1. \A d : /\ Coordinate(v, n.in[1], d) = Coordinate(w, n.in[1], d)
             /\ Coordinate(v, n.in[2], d) = Coordinate(w, n.in[2], d)
             /\ Coordinate(v, n.in[3], d) = Coordinate(w, n.in[3], d)
  BY DEF Coordinate
<1>2. n.in[2] # None => Coordinate(v, n.in[2], at.position.y) = Coordinate(w, n.in[2], there.position.y)
  BY DEF Coordinate
<1> QED
  BY <1>1, <1>2 DEF Computed, Operations, Leaves

\* Fields R have been remembered as w; values are found for the others.
Finds(v, R, w, at) ==
    v = [i \in DOMAIN fields |-> IF i \in R THEN w[i] ELSE Computed(fields[i], v, at)]

\* The recursion of Worldgen_Eval ends.
LEMMA ValuesExist ==
    ASSUME FieldsOK, NEW R, NEW w, NEW at
    PROVE  \E v : Finds(v, R, w, at)
<1> DEFINE Body(v, i) == IF i \in R THEN w[i] ELSE Computed(fields[i], v, at)
           Upto(n) == \E v : DOMAIN v = 1 .. n /\ \A i \in 1 .. n : v[i] = Body(v, i)
           Bad == {n \in 0 .. Len(fields) : ~Upto(n)}
<1>1. Len(fields) \in Nat /\ DOMAIN fields = 1 .. Len(fields)
  BY FieldFacts
<1>2. Upto(0)
  <2> DEFINE v == [k \in 1 .. 0 |-> 0]
  <2>1. DOMAIN v = 1 .. 0 /\ \A i \in 1 .. 0 : FALSE
    OBVIOUS
  <2> HIDE DEF v, Body
  <2> QED
    BY <2>1
<1>3. ASSUME NEW n \in 1 .. Len(fields), Upto(n - 1) PROVE Upto(n)
  <2> HIDE DEF Body
  <2>1. PICK v : DOMAIN v = 1 .. n - 1 /\ \A i \in 1 .. n - 1 : v[i] = Body(v, i)
    BY <1>3
  <2> DEFINE g == [i \in 1 .. n |-> IF i = n THEN Body(v, n) ELSE v[i]]
  <2>2. DOMAIN g = 1 .. n /\ g[n] = Body(v, n)
    OBVIOUS
  <2>3. \A i \in 1 .. n - 1 : i \in 1 .. n /\ i # n /\ g[i] = v[i]
    OBVIOUS
  <2> HIDE DEF g
  <2>4. ASSUME NEW i \in 1 .. n PROVE Body(v, i) = Body(g, i)
    <3>1. /\ fields[i] \in FieldNodes
          /\ \A k \in 1 .. 3 : fields[i].in[k] # None => fields[i].in[k] \in 1 .. n - 1
      <4>1. i \in DOMAIN fields /\ i \in Nat /\ n \in Nat /\ i <= n
        BY <1>1
      <4>2. \A k \in 1 .. 3 : fields[i].in[k] # None => fields[i].in[k] \in Nat \ {0} /\ fields[i].in[k] < i
        BY <4>1, FieldFacts DEF None
      <4> QED
        BY <4>1, <4>2, FieldFacts
    <3>2. \A k \in 1 .. 3 : fields[i].in[k] # None => v[fields[i].in[k]] = g[fields[i].in[k]]
      BY <2>3, <3>1
    <3>3. Computed(fields[i], v, at) = Computed(fields[i], g, at)
      BY <3>1, <3>2, SameInputs
    <3> QED
      BY <3>3 DEF Body
  <2>5. ASSUME NEW i \in 1 .. n PROVE g[i] = Body(g, i)
    <3>1. CASE i = n
      BY <2>2, <2>4, <3>1
    <3>2. CASE i # n
      <4>1. i \in 1 .. n - 1
        BY <3>2
      <4> QED
        BY <2>1, <2>3, <2>4, <4>1
    <3> QED
      BY <3>1, <3>2
  <2> QED
    BY <2>2, <2>5
<1>4. Bad = {}
  <2> SUFFICES ASSUME Bad # {} PROVE FALSE
    OBVIOUS
  <2> HIDE DEF Upto
  <2>1. Bad \in SUBSET Nat
    OBVIOUS
  <2>2. PICK n \in Bad : \A k \in Bad : n <= k
    <3> HIDE DEF Bad
    <3> QED
      BY <2>1, LeastOne
  <2>3. n \in 1 .. Len(fields) /\ n - 1 \in 0 .. Len(fields) /\ n - 1 \notin Bad
    BY <1>1, <1>2, <2>2
  <2> QED
    BY <1>3, <2>2, <2>3
<1>5. PICK v : DOMAIN v = 1 .. Len(fields) /\ \A i \in 1 .. Len(fields) : v[i] = Body(v, i)
  <2>1. Len(fields) \in 0 .. Len(fields) /\ Len(fields) \notin Bad
    BY <1>1, <1>4
  <2> HIDE DEF Body
  <2> QED
    BY <2>1
<1> DEFINE g == [i \in DOMAIN fields |-> v[i]]
<1>6. \A i \in DOMAIN fields : g[i] = v[i]
  OBVIOUS
<1>7. g = [i \in DOMAIN fields |-> g[i]]
  OBVIOUS
<1> HIDE DEF g
<1>8. ASSUME NEW i \in DOMAIN fields PROVE g[i] = Body(g, i)
  <2>1. /\ fields[i] \in FieldNodes
        /\ \A k \in 1 .. 3 : fields[i].in[k] # None => v[fields[i].in[k]] = g[fields[i].in[k]]
    BY <1>6, FieldFacts
  <2>2. Computed(fields[i], v, at) = Computed(fields[i], g, at)
    BY <2>1, SameInputs
  <2> QED
    BY <1>1, <1>5, <1>6, <2>2
<1>9. g = [i \in DOMAIN fields |-> Body(g, i)]
  <2> HIDE DEF Body
  <2> QED
    BY <1>7, <1>8
<1> QED
  BY <1>9 DEF Finds

\* The value of a field that is found is the one it is computed to.
LEMMA FoundIs ==
    ASSUME FieldsOK, NEW at
    PROVE  /\ DOMAIN Found(at) = DOMAIN fields
           /\ \A i \in DOMAIN fields :
                 Found(at)[i] = IF Remembered(i, at) THEN at.values[i]
                                ELSE Computed(fields[i], Found(at), at)
<1> DEFINE R == {i \in DOMAIN fields : Remembered(i, at)}
           Now(v) == [i \in DOMAIN fields |->
                         IF Remembered(i, at) THEN at.values[i] ELSE Computed(fields[i], v, at)]
           f == CHOOSE v : v = Now(v)
<1>1. PICK v : Finds(v, R, at.values, at)
  BY ValuesExist
<1>2. v = Now(v)
  BY <1>1 DEF Finds
<1>3. f = Now(f)
  BY <1>2
<1>4. Found(at) = f
  BY DEF Found
<1> HIDE DEF f
<1> QED
  BY <1>3, <1>4

\* The same, remembering nothing.
LEMMA PureIs ==
    ASSUME FieldsOK, NEW at
    PROVE  /\ DOMAIN Pure(at) = DOMAIN fields
           /\ \A i \in DOMAIN fields : Pure(at)[i] = Computed(fields[i], Pure(at), at)
<1> DEFINE Now(v) == [i \in DOMAIN fields |-> Computed(fields[i], v, at)]
           f == CHOOSE v : v = Now(v)
<1>1. PICK v : Finds(v, {}, <<>>, at)
  BY ValuesExist
<1>2. v = Now(v)
  BY <1>1 DEF Finds
<1>3. f = Now(f)
  BY <1>2
<1>4. Pure(at) = f
  BY DEF Pure
<1> HIDE DEF f
<1> QED
  BY <1>3, <1>4

\* What a context remembers of a field is its value.
RemembersPure(at) == \A i \in DOMAIN fields : Remembered(i, at) => at.values[i] = Pure(at)[i]

\* Then what is found is the value, whichever fields are remembered.
LEMMA FoundIsPure ==
    ASSUME FieldsOK, NEW at, RemembersPure(at)
    PROVE  \A i \in DOMAIN fields : Found(at)[i] = Pure(at)[i]
<1> DEFINE Bad == {i \in 1 .. Len(fields) : Found(at)[i] # Pure(at)[i]}
<1>1. Len(fields) \in Nat /\ DOMAIN fields = 1 .. Len(fields)
  BY FieldFacts
<1>2. ASSUME NEW i \in Bad PROVE \E j \in Bad : j < i
  <2>1. i \in DOMAIN fields /\ Found(at)[i] # Pure(at)[i]
    BY <1>1
  <2>2. /\ Found(at)[i] = Computed(fields[i], Found(at), at)
        /\ Pure(at)[i] = Computed(fields[i], Pure(at), at)
    BY <2>1, FoundIs, PureIs DEF RemembersPure
  <2>3. PICK k \in 1 .. 3 : /\ fields[i].in[k] # None
                            /\ Found(at)[fields[i].in[k]] # Pure(at)[fields[i].in[k]]
    BY <2>1, <2>2, FieldFacts, SameInputs
  <2>4. fields[i].in[k] \in 1 .. Len(fields) /\ fields[i].in[k] < i
    BY <1>1, <2>1, <2>3, FieldFacts
  <2> QED
    BY <2>3, <2>4
<1>3. Bad = {}
  <2>1. Bad \in SUBSET (1 .. Len(fields))
    OBVIOUS
  <2> HIDE DEF Bad
  <2> QED
    BY <1>1, <1>2, <2>1, NoFirst
<1> QED
  BY <1>1, <1>3

\* The value of a field is a matter of the position, the origin and the step.
LEMMA PureThere ==
    ASSUME FieldsOK, NEW at, NEW there,
           at.position = there.position, at.origin = there.origin, at.step = there.step
    PROVE  \A i \in DOMAIN fields : Pure(at)[i] = Pure(there)[i]
<1> DEFINE Bad == {i \in 1 .. Len(fields) : Pure(at)[i] # Pure(there)[i]}
<1>1. Len(fields) \in Nat /\ DOMAIN fields = 1 .. Len(fields)
  BY FieldFacts
<1>2. ASSUME NEW i \in Bad PROVE \E j \in Bad : j < i
  <2>1. i \in DOMAIN fields /\ Pure(at)[i] # Pure(there)[i]
    BY <1>1
  <2>2. /\ Pure(at)[i] = Computed(fields[i], Pure(at), at)
        /\ Pure(there)[i] = Computed(fields[i], Pure(there), there)
    BY <2>1, PureIs
  <2>3. PICK k \in 1 .. 3 : /\ fields[i].in[k] # None
                            /\ Pure(at)[fields[i].in[k]] # Pure(there)[fields[i].in[k]]
    BY <2>1, <2>2, FieldFacts, SameInputs
  <2>4. fields[i].in[k] \in 1 .. Len(fields) /\ fields[i].in[k] < i
    BY <1>1, <2>1, <2>3, FieldFacts
  <2> QED
    BY <2>3, <2>4
<1>3. Bad = {}
  <2>1. Bad \in SUBSET (1 .. Len(fields))
    OBVIOUS
  <2> HIDE DEF Bad
  <2> QED
    BY <1>1, <1>2, <2>1, NoFirst
<1> QED
  BY <1>1, <1>3

\* A field is marked as one for columns only if what it is made of is, and it
\* does not ask for the height, the origin or the step; a select has all its
\* inputs.
FlatIn(graph, op, in) ==
    /\ op \notin {"y", "origin_x", "origin_y", "step", "local_index"}
    /\ \A k \in 1 .. 3 : in[k] # None => graph[in[k]].isColumnConstant
    /\ op = "noise3" => in[2] # None

NodesIn(graph) ==
    \A i \in DOMAIN graph :
        /\ graph[i].isColumnConstant => FlatIn(graph, graph[i].op, graph[i].in)
        /\ graph[i].op = "select" => \A k \in 1 .. 3 : graph[i].in[k] # None

NodesOK == NodesIn(fields)

\* So its value is that of its column.
LEMMA FlatThere ==
    ASSUME FieldsOK, NodesOK, NEW at, NEW there, at.position.x = there.position.x
    PROVE  \A i \in DOMAIN fields : fields[i].isColumnConstant => Pure(at)[i] = Pure(there)[i]
<1> DEFINE Bad == {i \in 1 .. Len(fields) :
                      fields[i].isColumnConstant /\ Pure(at)[i] # Pure(there)[i]}
<1>1. Len(fields) \in Nat /\ DOMAIN fields = 1 .. Len(fields)
  BY FieldFacts
<1>2. ASSUME NEW i \in Bad PROVE \E j \in Bad : j < i
  <2>1. i \in DOMAIN fields /\ fields[i].isColumnConstant /\ Pure(at)[i] # Pure(there)[i]
    BY <1>1
  <2>2. /\ Pure(at)[i] = Computed(fields[i], Pure(at), at)
        /\ Pure(there)[i] = Computed(fields[i], Pure(there), there)
    BY <2>1, PureIs
  <2>3. /\ fields[i].op \notin {"y", "origin_x", "origin_y", "step", "local_index"}
        /\ fields[i].op = "noise3" => fields[i].in[2] # None
        /\ \A k \in 1 .. 3 : fields[i].in[k] # None => fields[fields[i].in[k]].isColumnConstant
    BY <2>1 DEF NodesOK, NodesIn, FlatIn
  <2>4. fields[i] \in FieldNodes /\ fields[i].op \in Operations
    BY <2>1, FieldFacts
  <2>5. PICK k \in 1 .. 3 : /\ fields[i].in[k] # None
                            /\ Pure(at)[fields[i].in[k]] # Pure(there)[fields[i].in[k]]
    BY <2>1, <2>2, <2>3, <2>4, FlatComputes
  <2>6. fields[i].in[k] \in 1 .. Len(fields) /\ fields[i].in[k] < i
    BY <1>1, <2>1, <2>5, FieldFacts
  <2> QED
    BY <2>3, <2>5, <2>6
<1>3. Bad = {}
  <2>1. Bad \in SUBSET (1 .. Len(fields))
    OBVIOUS
  <2> HIDE DEF Bad
  <2> QED
    BY <1>1, <1>2, <2>1, NoFirst
<1> QED
  BY <1>1, <1>3
\* A node looks at fields made before it.
LEMMA UsedAreEarlier ==
    ASSUME FieldsOK, NodesOK, NEW i \in DOMAIN fields, NEW v
    PROVE  Used(fields[i], v) \subseteq 1 .. (i - 1)
<1>1. i \in Nat /\ \A k \in 1 .. 3 : fields[i].in[k] \in Nat /\ fields[i].in[k] < i
  BY FieldFacts
<1>2. \A k \in 1 .. 3 : fields[i].in[k] # None => fields[i].in[k] \in 1 .. (i - 1)
  BY <1>1 DEF None
<1>3. fields[i].op = "select" => \A k \in 1 .. 3 : fields[i].in[k] # None
  BY DEF NodesOK, NodesIn
<1>4. 1 \in 1 .. 3 /\ 2 \in 1 .. 3 /\ 3 \in 1 .. 3
  OBVIOUS
<1> QED
  BY <1>2, <1>3, <1>4 DEF Used

\* A field that is not remembered is among those computed for it.
LEMMA ComputedForIs ==
    ASSUME FieldsOK, NodesOK, NEW at
    PROVE  \A i \in DOMAIN fields : ~Remembered(i, at) => i \in ComputedFor(at)[i]
<1> DEFINE U == [i \in DOMAIN fields |-> Used(fields[i], Found(at))]
           Body(c, i) == IF Remembered(i, at) THEN {}
                         ELSE {i} \cup UNION {c[j] : j \in Used(fields[i], Found(at))}
           Upto(n) == \E c : DOMAIN c = 1 .. n /\ \A i \in 1 .. n : c[i] = Body(c, i)
           Bad == {n \in 0 .. Len(fields) : ~Upto(n)}
<1>1. Len(fields) \in Nat /\ DOMAIN fields = 1 .. Len(fields)
  BY FieldFacts
<1>2. Upto(0)
  <2> DEFINE v == [k \in 1 .. 0 |-> 0]
  <2>1. DOMAIN v = 1 .. 0 /\ \A i \in 1 .. 0 : FALSE
    OBVIOUS
  <2> HIDE DEF v, Body
  <2> QED
    BY <2>1
<1>3. ASSUME NEW n \in 1 .. Len(fields), Upto(n - 1) PROVE Upto(n)
  <2> HIDE DEF Body
  <2>1. PICK v : DOMAIN v = 1 .. n - 1 /\ \A i \in 1 .. n - 1 : v[i] = Body(v, i)
    BY <1>3
  <2> DEFINE g == [i \in 1 .. n |-> IF i = n THEN Body(v, n) ELSE v[i]]
  <2>2. DOMAIN g = 1 .. n /\ g[n] = Body(v, n)
    OBVIOUS
  <2>3. \A i \in 1 .. n - 1 : i \in 1 .. n /\ i # n /\ g[i] = v[i]
    OBVIOUS
  <2> HIDE DEF g
  <2>4. ASSUME NEW i \in 1 .. n PROVE Body(v, i) = Body(g, i)
    <3>1. i \in DOMAIN fields /\ \A j \in 1 .. (i - 1) : j \in 1 .. n - 1
      BY <1>1
    <3>2. \A j \in Used(fields[i], Found(at)) : v[j] = g[j]
      BY <2>3, <3>1, UsedAreEarlier
    <3>3. {v[j] : j \in Used(fields[i], Found(at))} = {g[j] : j \in Used(fields[i], Found(at))}
      BY <3>2
    <3> QED
      BY <3>3 DEF Body
  <2>5. ASSUME NEW i \in 1 .. n PROVE g[i] = Body(g, i)
    <3>1. CASE i = n
      BY <2>2, <2>4, <3>1
    <3>2. CASE i # n
      <4>1. i \in 1 .. n - 1
        BY <3>2
      <4> QED
        BY <2>1, <2>3, <2>4, <4>1
    <3> QED
      BY <3>1, <3>2
  <2> QED
    BY <2>2, <2>5
<1>4. Bad = {}
  <2> SUFFICES ASSUME Bad # {} PROVE FALSE
    OBVIOUS
  <2> HIDE DEF Upto
  <2>1. Bad \in SUBSET Nat
    OBVIOUS
  <2>2. PICK n \in Bad : \A k \in Bad : n <= k
    <3> HIDE DEF Bad
    <3> QED
      BY <2>1, LeastOne
  <2>3. n \in 1 .. Len(fields) /\ n - 1 \in 0 .. Len(fields) /\ n - 1 \notin Bad
    BY <1>1, <1>2, <2>2
  <2> QED
    BY <1>3, <2>2, <2>3
<1>5. PICK v : DOMAIN v = 1 .. Len(fields) /\ \A i \in 1 .. Len(fields) : v[i] = Body(v, i)
  <2>1. Upto(Len(fields))
    <3> HIDE DEF Upto
    <3>1. Len(fields) \in 0 .. Len(fields) /\ Len(fields) \notin Bad
      BY <1>1, <1>4
    <3> QED
      BY <3>1
  <2> HIDE DEF Body
  <2> QED
    BY <2>1
<1> DEFINE g == [i \in DOMAIN fields |-> v[i]]
           Now(c) == [i \in DOMAIN fields |-> Body(c, i)]
           f == CHOOSE c : c = Now(c)
<1>6. g = Now(g)
  <2>1. \A i \in DOMAIN fields : g[i] = v[i]
    OBVIOUS
  <2>2. g = [i \in DOMAIN fields |-> g[i]]
    OBVIOUS
  <2> HIDE DEF g, Body
  <2>3. ASSUME NEW i \in DOMAIN fields PROVE g[i] = Body(g, i)
    <3>1. \A j \in Used(fields[i], Found(at)) : j \in DOMAIN fields
      BY <1>1, UsedAreEarlier
    <3>2. \A j \in Used(fields[i], Found(at)) : v[j] = g[j]
      BY <2>1, <3>1
    <3>3. {v[j] : j \in Used(fields[i], Found(at))} = {g[j] : j \in Used(fields[i], Found(at))}
      BY <3>2
    <3>4. Body(v, i) = Body(g, i)
      BY <3>3 DEF Body
    <3> QED
      BY <1>1, <1>5, <2>1, <3>4
  <2> QED
    BY <2>2, <2>3
<1>7. f = Now(f)
  <2> HIDE DEF Now, g
  <2> QED
    BY <1>6
<1>8. ComputedFor(at) = f
  BY DEF ComputedFor
<1> HIDE DEF f
<1>9. \A i \in DOMAIN fields : f[i] = Body(f, i)
  BY <1>7
<1> QED
  BY <1>8, <1>9

\* A context in use: of a record's shape, with nothing remembered under a
\* version that is yet to come.
InUse(at) ==
    /\ at.position = [x |-> at.position.x, y |-> at.position.y]
    /\ at = [position |-> at.position, origin |-> at.origin, step |-> at.step,
             version |-> at.version, cachedVersions |-> at.cachedVersions, values |-> at.values]
    /\ at.version \in Nat \ {0}
    /\ at.cachedVersions \in [DOMAIN fields -> Int]
    /\ \A i \in DOMAIN fields : at.cachedVersions[i] <= at.version
    /\ RemembersPure(at)

\* It begins with nothing remembered.
LEMMA InitInUse ==
    ASSUME FieldsOK, NEW x, NEW y, NEW origin, NEW step, NEW at,
           at = Worldgen_EvalInit([x |-> x, y |-> y], origin, step)
    PROVE  InUse(at) /\ at.position = [x |-> x, y |-> y]
<1>1. /\ at.position = [x |-> x, y |-> y] /\ at.version = 1
      /\ at.cachedVersions = [i \in DOMAIN fields |-> 0]
      /\ at = [position |-> at.position, origin |-> at.origin, step |-> at.step,
             version |-> at.version, cachedVersions |-> at.cachedVersions, values |-> at.values]
  BY DEF Worldgen_EvalInit
<1>2. \A i \in DOMAIN fields : ~Remembered(i, at)
  BY <1>1 DEF Remembered, Stamp
<1> QED
  BY <1>1, <1>2 DEF InUse, RemembersPure

\* So do the contexts that are evaluated.
LEMMA ContextsAreInUse == FieldsOK => \A at \in Contexts : InUse(at)
<1>1. ASSUME FieldsOK, NEW x \in Xs, NEW y \in Ys, NEW origin \in Origins, NEW step \in 0 .. 1
      PROVE  InUse(Worldgen_EvalInit(Position(x, y), origin, step))
  BY <1>1, InitInUse DEF Position
<1> QED
  BY <1>1 DEF Contexts

\* Worldgen_Eval gives a field its value, and remembers values only.
LEMMA EvalInUse ==
    ASSUME FieldsOK, NodesOK, NEW at, InUse(at), NEW f \in DOMAIN fields, NEW next,
           next = Worldgen_Eval(at, f)
    PROVE  /\ InUse(next) /\ next.values[f] = Pure(at)[f]
           /\ next.position = at.position /\ next.origin = at.origin /\ next.step = at.step
           /\ next.version = at.version
           /\ \A i \in DOMAIN fields : Pure(next)[i] = Pure(at)[i]
<1> DEFINE new == ComputedFor(at)[f]
           found == Found(at)
<1>1. /\ next.position = at.position /\ next.origin = at.origin /\ next.step = at.step
      /\ next.version = at.version
      /\ next = [position |-> next.position, origin |-> next.origin, step |-> next.step,
                 version |-> next.version, cachedVersions |-> next.cachedVersions,
                 values |-> next.values]
      /\ next.cachedVersions =
            [i \in DOMAIN fields |-> IF i \in new THEN Stamp(i, at) ELSE at.cachedVersions[i]]
      /\ next.values = [i \in DOMAIN fields |-> IF i \in new THEN found[i] ELSE at.values[i]]
  <2> HIDE DEF new, found
  <2>1. next = [at EXCEPT
            !.cachedVersions = [i \in DOMAIN fields |-> IF i \in new THEN Stamp(i, at) ELSE at.cachedVersions[i]],
            !.values = [i \in DOMAIN fields |-> IF i \in new THEN found[i] ELSE at.values[i]]]
    BY DEF Worldgen_Eval, new, found
  <2>2. at = [position |-> at.position, origin |-> at.origin, step |-> at.step,
             version |-> at.version, cachedVersions |-> at.cachedVersions, values |-> at.values]
    BY DEF InUse
  <2> QED
    BY <2>1, <2>2
<1>2. \A i \in DOMAIN fields : found[i] = Pure(at)[i]
  BY FoundIsPure DEF InUse
<1>3. ~Remembered(f, at) => f \in new
  BY ComputedForIs
<1> HIDE DEF new, found
<1>4. next.values[f] = Pure(at)[f]
  <2>1. CASE f \in new
    BY <1>1, <1>2, <2>1
  <2>2. CASE f \notin new
    BY <1>1, <1>3, <2>2 DEF InUse, RemembersPure
  <2> QED
    BY <2>1, <2>2
<1>5. \A i \in DOMAIN fields : Pure(next)[i] = Pure(at)[i]
  BY <1>1, PureThere
<1>6. \A i \in DOMAIN fields : Stamp(i, next) = Stamp(i, at) /\ Stamp(i, at) \in Int /\ Stamp(i, at) <= at.version
  BY <1>1 DEF Stamp, InUse
<1>7. next.cachedVersions \in [DOMAIN fields -> Int]
  BY <1>1, <1>6 DEF InUse
<1>8. \A i \in DOMAIN fields : next.cachedVersions[i] <= next.version
  BY <1>1, <1>6 DEF InUse
<1>9. RemembersPure(next)
  <2> SUFFICES ASSUME NEW i \in DOMAIN fields, Remembered(i, next)
               PROVE  next.values[i] = Pure(next)[i]
    BY DEF RemembersPure
  <2>1. CASE i \in new
    BY <1>1, <1>2, <1>5, <2>1
  <2>2. CASE i \notin new
    <3>1. Remembered(i, at)
      BY <1>1, <1>6, <2>2 DEF Remembered
    <3> QED
      BY <1>1, <1>5, <2>2, <3>1 DEF InUse, RemembersPure
  <2> QED
    BY <2>1, <2>2
<1>10. InUse(next)
  BY <1>1, <1>7, <1>8, <1>9 DEF InUse
<1> QED
  BY <1>1, <1>4, <1>5, <1>10

\* Worldgen_EvalY: of another height, only what is the same all along the
\* column stays remembered.
LEMMA EvalYInUse ==
    ASSUME FieldsOK, NodesOK, NEW at, InUse(at), NEW y, NEW next, next = Worldgen_EvalY(at, y)
    PROVE  InUse(next)
<1>1. /\ next.position = [x |-> at.position.x, y |-> y]
      /\ next.version = at.version + 1
      /\ next.cachedVersions = at.cachedVersions /\ next.values = at.values
      /\ next = [position |-> next.position, origin |-> next.origin, step |-> next.step,
                 version |-> next.version, cachedVersions |-> next.cachedVersions,
                 values |-> next.values]
  <2>1. next = [at EXCEPT !.position.y = y, !.version = at.version + 1]
    BY DEF Worldgen_EvalY
  <2>2. /\ at = [position |-> at.position, origin |-> at.origin, step |-> at.step,
             version |-> at.version, cachedVersions |-> at.cachedVersions, values |-> at.values]
        /\ at.position = [x |-> at.position.x, y |-> at.position.y]
    BY DEF InUse
  <2>3. [at.position EXCEPT !.y = y] = [x |-> at.position.x, y |-> y]
    BY <2>2
  <2> QED
    BY <2>1, <2>2, <2>3
<1>2. \A i \in DOMAIN fields : at.cachedVersions[i] \in Int /\ at.cachedVersions[i] <= at.version
  BY DEF InUse
<1>3. at.version \in Nat \ {0}
  BY DEF InUse
<1>4. \A i \in DOMAIN fields : at.cachedVersions[i] # at.version + 1
  BY <1>2, <1>3
<1>5. RemembersPure(next)
  <2> SUFFICES ASSUME NEW i \in DOMAIN fields, Remembered(i, next)
               PROVE  next.values[i] = Pure(next)[i]
    BY DEF RemembersPure
  <2>1. fields[i].isColumnConstant
    BY <1>1, <1>4 DEF Remembered, Stamp
  <2>2. Remembered(i, at)
    BY <1>1, <2>1 DEF Remembered, Stamp
  <2>3. next.position.x = at.position.x
    BY <1>1
  <2>4. Pure(next)[i] = Pure(at)[i]
    BY <2>1, <2>3, FlatThere
  <2> QED
    BY <1>1, <2>2, <2>4 DEF InUse, RemembersPure
<1>6. \A i \in DOMAIN fields : next.cachedVersions[i] <= next.version
  BY <1>1, <1>2, <1>3
<1> QED
  BY <1>1, <1>3, <1>5, <1>6 DEF InUse
\* So evaluations are pure, one after another and along a column.
LEMMA EvaluationIsPure == FieldsOK /\ NodesOK => EvalsArePure
<1> SUFFICES ASSUME FieldsOK, NodesOK, NEW at \in Contexts, NEW f \in DOMAIN fields
             PROVE  LET first == Worldgen_Eval(at, f)
                    IN  /\ first.values[f] = Pure(at)[f]
                        /\ \A y \in Ys, g \in DOMAIN fields :
                              LET there == Worldgen_EvalY(first, y)
                              IN  Worldgen_Eval(there, g).values[g] = Pure(there)[g]
  BY DEF EvalsArePure
<1> DEFINE first == Worldgen_Eval(at, f)
           there(y) == Worldgen_EvalY(first, y)
<1>1. InUse(at)
  BY ContextsAreInUse
<1>2. InUse(first) /\ first.values[f] = Pure(at)[f]
  BY <1>1, EvalInUse
<1> HIDE DEF first
<1>3. ASSUME NEW y \in Ys, NEW g \in DOMAIN fields
      PROVE  Worldgen_Eval(there(y), g).values[g] = Pure(there(y))[g]
  <2>1. InUse(there(y))
    BY <1>2, EvalYInUse
  <2> HIDE DEF there
  <2> QED
    BY <2>1, EvalInUse
<1> QED
  BY <1>2, <1>3 DEF first

\* And a field for columns has one value in each.
LEMMA FlatFieldsAreFlat == FieldsOK /\ NodesOK => FlatAreFlat
<1> SUFFICES ASSUME FieldsOK, NodesOK, NEW i \in DOMAIN fields, fields[i].isColumnConstant,
                    NEW x \in Xs
             PROVE  Cardinality({Pure(at)[i] : at \in {c \in Contexts : c.position.x = x}}) = 1
  BY DEF FlatAreFlat
<1> DEFINE column == {c \in Contexts : c.position.x = x}
           found == {Pure(at)[i] : at \in column}
<1>1. PICK y \in Ys, origin \in Origins : TRUE
  OBVIOUS
<1> DEFINE here == Worldgen_EvalInit(Position(x, y), origin, 0)
<1>2. here \in column
  <2>1. here \in Contexts
    BY DEF Contexts
  <2>2. here.position.x = x
    BY DEF Worldgen_EvalInit, Position
  <2> QED
    BY <2>1, <2>2
<1> HIDE DEF here
<1>3. \A at \in column : Pure(at)[i] = Pure(here)[i]
  <2>1. \A at \in column : at.position.x = here.position.x
    BY <1>2
  <2> QED
    BY <2>1, FlatThere
<1>4. found = {Pure(here)[i]}
  <2> HIDE DEF column
  <2> QED
    BY <1>2, <1>3
<1> QED
  BY <1>4, FS_Singleton

\* A node keeps its shape in a graph that grows: what it is made of is there
\* when it is made.
LEMMA PushKeepsNodes ==
    ASSUME FieldsOK, NodesOK, NEW op \in Ops, NEW in \in InputsOf(op, Len(fields)),
           NEW value \in Numbers \cup {0}, PushFieldNode(Node(op, in, value))
    PROVE  NodesOK'
<1> DEFINE n == Node(op, in, value)
<1>1. FieldsOK' /\ Grows(fields, fields')
  BY PushKeeps
<1>2. n.op = op /\ n.in = in /\ (n.isColumnConstant => FlatIn(fields, op, in))
  BY DEF Node, IsColumnConstant, FlatInputs, FlatIn
<1>3. in \in (0 .. Len(fields)) \X (0 .. Len(fields)) \X (0 .. Len(fields)) /\ Len(fields) \in Nat
  BY FieldFacts, InputsAreFields
<1>4. op = "select" => \A k \in 1 .. 3 : in[k] # None
  BY DEF InputsOf, Leaves, None
<1> HIDE DEF n
<1>5. /\ DOMAIN fields = 1 .. Len(fields)
      /\ \A i \in DOMAIN fields : i \in DOMAIN fields' /\ fields'[i] = fields[i]
  BY <1>1, FieldFacts DEF Grows
\* What makes a node flat in the graph before makes it so in the graph after.
<1>6. ASSUME NEW o, NEW inputs, \A k \in 1 .. 3 : inputs[k] # None => inputs[k] \in DOMAIN fields,
             FlatIn(fields, o, inputs)
      PROVE  FlatIn(fields', o, inputs)
  BY <1>5, <1>6 DEF FlatIn
<1>7. ASSUME NEW i \in DOMAIN fields
      PROVE  /\ fields'[i].isColumnConstant => FlatIn(fields', fields'[i].op, fields'[i].in)
             /\ fields'[i].op = "select" => \A k \in 1 .. 3 : fields'[i].in[k] # None
  <2>1. /\ fields'[i] = fields[i]
        /\ \A k \in 1 .. 3 : fields[i].in[k] # None => fields[i].in[k] \in DOMAIN fields
    BY <1>5, FieldFacts
  <2>2. /\ fields[i].isColumnConstant => FlatIn(fields, fields[i].op, fields[i].in)
        /\ fields[i].op = "select" => \A k \in 1 .. 3 : fields[i].in[k] # None
    BY DEF NodesOK, NodesIn
  <2> QED
    BY <1>6, <2>1, <2>2
<1>8. CASE fields' = fields
  BY <1>8 DEF NodesOK
<1>9. CASE fields' = Append(fields, n)
  <2>1. DOMAIN fields' = DOMAIN fields \cup {Len(fields) + 1} /\ fields'[Len(fields) + 1] = n
    BY <1>3, <1>9, FieldFacts DEF FieldsOK
  <2>2. \A k \in 1 .. 3 : in[k] # None => in[k] \in DOMAIN fields
    BY <1>3, <1>5 DEF None
  <2>3. n.isColumnConstant => FlatIn(fields', n.op, n.in)
    BY <1>2, <1>6, <2>2
  <2> QED
    BY <1>2, <1>4, <1>7, <2>1, <2>3 DEF NodesOK, NodesIn
<1> QED
  BY <1>8, <1>9 DEF PushFieldNode, n

\* Every step keeps the shape of nodes.
LEMMA NodesKeep == WorldInvariant /\ NodesOK /\ [Next]_vars => NodesOK'
<1> SUFFICES ASSUME WorldInvariant, NodesOK, [Next]_vars PROVE NodesOK'
  OBVIOUS
<1>1. FieldsOK
  BY DEF WorldInvariant, DefinitionsInvariant, TypeOK
<1>2. fields' = fields => NodesOK'
  BY DEF NodesOK
<1>3. CASE \E op \in Ops : \E in \in InputsOf(op, Len(fields)) :
              \E value \in (IF op = "constant" THEN Numbers ELSE {0}) : CreateField(op, in, value)
  <2>1. PICK op \in Ops : \E in \in InputsOf(op, Len(fields)) :
              \E value \in (IF op = "constant" THEN Numbers ELSE {0}) : CreateField(op, in, value)
    BY <1>3
  <2>2. PICK in \in InputsOf(op, Len(fields)), value \in Numbers \cup {0} : CreateField(op, in, value)
    BY <2>1
  <2> QED
    BY <1>1, <2>2, PushKeepsNodes DEF CreateField
<1>4. CASE \E s \in Seeds : Restart(s)
  <2>1. fields' = <<>>
    BY <1>4 DEF Restart, Fresh
  <2> QED
    BY <2>1 DEF NodesOK, NodesIn
<1>5. CASE fields' = fields
  BY <1>2, <1>5
<1> QED
  BY <1>3, <1>4, <1>5 DEF Next, vars, ScriptCall, ConfigureWorldgen, DefineBiome, DefineOre,
     DefineStructure, DefineMaterialRule, DefineFeature, DefineBlock, FreezeNewWorld,
     FreezeKnownWorld, FreezeFails, ModFails, CrashInSave, Stop, Generate, Frozen, Refused

\* While chunks are made, remembering what has been computed never shows: a field
\* evaluated after others, and at any height of a column, has the value it has
\* when nothing is remembered; and one that is taken to be flat is.
THEOREM EvalIsPureHolds == Spec => []EvalIsPure
<1>1. Init => NodesOK
  BY DEF Init, NodesOK, NodesIn
<1>2. Spec => []NodesOK
  <2>1. WorldInvariant /\ NodesOK /\ [Next]_vars => NodesOK'
    BY NodesKeep
  <2> QED
    BY <1>1, <2>1, WorldInvariantHolds, PTL DEF Spec
<1>3. WorldInvariant /\ NodesOK => EvalIsPure
  <2>1. WorldInvariant => FieldsOK
    BY DEF WorldInvariant, DefinitionsInvariant, TypeOK
  <2> QED
    BY <2>1, EvaluationIsPure, FlatFieldsAreFlat DEF EvalIsPure
<1> QED
  BY <1>2, <1>3, WorldInvariantHolds, PTL
=============================================================================
