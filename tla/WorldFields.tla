---------------------------- MODULE WorldFields ----------------------------
(***************************************************************************)
(* The fields of a world generator: a graph of nodes that scripts build    *)
(* while mods load, each made of earlier ones and shared when made twice,  *)
(* and the evaluation of a node at a position, which remembers what it has *)
(* computed until the position changes and, for a node marked constant in  *)
(* a column, longer.                                                       *)
(*                                                                         *)
(* Numbers are small integers.  abs stands for the unary operations, add   *)
(* for the binary ones, which differ only in the number they compute;      *)
(* noise and random are arbitrary functions of their inputs.               *)
(***************************************************************************)
EXTENDS Integers, Sequences, SequencesExt, FiniteSets

CONSTANTS
    Ops,         \* the operations scripts use
    Numbers,     \* constants they write
    Xs, Ys,      \* coordinates that are evaluated
    Origins,     \* origins of features: [x, y]
    Side,        \* side of a chunk
    MaxFields    \* 512 in the code

Leaves == {"constant", "x", "y", "origin_x", "origin_y", "step", "local_index"}
Operations == Leaves \cup {"abs", "add", "select", "random", "noise2", "noise3"}

ASSUME FieldsAssumption ==
    /\ MaxFields \in Nat /\ Ops \subseteq Operations
    /\ Ys # {} /\ Origins # {}

VARIABLE fields  \* worldgen.fields: [op, in, value, isColumnConstant]

None == 0
Absent == <<None, None, None>>

\* The inputs a script may give an operation, among n fields.  An optional
\* input that is left out has its default.
InputsOf(op, n) ==
    LET Given(k) == IF k = None THEN {None} ELSE 1 .. n
        Maybe == 0 .. n
    IN  CASE op \in Leaves -> {Absent}
          [] op = "abs" -> {<<a, None, None>> : a \in 1 .. n}
          [] op = "add" -> {<<a, b, None>> : a \in 1 .. n, b \in 1 .. n}
          [] op = "select" -> (1 .. n) \X (1 .. n) \X (1 .. n)
          [] OTHER -> {<<a, b, None>> : a \in Maybe, b \in Maybe}

FlatInputs(in) == \A i \in 1 .. 3 : in[i] # None => fields[in[i]].isColumnConstant

\* A node is the same all along a column: its inputs are, and none of those
\* left out is the height.
IsColumnConstant(op, in) ==
    /\ op \notin {"y", "origin_x", "origin_y", "step", "local_index"}
    /\ FlatInputs(in)
    /\ op = "noise3" => in[2] # None

Node(op, in, value) ==
    [op |-> op, in |-> in, value |-> value, isColumnConstant |-> IsColumnConstant(op, in)]

Same(m, n) == m.op = n.op /\ m.in = n.in /\ m.value = n.value

\* PushFieldNode: a node that is there already is used again.
PushFieldNode(node) ==
    /\ \/ \E i \in DOMAIN fields : Same(fields[i], node)
       \/ Len(fields) < MaxFields
    /\ fields' = IF \E i \in DOMAIN fields : Same(fields[i], node) THEN fields
                 ELSE Append(fields, node)

----------------------------------------------------------------------------
(* Evaluation, in a context at (a WGEval): position, origin, step, version, *)
(* and for each field the version and the value remembered.                *)

Coordinate(v, input, default) == IF input = None THEN default ELSE v[input]

\* What a node computes from the values v of its inputs.
Computed(n, v, at) ==
    LET In(i) == Coordinate(v, n.in[i], 0)
    IN  CASE n.op = "constant" -> n.value
          [] n.op = "x" -> at.position.x
          [] n.op = "y" -> at.position.y
          [] n.op = "origin_x" -> at.origin.x
          [] n.op = "origin_y" -> at.origin.y
          [] n.op = "step" -> at.step
          [] n.op = "local_index" -> (at.position.y % Side) * Side + (at.position.x % Side)
          [] n.op = "abs" -> IF In(1) < 0 THEN -In(1) ELSE In(1)
          [] n.op = "add" -> In(1) + In(2)
          [] n.op = "select" -> IF In(1) # 0 THEN In(2) ELSE In(3)
          [] n.op = "random" -> (3 * In(1) + In(2) + n.value) % 5
          [] n.op = "noise2" -> (2 * Coordinate(v, n.in[1], at.position.x) + In(2)) % 3
          [] n.op = "noise3" -> (Coordinate(v, n.in[1], at.position.x)
                                   + 2 * Coordinate(v, n.in[2], at.position.y)) % 3

\* The inputs looked at: a select leaves one branch alone.
Used(n, v) ==
    LET given == {n.in[i] : i \in 1 .. 3} \ {None}
    IN  IF n.op # "select" THEN given
        ELSE {n.in[1], IF v[n.in[1]] # 0 THEN n.in[2] ELSE n.in[3]}

StampOfFlat(i, at) == IF fields[i].isColumnConstant THEN 0 ELSE at.version

\* The version under which a value of field i is remembered.
Stamp(i, at) == IF fields[i].isColumnConstant THEN -1 ELSE at.version

Remembered(i, at) == at.cachedVersions[i] = Stamp(i, at)

\* Worldgen_Eval: the value of every field as it would be found now, and the
\* fields that are computed to find it.
Found(at) ==
    LET v[i \in DOMAIN fields] ==
            IF Remembered(i, at) THEN at.values[i] ELSE Computed(fields[i], v, at)
    IN  v

ComputedFor(at) ==
    LET c[i \in DOMAIN fields] ==
            IF Remembered(i, at) THEN {}
            ELSE {i} \cup UNION {c[j] : j \in Used(fields[i], Found(at))}
    IN  c

Worldgen_Eval(at, f) ==
    LET found == Found(at)
        new == ComputedFor(at)[f]
    IN  [at EXCEPT
            !.cachedVersions = [i \in DOMAIN fields |-> IF i \in new THEN Stamp(i, at) ELSE @[i]],
            !.values = [i \in DOMAIN fields |-> IF i \in new THEN found[i] ELSE @[i]]]

\* Worldgen_EvalInit, and the step of a stroke that follows it.
Worldgen_EvalInit(position, origin, step) ==
    [position |-> position, origin |-> origin, step |-> step, version |-> 1,
     cachedVersions |-> [i \in DOMAIN fields |-> 0], values |-> [i \in DOMAIN fields |-> 0]]

\* Worldgen_EvalY, down or up the column of the context.
Worldgen_EvalY(at, y) == [at EXCEPT !.position.y = y, !.version = @ + 1]

----------------------------------------------------------------------------
(* Properties.                                                             *)

\* The value of every field, remembering nothing.
Pure(at) ==
    LET v[i \in DOMAIN fields] == Computed(fields[i], v, at) IN v

FieldIds == 0 .. MaxFields
FieldNodes == [op : Ops, in : FieldIds \X FieldIds \X FieldIds, value : Numbers \cup {0},
               isColumnConstant : BOOLEAN]

\* A field is made of fields made before it, and no two are alike.
FieldsOK ==
    /\ fields \in Seq(FieldNodes) /\ Len(fields) <= MaxFields
    /\ \A i \in DOMAIN fields :
          /\ \A k \in 1 .. 3 : fields[i].in[k] \in 0 .. (i - 1)
          /\ \A j \in 1 .. (i - 1) : ~Same(fields[i], fields[j])

Position(x, y) == [x |-> x, y |-> y]

Contexts ==
    {Worldgen_EvalInit(Position(x, y), origin, step) :
        x \in Xs, y \in Ys, origin \in Origins, step \in 0 .. 1}

\* What is remembered never shows: a field evaluated after another one, or
\* after itself at another height of the column, has the value it has when
\* nothing is remembered.
EvalsArePure ==
    \A at \in Contexts, f \in DOMAIN fields :
        LET first == Worldgen_Eval(at, f)
        IN  /\ first.values[f] = Pure(at)[f]
            /\ \A y \in Ys, g \in DOMAIN fields :
                  LET there == Worldgen_EvalY(first, y)
                  IN  Worldgen_Eval(there, g).values[g] = Pure(there)[g]

\* A field marked constant in a column has one value in each, whatever the
\* height, the origin and the step.
FlatAreFlat ==
    \A i \in DOMAIN fields : fields[i].isColumnConstant =>
        \A x \in Xs :
            Cardinality({Pure(at)[i] : at \in {c \in Contexts : c.position.x = x}}) = 1

\* A handle a script holds means the same field for as long as the server runs.
HandlesKeep == IsPrefix(fields, fields')
=============================================================================
