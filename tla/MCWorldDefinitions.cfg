SPECIFICATION Spec
CONSTANTS
    Ops <- MCOps
    Numbers <- MCNumbers
    Xs = {0, 1}
    Ys = {0, 1}
    Side = 2
    MaxFields = 3
    Origins <- MCOrigins
    Names = {"b1", "b2"}
    Builtin <- MCBuiltin
    Blocks = {3, 40}
    BuiltinBlocks = {3}
    Seeds = {1, 2}
    MaxCalls = 3
    MaxRestarts = 1
INVARIANTS DefinitionsInvariant EvalIsPure OneWorld OresKeepTheirBiome
PROPERTY DefinitionsKeep
CHECK_DEADLOCK FALSE
