SPECIFICATION Spec
CONSTANTS
    p1 = p1
    p2 = p2
    near = near
    far = far
    c1 = c1
    c2 = c2
    g1 = g1
    g2 = g2
    Chunks = {c1, c2}
    Players = {p1, p2}
    Places = {near, far}
    Start = near
    Wanted <- MCWanted
    Accepted <- MCAccepted
    Kept <- MCKept
    Blocks = {0, 1}
    Generators = {g1, g2}
    NewWorlds = {g1}
    Generated <- MCGenerated
    Air = 0
    Undefined = 9
    NoBlock = 8
    NoChunk = NoChunk
    MaxEdits = 1
    MaxMoves = 3
    MaxRestarts = 1
INVARIANTS StreamingInvariant ClientSeesWorld
PROPERTIES ViewArrives AbandonedChunksGo ContentChangesOnlyByEdits LoaderOwnsItsFile
