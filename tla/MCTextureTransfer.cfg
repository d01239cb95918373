SPECIFICATION Spec
CONSTANTS
    p1 = p1
    m1 = m1
    Players = {p1}
    Textures = {2, 3}
    Models = {m1}
    Widths = {1, 2}
    Extents = {1, 2}
    TerrainWidth = 2
    Sizes = {2}
    MaxRevision = 2
    MaxActs = 2
    MaxTimeouts = 1
INVARIANTS TransferInvariant DeliveredIsHeld ModelsDrawLiveTextures TerrainInvariant
