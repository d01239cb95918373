SPECIFICATION Spec
CONSTANTS
    Size = 3
    Chunks <- MCChunks
    Margin = 6
    Definitions <- MCDefinitions
    NoField = NoField
    NoRoll = NoRoll
    NoChunk = NoChunk
    CacheLimit = 4
    KeySpan = 8
INVARIANTS Seamless SkyMaskTruth CacheInvariant
