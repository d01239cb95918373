SPECIFICATION Spec
CONSTANTS
    Kinds = {"mapinit", "load", "unload", "setblock", "texture", "other"}
    MaxSessions = 2
    MaxArrivals = 3
    FrameLimit = 2
    TextureLimit = 1
    Overlap = FALSE
INVARIANTS ClientInvariant LoginIsQuiet SessionsApart
PROPERTIES DisconnectWritesNothing DisconnectHappens
