SPECIFICATION Spec
CONSTANTS
    Kinds = {"mapinit", "other"}
    MaxSessions = 2
    MaxArrivals = 2
    FrameLimit = 1
    TextureLimit = 1
    Overlap = TRUE
INVARIANT OneNetworkThread
