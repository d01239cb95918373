SPECIFICATION Spec
CONSTANTS
    Conns = {a, b, w}
    WebConns = {w}
    Peers = {e1}
    MaxPlayers = 2
    MaxEntities = 2
    QueueLimit = 3
    PlayerLimit = 2
    MaxArrivals = 5
    NoConn = NoConn
    NoPeer = NoPeer
INVARIANTS PendingIsExact NoDanglingPlayer GameplayHasSeat PeersDistinctAtLoopTop SessionInvariant
PROPERTIES DisconnectedIsFreed ImplementsLifecycle
