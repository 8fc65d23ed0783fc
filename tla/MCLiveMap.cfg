\* Two peers, three places, five moves, a cache of three tiles.
SPECIFICATION MapSpec
CONSTANTS
    p1 = p1
    p2 = p2
    Peers <- TwoPeers
    Points <- Places
    Viewports <- Turned
    Drags <- Gestures
    Home <- Middle
    Nowhere = Nowhere
    TileSize = 16
    MinZoom = 1
    MaxZoom = 2
    SoloZoom = 2
    MinBudget = 2
    Margin = 0
    CacheCap = 3
    MaxMoves = 5
    MaxPans = 2
SYMMETRY Alike
\* Moves are bounded.
CHECK_DEADLOCK FALSE
INVARIANTS
    CacheSound
    WindowTiled
