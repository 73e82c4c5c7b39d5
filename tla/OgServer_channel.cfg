SPECIFICATION OgSpec
CONSTANTS
    PushMin = 2
    TamperCount = 2
    PushCap = 3
    SosTimeOut = 2
    AckWait = 2
    MaxMoves = 0
    MaxCommands = 1
    MaxDrops = 0
    OgWorlds = {{"amd3", "second"}}
PROPERTY RepliesToSource
