SPECIFICATION OgFairSpec
CONSTANTS
    PushMin = 2
    TamperCount = 2
    PushCap = 3
    SosTimeOut = 2
    AckWait = 2
    MaxMoves = 4
    MaxCommands = 2
    MaxDrops = 1
    OgWorlds <- MCWorlds
INVARIANT AlertMatchesSos
PROPERTY SosIsHeard
PROPERTY LastWordIsTrue
PROPERTY AnsweredFirst
PROPERTY ResetComes
