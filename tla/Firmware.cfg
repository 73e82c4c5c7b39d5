SPECIFICATION FirmwareSpec
CONSTANTS
    MaxAttempts = 3
    MaxOrders = 2
    MaxCuts = 4
    MaxDrops = 1
    Worlds <- FotaWorlds
    Images = {old, new, alt, big}
    old = old
    new = new
    alt = alt
    big = big
    Old = old
    Size <- MCSize
    Erased = Erased
    Mixed = Mixed
    NoFrame = NoFrame
    NoReply = NoReply
    RETRIES = 3
    WRAP = 4
    LIMIT = 3
    MAX_ORDERS = 2
    McuWorlds <- MotaWorlds
INVARIANT AttemptsBounded
INVARIANT LeavesNothingBehind
PROPERTY InstallsWhole
PROPERTY OrderEnds
INVARIANT BoardIsSafe
PROPERTY ReportIsTrue
PROPERTY OrderIsReported
