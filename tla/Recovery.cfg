SPECIFICATION FairSpec
CONSTANTS
    WdtTimeout = 2
    BootGrace = 2
    GprsStall = 3
    GpsGrace = 2
    GpsFaultLimit = 2
    ConnLimit = 3
    HangSecs = 2
    FtpExempt = 2
    ExemptWidth = 5
    Worlds = {{"hang", "nowdt"}, {"hang", "transfer"}, {"hang", "sleep"}, {"net", "sleep", "transfer"}, {"gps"}, {"battery", "net"}, {"command", "stall", "battery"}}
INVARIANT HangIsBounded
PROPERTY ResetIsDue
PROPERTY PowerDownEnds
PROPERTY ResetComes
