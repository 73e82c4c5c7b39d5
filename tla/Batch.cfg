SPECIFICATION BatchSpec
CONSTANTS
    MAX_FILE = 3
    NormalPkts = {n1, n2, n3, n4}
    AlertPkts = {a1}
    n1 = n1
    n2 = n2
    n3 = n3
    n4 = n4
    a1 = a1
    Blank = Blank
    NoIndex = NoIndex
    Faults = TRUE
    Worlds = {{}, {"alerts", "imei"}}
INVARIANT CountCoversRing
INVARIANT StoreIsKept
PROPERTY DeleteHidesNothingElse
PROPERTY LifoIsStack
PROPERTY StoreDrains
