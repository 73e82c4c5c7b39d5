SPECIFICATION Spec
CONSTANTS
    MAX_PACKET_COUNT = 3
    Packets = {p1, p2, p3, p4}
    p1 = p1
    p2 = p2
    p3 = p3
    p4 = p4
    Blank = Blank
    Torn = Torn
    NoCount = NoCount
    Worlds <- CalmWorlds
SYMMETRY Symm
PROPERTY FullRollsOver
