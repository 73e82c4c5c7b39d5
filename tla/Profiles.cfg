SPECIFICATION FairSpec
CONSTANTS
    N = 3
    Asked = {1, 3, 4}
    DefProfile = 1
    MAX_CONSECUTIVE_FAILS = 3
    MAX_GPRS_INIT_FAILS = 2
    DENY_WINDOW = 1
    WIDTH = 8
    MAX_FAULTS = 2
    Nets <- MCNets
    Worlds <- MCWorlds
INVARIANT ProfileIsTrue
PROPERTY AutoPicksViable
PROPERTY FreshWindow
PROPERTY ThreadsResume
PROPERTY GetsThrough
