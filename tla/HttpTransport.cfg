SPECIFICATION FairSpec
CONSTANTS
    SERVER1_MAX_FAILURES = 2
    COUNT_WIDTH = 4
    VLT_ATTEMPTS = 2
    Worlds = {{}, {"gprs", "server3"}, {"abort", "server3"}, {"arming", "server3"},
              {"arming", "overlap"}}
PROPERTY PostsWhereMeant
PROPERTY DeliveredIffAnswered
PROPERTY BreakerCloses
