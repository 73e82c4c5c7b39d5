SPECIFICATION FairSpec
CONSTANTS
    h1 = h1
    h2 = h2
    Hosts = {h1, h2}
    Dotted = {h1}
    NoHost = NoHost
    Descs = {0}
    NoDesc = NoDesc
    Senders = {server, main}
    main = main
    server = server
    NOACK_MAX = 1
    DELAY_MAX = 3
    SILENT_SENDS = 2
    MAX_SENT = 2
    Worlds <- MCWorlds
INVARIANT DescriptorIsSound
PROPERTY ConnectsToHost
PROPERTY AckIsMine
PROPERTY Reconnects
