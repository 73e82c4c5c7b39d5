SPECIFICATION Spec
CONSTANTS
    HTTP_QUEUE_SIZE = 2
    HTTP_QUEUE_BURST = 2
    HTTP_QUEUE_MAX_RETRIES = 2
    NormalPkts = {n1, n2}
    AlertPkts = {a1}
    n1 = n1
    n2 = n2
    a1 = a1
    NoPkt = NoPkt
    Worlds <- ReplaceWorlds
PROPERTY UnsentGoesToFlash
