SPECIFICATION FairSpec
CONSTANTS
    QUEUE_CAPACITY = 1
    MaxPedidos = 0
PROPERTIES
    ListenersTerminam
CHECK_DEADLOCK FALSE
