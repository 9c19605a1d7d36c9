SPECIFICATION MCFimSpec
CONSTANTS
    QUEUE_CAPACITY = 1
    MaxPedidos = 0
PROPERTIES
    WorkerEWriterParam
    EncerramentoTermina
CHECK_DEADLOCK FALSE
