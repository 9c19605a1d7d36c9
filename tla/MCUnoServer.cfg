SPECIFICATION Spec
CONSTANTS
    QUEUE_CAPACITY = 1
    MaxPedidos = 1
INVARIANTS
    TypeOK
    LiberaPorUltimo
    PartidaComDoisListeners
    SemVazamento
    FechadoUmaVez
    NadaMaisSeEspera
PROPERTIES
    EncerramentoAvanca
    ImplementaAtendimento
CHECK_DEADLOCK FALSE
