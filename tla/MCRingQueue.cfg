SPECIFICATION FairSpec
CONSTANTS
    QUEUE_CAPACITY = 2
    Valores = {v1, v2}
    Produtores = {listener0, listener1}
    Consumidores = {worker}
    Encerradores = {main}
    Nada = nada
    MaxEspurios = 1
INVARIANTS
    TypeOK
    ExclusaoMutua
    AnelCoerente
    SemDespertarPerdido
PROPERTIES
    ImplementaCanal
    EncerradaAvanca
    EncerramentoLiberta
    PopAtendido
