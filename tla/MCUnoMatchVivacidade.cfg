SPECIFICATION MCFairSpec
CONSTANTS
    NumCores = 2
    NumSimbolos = 3
    CARTAS_INICIAIS = 1
    MAX_QTD_CARTAS_JOGADOR = 3
    QUEUE_CAPACITY = 1
    MaxPedidos = 1
    ComParada = TRUE
PROPERTIES
    ImplementaAtendimento
    FimChegaATodos
    ClienteAcompanha
CHECK_DEADLOCK FALSE
