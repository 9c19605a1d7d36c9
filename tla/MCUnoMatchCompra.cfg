SPECIFICATION MCSpec
CONSTANTS
    NumCores = 2
    NumSimbolos = 3
    CARTAS_INICIAIS = 1
    MAX_QTD_CARTAS_JOGADOR = 3
    QUEUE_CAPACITY = 1
    MaxPedidos = 2
    ComParada = FALSE
PROPERTIES
    AposComprarVezDoOutro
CHECK_DEADLOCK FALSE
