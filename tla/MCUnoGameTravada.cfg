SPECIFICATION Spec
CONSTANTS
    NumCores = 2
    NumSimbolos = 3
    CARTAS_INICIAIS = 1
    MAX_QTD_CARTAS_JOGADOR = 3
INVARIANT
    SempreHaJogada
CHECK_DEADLOCK FALSE
