SPECIFICATION FairSpec
CONSTANTS
    Tamanho = 2
    MaxMensagens = 1
    Janelas <- MCJanelaDoReadme
    EstadosVivos <- MCVivos
    EstadosFinais <- MCFinais
    Quadros <- MCQuadros
PROPERTIES
    TelaDoReadmeBasta
CHECK_DEADLOCK FALSE
