SPECIFICATION FairSpec
CONSTANTS
    Tamanho = 2
    MaxMensagens = 3
    Janelas <- MCJanelas
    EstadosVivos <- MCVivos
    EstadosFinais <- MCFinais
    Quadros <- MCQuadros
INVARIANTS
    TypeOK
    SelecaoMostrada
    FechaPorUltimo
    ResultadoVerdadeiro
    DesenhoCabe
    RenderFiel
PROPERTIES
    ImplementaConexao
    ClienteTermina
CHECK_DEADLOCK FALSE
