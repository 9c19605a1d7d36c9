--------------------------- MODULE UnoClientProofs ---------------------------
(* For every size of a message, number of messages, set of windows and set of *)
(* states. main releases the socket and the critical sections only after the  *)
(* receiving thread, and releases everything (IInv). The two users of recvAll *)
(* get whole messages in order, because the client is a user of FluxoTcp      *)
(* (UsaFluxo); and from what has come whole, what is drawn, selected, asked   *)
(* and announced follows (InvCliente).                                        *)
EXTENDS UnoClient, UnoTelaProofs, UnoRenderProofs

Provas == INSTANCE FluxoTcpProofs

AntesDaThread == {"conecta", "inicial", "cria_thread"}
ComThread == {"valida", "copia", "tecla", "le_flags", "corta", "espera"}

\* What main has, by the point it has come to.
Posse ==
    /\ pcMain \in AntesDaThread \cup ComThread \cup {"fecha", "fim"}
    /\ pcMain = "conecta" => recursos = {"locks"}
    /\ pcMain \in {"inicial", "cria_thread"} => recursos = {"locks", "winsock", "socket"}
    /\ pcMain \in ComThread =>
         /\ {"locks", "winsock", "socket", "thread"} \subseteq recursos
         /\ recursos \subseteq {"locks", "winsock", "socket", "thread", "tela"}
    /\ pcMain = "fecha" =>
         /\ {"locks", "winsock", "socket"} \subseteq recursos
         /\ recursos \subseteq {"locks", "winsock", "socket", "tela"}
    /\ pcMain = "fim" => recursos = {}

\* The receiving thread exists from its creation on, and has ended before the release.
VidaDaThread ==
    /\ pcRecv \in {"nao_criada", "recv", "fim"}
    /\ pcMain \in AntesDaThread => pcRecv = "nao_criada"
    /\ pcMain \in {"fecha", "fim"} => pcRecv # "recv"

IInv == Posse /\ VidaDaThread

LEMMA InicioIInv == Init => IInv
  BY DEF Init, IInv, Posse, VidaDaThread, AntesDaThread, ComThread

(* The steps of the receiving thread end it, or leave it where it is.         *)
LEMMA PassoDaThread ==
    ASSUME IInv, RecvThread
    PROVE  IInv'
<1>1. pcMain' = pcMain /\ recursos' = recursos
  BY DEF RecvThread, mainVars
<1>2. pcRecv = "recv" /\ pcRecv' \in {"recv", "fim"}
  BY DEF RecvThread, RecvRodada, MarcaPerda, Trata
<1> QED
  BY <1>1, <1>2 DEF IInv, Posse, VidaDaThread, AntesDaThread, ComThread

(* What main gives back when it gives up before there is a thread.            *)
LEMMA PassoDeDesistir ==
    ASSUME IInv, pcMain \in {"inicial", "cria_thread"}, Desiste
    PROVE  IInv'
  BY DEF Desiste, IInv, Posse, VidaDaThread, AntesDaThread, ComThread

LEMMA PassoDeMain ==
    ASSUME IInv, Main
    PROVE  IInv'
<1> USE DEF IInv, Posse, VidaDaThread, AntesDaThread, ComThread
<1>1. CASE Conecta
  BY <1>1 DEF Conecta
<1>2. CASE RecvInicial
  <2>1. CASE UNCHANGED <<servidorVars, pcMain, pcRecv, sharedVars, mainVars>>
    BY <2>1 DEF mainVars
  <2>2. CASE Desiste
    BY <1>2, <2>2, PassoDeDesistir DEF RecvInicial
  <2> QED  BY <1>2, <2>1, <2>2 DEF RecvInicial
<1>3. CASE TrataInicial
  <2>1. CASE Desiste
    BY <1>3, <2>1, PassoDeDesistir DEF TrataInicial
  <2>2. CASE ~Desiste
    BY <1>3, <2>2 DEF TrataInicial, mainVars
  <2> QED  BY <2>1, <2>2
<1>4. CASE CriaThread
  <2>1. CASE Desiste
    BY <1>4, <2>1, PassoDeDesistir DEF CriaThread
  <2>2. CASE ~Desiste
    BY <1>4, <2>2 DEF CriaThread
  <2> QED  BY <2>1, <2>2
<1>5. CASE Valida
  BY <1>5 DEF Valida
<1>6. CASE Copia
  BY <1>6 DEF Copia
<1>7. CASE Tecla
  BY <1>7 DEF Tecla, Escape
<1>8. CASE LeFlags
  BY <1>8 DEF LeFlags
<1>9. CASE Corta
  BY <1>9 DEF Corta, mainVars
<1>10. CASE Espera
  BY <1>10 DEF Espera
<1>11. CASE Fecha
  BY <1>11 DEF Fecha
<1> QED
  BY <1>1, <1>2, <1>3, <1>4, <1>5, <1>6, <1>7, <1>8, <1>9, <1>10, <1>11 DEF Main

LEMMA PassoIInv == IInv /\ [Next]_vars => IInv'
<1> SUFFICES ASSUME IInv, [Next]_vars PROVE IInv'
  OBVIOUS
<1>1. CASE Main
  BY <1>1, PassoDeMain
<1>2. CASE RecvThread
  BY <1>2, PassoDaThread
<1>3. CASE Servidor
  BY <1>3 DEF Servidor, mainVars, IInv, Posse, VidaDaThread
<1>4. CASE UNCHANGED vars
  BY <1>4 DEF vars, mainVars, IInv, Posse, VidaDaThread
<1> QED
  BY <1>1, <1>2, <1>3, <1>4 DEF Next

LEMMA IInvBasta == IInv => FechaPorUltimo
  BY DEF IInv, Posse, VidaDaThread, AntesDaThread, ComThread, FechaPorUltimo

(* The socket and the critical sections outlive the receiving thread on each  *)
(* of the ways out of main, and at the end nothing is left.                   *)
THEOREM LiberaDepoisDaThread == Spec => []FechaPorUltimo
<1>1. Spec => []IInv
  BY InicioIInv, PassoIInv, PTL DEF Spec
<1> QED
  BY <1>1, IInvBasta, PTL

-----------------------------------------------------------------------------
(* The thread is created when main has called recvAll and recvAll has         *)
(* returned, so the two never receive at the same time.                       *)
Chegou == pcMain = "cria_thread" => totalRecebido = Tamanho

\* A step of the client is a step of its stream, or leaves the stream alone.
PassoDoFluxo == Fluxo!Next \/ UNCHANGED fluxoVars

LEMMA FluxoDaThread ==
    ASSUME IInv, RecvThread
    PROVE  PassoDoFluxo /\ Chegou'
<1>1. Chegou'
  BY DEF RecvThread, RecvRodada, MarcaPerda, Trata, mainVars, IInv, VidaDaThread,
         AntesDaThread, Chegou
<1>2. CASE RecvRodada
  BY <1>1, <1>2 DEF RecvRodada, PassoDoFluxo, Fluxo!Next, Fluxo!Posicoes
<1>3. CASE MarcaPerda
  BY <1>1, <1>3 DEF MarcaPerda, PassoDoFluxo
<1>4. CASE Trata
  BY <1>1, <1>4 DEF Trata, PassoDoFluxo, Fluxo!Next
<1> QED  BY <1>2, <1>3, <1>4 DEF RecvThread

LEMMA FluxoDoServidor ==
    ASSUME Chegou, Servidor
    PROVE  PassoDoFluxo /\ Chegou'
<1>1. pcMain' = pcMain
  BY DEF Servidor
<1>2. CASE Fluxo!ComecaEnvio
  BY <1>1, <1>2 DEF PassoDoFluxo, Chegou, Fluxo!Next, Fluxo!ComecaEnvio, Fluxo!receptorVars
<1>3. ASSUME NEW n \in 1 .. Tamanho, Fluxo!Send(n)
      PROVE  PassoDoFluxo /\ Chegou'
  BY <1>1, <1>3 DEF PassoDoFluxo, Chegou, Fluxo!Next, Fluxo!Send, Fluxo!receptorVars, Fluxo!Posicoes
<1>4. CASE Fluxo!SendFalha
  BY <1>1, <1>4 DEF PassoDoFluxo, Chegou, Fluxo!Next, Fluxo!SendFalha, Fluxo!receptorVars
<1>5. ASSUME NEW n \in 0 .. Len(canal), Fluxo!Termina(n)
      PROVE  PassoDoFluxo /\ Chegou'
  BY <1>1, <1>5 DEF PassoDoFluxo, Chegou, Fluxo!Next, Fluxo!Termina, Fluxo!receptorVars
<1> QED
  BY <1>2, <1>3, <1>4, <1>5 DEF Servidor, ServidorEnvia, ServidorSend, ServidorCai

LEMMA FluxoDeMain ==
    ASSUME Chegou, Main
    PROVE  PassoDoFluxo /\ Chegou'
<1> USE DEF PassoDoFluxo, Chegou
<1>1. CASE Conecta
  BY <1>1 DEF Conecta, fluxoVars
<1>2. CASE RecvInicial
  BY <1>2 DEF RecvInicial, Desiste, Fluxo!Next, Fluxo!Posicoes
<1>3. CASE TrataInicial
  BY <1>3 DEF TrataInicial, Desiste, fluxoVars
<1>4. CASE CriaThread
  BY <1>4 DEF CriaThread, Desiste, Fluxo!Next
<1>5. CASE Valida
  BY <1>5 DEF Valida
<1>6. CASE Copia
  BY <1>6 DEF Copia
<1>7. CASE Tecla
  BY <1>7 DEF Tecla, Escape
<1>8. CASE LeFlags
  BY <1>8 DEF LeFlags
<1>9. CASE Corta
  BY <1>9 DEF Corta, Fluxo!Next
<1>10. CASE Espera
  BY <1>10 DEF Espera
<1>11. CASE Fecha
  BY <1>11 DEF Fecha
<1> QED
  BY <1>1, <1>2, <1>3, <1>4, <1>5, <1>6, <1>7, <1>8, <1>9, <1>10, <1>11 DEF Main

LEMMA ClienteUsaFluxo ==
    ASSUME IInv, Chegou, [Next]_vars
    PROVE  [Fluxo!Next]_fluxoVars /\ Chegou'
<1>1. CASE UNCHANGED vars
  BY <1>1 DEF vars, fluxoVars, Chegou
<1>2. CASE Next
  BY <1>2, FluxoDaThread, FluxoDoServidor, FluxoDeMain DEF Next, PassoDoFluxo
<1> QED  BY <1>1, <1>2

-----------------------------------------------------------------------------
(* The stream of the client is the one that FluxoTcpProofs is about.          *)

LEMMA MesmoInicio == Fluxo!Init => Provas!Init
  BY DEF Fluxo!Init, Provas!Init, Fluxo!Byte, Provas!Byte, Fluxo!Posicoes, Provas!Posicoes,
         Fluxo!Nenhuma, Provas!Nenhuma

LEMMA MesmoPasso == [Fluxo!Next]_fluxoVars => [Provas!Next]_(Provas!fluxoVars)
<1> USE DEF Fluxo!Byte, Provas!Byte, Fluxo!Posicoes, Provas!Posicoes,
            Fluxo!emissorVars, Provas!emissorVars, Fluxo!receptorVars, Provas!receptorVars
<1>1. Fluxo!ComecaEnvio => Provas!ComecaEnvio
  BY DEF Fluxo!ComecaEnvio, Provas!ComecaEnvio
<1>2. Fluxo!SendFalha => Provas!SendFalha
  BY DEF Fluxo!SendFalha, Provas!SendFalha
<1>3. Fluxo!ComecaRecepcao => Provas!ComecaRecepcao
  BY DEF Fluxo!ComecaRecepcao, Provas!ComecaRecepcao
<1>4. ASSUME NEW n PROVE Fluxo!Send(n) => Provas!Send(n)
  BY DEF Fluxo!Send, Provas!Send
<1>5. ASSUME NEW n PROVE Fluxo!Recv(n) => Provas!Recv(n)
  BY DEF Fluxo!Recv, Provas!Recv, Fluxo!Lida, Provas!Lida, Fluxo!Torta, Provas!Torta
<1>6. ASSUME NEW n PROVE Fluxo!Termina(n) => Provas!Termina(n)
  BY DEF Fluxo!Termina, Provas!Termina
<1>7. Fluxo!Next => Provas!Next
  BY <1>1, <1>2, <1>3, <1>4, <1>5, <1>6 DEF Fluxo!Next, Provas!Next
<1> QED  BY <1>7 DEF fluxoVars, Provas!fluxoVars

LEMMA MesmaConexao ==
    /\ Provas!Con!Init => Fluxo!Con!Init
    /\ [Provas!Con!Next]_(Provas!Con!conexaoVars) => [Fluxo!Con!Next]_(Fluxo!Con!conexaoVars)
<1>1. Provas!Enviada = Fluxo!Enviada /\ (Provas!Enviada = Fluxo!Enviada)'
  BY DEF Provas!Enviada, Fluxo!Enviada, Provas!Inteiras, Fluxo!Inteiras
<1> QED
  BY <1>1 DEF Provas!Con!Init, Fluxo!Con!Init, Provas!Con!Next, Fluxo!Con!Next,
      Provas!Con!Envia, Fluxo!Con!Envia, Provas!Con!Recebe, Fluxo!Con!Recebe,
      Provas!Con!Termina, Fluxo!Con!Termina, Provas!Con!conexaoVars, Fluxo!Con!conexaoVars

\* So whatever is proved of the stream holds of the client's.
LEMMA UsaFluxo == Spec => Provas!Spec /\ []IInv /\ []Chegou
<1>1. Init => Provas!Init /\ IInv /\ Chegou
  <2>1. Init => Fluxo!Init /\ Chegou
    BY DEF Init, Chegou
  <2> QED  BY <2>1, MesmoInicio, InicioIInv
<1>2. IInv /\ Chegou /\ [Next]_vars => [Provas!Next]_(Provas!fluxoVars) /\ IInv' /\ Chegou'
  BY ClienteUsaFluxo, MesmoPasso, PassoIInv
<1> QED  BY <1>1, <1>2, PTL DEF Spec, Provas!Spec

LEMMA TamanhosValidos == Provas!TamanhoValido
  BY ClienteAssumption DEF Fluxo!TamanhoValido, Provas!TamanhoValido

(* The bytes that the server sends, in whatever pieces, are whole messages in *)
(* order for main and then for the receiving thread, which use the stream one *)
(* after the other.                                                           *)
THEOREM MensagensInteiras == Spec => ImplementaConexao
<1>1. Provas!Spec => Provas!ImplementaConexao
  BY TamanhosValidos, Provas!FluxoImplementaConexao
<1>2. Provas!ImplementaConexao => ImplementaConexao
  BY MesmaConexao, PTL DEF Provas!ImplementaConexao, Provas!Con!Spec,
     ImplementaConexao, Fluxo!ImplementaConexao, Fluxo!Con!Spec
<1> QED  BY <1>1, <1>2, UsaFluxo, PTL

-----------------------------------------------------------------------------
(* What has arrived, what the flags say of it, and what the user is told.     *)

Recebidas ==
    /\ mensagem \in 0 .. MaxMensagens /\ totalEnviado \in 0 .. Tamanho
    /\ totalRecebido \in 0 .. Tamanho /\ aberta \in BOOLEAN
    /\ ultima \in 0 .. mensagem
    /\ totalRecebido = Tamanho => ultima # 0

LEMMA SempreRecebidas == Spec => []Recebidas
<1>1. Provas!Spec => []Provas!Recebidas
  BY TamanhosValidos, Provas!FluxoContado
<1>2. Provas!Recebidas => Recebidas
  BY DEF Provas!Recebidas, Recebidas
<1> QED  BY <1>1, <1>2, UsaFluxo, PTL

Mensagens ==
    [tipo : {"iniciada", "estado"}, estado : EstadosVivos]
      \cup [tipo : {"invalida", "saiu"}, estado : {Vazio}]
      \cup [tipo : {"finalizada"}, estado : EstadosFinais]

\* conteudo has the messages that sendAll was given.
Conteudo == conteudo \in Seq(Mensagens) /\ Len(conteudo) = mensagem

(* A flag is the last thing the receiving thread sets: with it the thread has *)
(* ended, and no other flag is set.                                           *)
Flags ==
    /\ connectionLost \/ partidaFinalizada \/ adversarioSaiu => pcRecv = "fim"
    /\ connectionLost => ~aberta /\ ~partidaFinalizada /\ ~adversarioSaiu
    /\ adversarioSaiu => ultima # 0 /\ conteudo[ultima].tipo = "saiu"
    /\ partidaFinalizada =>
         /\ ultima # 0 /\ conteudo[ultima].tipo = "finalizada"
         /\ estado = conteudo[ultima].estado

\* The connection ends on the other side, or when main shuts it down.
Corte == ~aberta => perdida \/ pcMain \in {"espera", "fecha", "fim"}

\* What the user is told is still so.
Dito ==
    /\ resultado = "perdida" => connectionLost /\ perdida
    /\ resultado = "adversario_saiu" => adversarioSaiu
    /\ resultado \in {"venceu", "perdeu", "finalizada"} =>
         /\ partidaFinalizada
         /\ resultado = "venceu" <=> estado.cartas = << >>
         /\ resultado = "perdeu" <=> estado.numeroCartasAdversario = 0

\* The loop runs on a screen that has been found large enough.
TelaValida ==
    /\ screen \in Telas
    /\ pcMain \in {"copia", "tecla", "le_flags"} => ValidarTela(screen)

Tipado ==
    /\ perdida \in BOOLEAN
    /\ estado \in Estados /\ tela \in Estados
    /\ connectionLost \in BOOLEAN /\ partidaFinalizada \in BOOLEAN
    /\ adversarioSaiu \in BOOLEAN /\ statusMsg \in BOOLEAN
    /\ selectedCard \in 0 .. MAX_QTD_CARTAS_JOGADOR - 1
    /\ pedido.acao \in {"nenhuma", "jogar", "comprar", "uno"}
    /\ resultado \in {"nenhum", "erro", "perdida", "adversario_saiu", "venceu",
                       "perdeu", "finalizada"}

InvCliente == Tipado /\ Conteudo /\ Flags /\ Corte /\ Dito /\ TelaValida /\ SelecaoMostrada

LEMMA EstadosTipo ==
    ASSUME NEW e \in Estados
    PROVE  e.cartas \in Seq(Int) /\ QtdCartas(e) \in 0 .. MAX_QTD_CARTAS_JOGADOR
<1>1. CASE e = Vazio
  BY <1>1 DEF Vazio, QtdCartas, MAX_QTD_CARTAS_JOGADOR
<1>2. CASE e # Vazio
  <2>1. e.cartas \in Seq(Int) /\ Len(e.cartas) <= MAX_QTD_CARTAS_JOGADOR
    BY <1>2, ClienteAssumption DEF Estados
  <2>2. PICK n \in Nat : n = Len(e.cartas)
    BY <2>1
  <2>3. n <= 16
    BY <2>1, <2>2 DEF MAX_QTD_CARTAS_JOGADOR
  <2>4. n \in 0 .. 16
    BY <2>3
  <2> QED  BY <2>1, <2>2, <2>4 DEF QtdCartas, MAX_QTD_CARTAS_JOGADOR
<1> QED  BY <1>1, <1>2

LEMMA ClienteNoInicio == Init => InvCliente
<1> SUFFICES ASSUME Init PROVE InvCliente
  OBVIOUS
<1>1. Tipado
  <2>1. 0 \in 0 .. MAX_QTD_CARTAS_JOGADOR - 1
    BY DEF MAX_QTD_CARTAS_JOGADOR
  <2>2. Vazio \in Estados
    BY DEF Estados
  <2>3. SemPedido.acao = "nenhuma"
    BY DEF SemPedido
  <2> QED  BY <2>1, <2>2, <2>3 DEF Init, Tipado
<1>2. Conteudo
  BY EmptySeq DEF Init, Conteudo, Fluxo!Init, Fluxo!Nenhuma
<1>3. Flags /\ Corte /\ Dito
  BY DEF Init, Flags, Corte, Dito, Fluxo!Init
<1>4. TelaValida
  BY DEF Init, TelaValida, Telas, TelaNula
<1>5. SelecaoMostrada
  BY DEF Init, SelecaoMostrada, SemPedido
<1> QED  BY <1>1, <1>2, <1>3, <1>4, <1>5 DEF InvCliente

-----------------------------------------------------------------------------
(* The receiving thread.                                                      *)

\* The message that recvAll has returned is one that was sent.
LEMMA UltimaMensagem ==
    ASSUME Recebidas, Conteudo, ultima # 0
    PROVE  ultima \in 1 .. Len(conteudo) /\ conteudo[ultima] \in Mensagens
<1>1. ultima \in 1 .. Len(conteudo)
  BY DEF Recebidas, Conteudo
<1> QED  BY <1>1, ElementOfSeq DEF Conteudo

LEMMA ClienteRecebe ==
    ASSUME InvCliente, Recebidas, RecvThread
    PROVE  InvCliente'
<1> USE DEF InvCliente
<1>1. /\ UNCHANGED <<conteudo, perdida, pcMain, screen, tela, selectedCard, pedido, recursos,
                     resultado>>
      /\ pcRecv = "recv"
  BY DEF RecvThread, servidorVars, mainVars, RecvRodada, MarcaPerda, Trata
<1>2. UNCHANGED <<mensagem, aberta>>
  BY DEF RecvThread, RecvRodada, MarcaPerda, Trata, fluxoVars, Fluxo!Recv, Fluxo!emissorVars,
     Fluxo!ComecaRecepcao
<1>3. Conteudo' /\ Corte' /\ TelaValida' /\ SelecaoMostrada'
  BY <1>1, <1>2 DEF Conteudo, Corte, TelaValida, SelecaoMostrada
<1>4. ~connectionLost /\ ~partidaFinalizada /\ ~adversarioSaiu
  BY <1>1 DEF Flags
<1>5. Dito'
  BY <1>1, <1>4 DEF Dito
<1>6. CASE RecvRodada
  BY <1>1, <1>3, <1>4, <1>5, <1>6 DEF RecvRodada, sharedVars, Tipado, Flags
<1>7. CASE MarcaPerda
  BY <1>1, <1>3, <1>4, <1>5, <1>7
  DEF MarcaPerda, fluxoVars, Tipado, Flags, Fluxo!RecvTermina
<1>8. CASE Trata
  <2> DEFINE m == conteudo[ultima]
  <2>1. ultima # 0 /\ m \in Mensagens /\ m.estado \in Estados
    BY <1>8, UltimaMensagem DEF Trata, Recebidas, Mensagens, Estados
  <2>2. UNCHANGED ultima
    BY <1>8 DEF Trata, fluxoVars, Fluxo!ComecaRecepcao
  <2>3. Tipado'
    BY <1>1, <1>8, <2>1 DEF Trata, Tipado
  <2>4. Flags'
    BY <1>1, <1>4, <1>8, <2>1, <2>2 DEF Trata, Flags
  <2> QED  BY <1>3, <1>5, <2>3, <2>4
<1> QED  BY <1>6, <1>7, <1>8 DEF RecvThread

-----------------------------------------------------------------------------
(* The server.                                                                *)

LEMMA ClienteEServidor ==
    ASSUME InvCliente, Recebidas, Servidor
    PROVE  InvCliente'
<1> USE DEF InvCliente
<1>1. UNCHANGED <<pcMain, pcRecv, estado, connectionLost, partidaFinalizada, adversarioSaiu,
                  statusMsg, screen, tela, selectedCard, pedido, resultado>>
  BY DEF Servidor, sharedVars, mainVars
<1>2. TelaValida' /\ SelecaoMostrada'
  BY <1>1 DEF TelaValida, SelecaoMostrada
<1>3. CASE ServidorEnvia
  <2>1. /\ UNCHANGED <<perdida, aberta, ultima>> /\ mensagem' = mensagem + 1
        /\ \E m \in Proximas : conteudo' = Append(conteudo, m)
    BY <1>3 DEF ServidorEnvia, Fluxo!ComecaEnvio, Fluxo!receptorVars
  <2>2. Proximas \subseteq Mensagens
    BY DEF Proximas, Mensagens
  <2>3. PICK m \in Mensagens : conteudo' = Append(conteudo, m)
    BY <2>1, <2>2
  <2>4. Conteudo'
    BY <2>1, <2>3 DEF Conteudo
  <2>5. ultima # 0 => conteudo'[ultima] = conteudo[ultima]
    BY <2>3, UltimaMensagem DEF Conteudo
  <2>6. Flags' /\ Corte' /\ Dito'
    BY <1>1, <2>1, <2>5 DEF Flags, Corte, Dito
  <2>7. Tipado'
    BY <1>1, <2>1 DEF Tipado
  <2> QED  BY <1>2, <2>4, <2>6, <2>7
<1>4. CASE ServidorSend
  <2>1. UNCHANGED <<conteudo, perdida, aberta, ultima, mensagem>>
    BY <1>4 DEF ServidorSend, servidorVars, Fluxo!Send, Fluxo!SendFalha, Fluxo!receptorVars
  <2>2. Conteudo' /\ Flags' /\ Corte' /\ Dito' /\ Tipado'
    BY <1>1, <2>1 DEF Conteudo, Flags, Corte, Dito, Tipado
  <2> QED  BY <1>2, <2>2
<1>5. CASE ServidorCai
  <2>1. UNCHANGED <<conteudo, ultima, mensagem>> /\ perdida' = TRUE /\ aberta' = FALSE
    BY <1>5 DEF ServidorCai, Fluxo!Termina, Fluxo!emissorVars, Fluxo!receptorVars
  <2>2. Conteudo' /\ Flags' /\ Corte' /\ Dito' /\ Tipado'
    BY <1>1, <2>1 DEF Conteudo, Flags, Corte, Dito, Tipado
  <2> QED  BY <1>2, <2>2
<1> QED  BY <1>3, <1>4, <1>5 DEF Servidor

-----------------------------------------------------------------------------
(* The main thread.                                                           *)

\* Before there is a thread no flag is set, and nothing has been told.
LEMMA SemFlags ==
    ASSUME InvCliente, IInv, pcMain \in AntesDaThread
    PROVE  /\ pcRecv = "nao_criada"
           /\ ~connectionLost /\ ~partidaFinalizada /\ ~adversarioSaiu
           /\ resultado \in {"nenhum", "erro"}
<1>1. pcRecv = "nao_criada"
  BY DEF IInv, VidaDaThread
<1>2. ~connectionLost /\ ~partidaFinalizada /\ ~adversarioSaiu
  BY <1>1 DEF InvCliente, Flags
<1> QED  BY <1>1, <1>2 DEF InvCliente, Dito, Tipado

\* main gives up.
LEMMA ClienteDesiste ==
    ASSUME InvCliente, IInv, pcMain \in AntesDaThread, Desiste,
           UNCHANGED <<conteudo, perdida, mensagem, aberta>>
    PROVE  InvCliente'
<1>1. /\ UNCHANGED <<pcRecv, estado, connectionLost, partidaFinalizada, adversarioSaiu,
                     statusMsg, screen, tela, selectedCard, pedido>>
      /\ pcMain' = "fim" /\ resultado' = "erro"
  BY DEF Desiste, sharedVars
<1>2. Tipado' /\ Conteudo'
  BY <1>1 DEF InvCliente, Tipado, Conteudo
<1>3. Flags' /\ Corte' /\ Dito'
  BY <1>1, SemFlags DEF Flags, Corte, Dito
<1>4. TelaValida' /\ SelecaoMostrada'
  BY <1>1 DEF InvCliente, TelaValida, SelecaoMostrada
<1> QED  BY <1>2, <1>3, <1>4 DEF InvCliente

LEMMA ClienteComeca ==
    ASSUME InvCliente, IInv, Recebidas, Conecta \/ RecvInicial \/ TrataInicial \/ CriaThread
    PROVE  InvCliente'
<1> USE DEF InvCliente
<1>1. pcMain \in AntesDaThread
  BY DEF Conecta, RecvInicial, TrataInicial, CriaThread, AntesDaThread
<1>2. /\ pcRecv = "nao_criada"
      /\ ~connectionLost /\ ~partidaFinalizada /\ ~adversarioSaiu
      /\ resultado \in {"nenhum", "erro"}
  BY <1>1, SemFlags
<1>3. CASE Conecta
  <2>1. /\ UNCHANGED <<mensagem, aberta, ultima, conteudo, perdida, pcRecv, estado,
                       connectionLost, partidaFinalizada, adversarioSaiu, statusMsg,
                       screen, tela, selectedCard, pedido>>
        /\ pcMain' \in {"inicial", "fim"} /\ resultado' \in {resultado, "erro"}
        /\ pcMain = "conecta"
    BY <1>3 DEF Conecta, fluxoVars, servidorVars, sharedVars
  <2>2. Tipado' /\ Conteudo' /\ Flags' /\ Dito'
    BY <1>2, <2>1 DEF Tipado, Conteudo, Flags, Dito
  <2>3. Corte' /\ TelaValida' /\ SelecaoMostrada'
    BY <2>1 DEF Corte, TelaValida, SelecaoMostrada
  <2> QED  BY <2>2, <2>3
<1>4. CASE RecvInicial
  <2>1. CASE Desiste /\ UNCHANGED <<fluxoVars, servidorVars>>
    BY <1>1, <2>1, ClienteDesiste DEF fluxoVars, servidorVars
  <2>2. CASE /\ \E n \in 1 .. Tamanho : Fluxo!Recv(n)
             /\ UNCHANGED <<servidorVars, pcMain, pcRecv, sharedVars, mainVars>>
    <3>1. UNCHANGED <<mensagem, aberta, conteudo, perdida, pcMain, pcRecv, estado,
                      connectionLost, partidaFinalizada, adversarioSaiu, statusMsg,
                      screen, tela, selectedCard, pedido, resultado>>
      BY <2>2 DEF Fluxo!Recv, Fluxo!emissorVars, servidorVars, sharedVars, mainVars
    <3>2. Tipado' /\ Conteudo' /\ Flags' /\ Corte' /\ Dito' /\ TelaValida' /\ SelecaoMostrada'
      BY <1>2, <3>1
      DEF Tipado, Conteudo, Flags, Corte, Dito, TelaValida, SelecaoMostrada
    <3> QED  BY <3>2
  <2> QED  BY <1>4, <2>1, <2>2 DEF RecvInicial
<1>5. CASE TrataInicial
  <2>1. CASE Desiste
    BY <1>1, <1>5, <2>1, ClienteDesiste DEF TrataInicial, fluxoVars, servidorVars
  <2>2. CASE ~Desiste
    <3>1. /\ UNCHANGED <<mensagem, aberta, ultima, conteudo, perdida, pcRecv, connectionLost,
                         partidaFinalizada, adversarioSaiu, statusMsg, screen, tela,
                         selectedCard, pedido, resultado>>
          /\ pcMain = "inicial" /\ pcMain' = "cria_thread"
          /\ estado' = conteudo[ultima].estado /\ totalRecebido = Tamanho
      BY <1>5, <2>2 DEF TrataInicial, fluxoVars, servidorVars, mainVars
    <3>2. estado' \in Estados
      BY <3>1, UltimaMensagem DEF Recebidas, Mensagens, Estados
    <3>3. Tipado' /\ Conteudo' /\ Flags' /\ Dito'
      BY <1>2, <3>1, <3>2 DEF Tipado, Conteudo, Flags, Dito
    <3>4. Corte' /\ TelaValida' /\ SelecaoMostrada'
      BY <3>1 DEF Corte, TelaValida, SelecaoMostrada
    <3> QED  BY <3>3, <3>4
  <2> QED  BY <2>1, <2>2
<1>6. CASE CriaThread
  <2>1. CASE Desiste /\ UNCHANGED fluxoVars
    BY <1>1, <1>6, <2>1, ClienteDesiste DEF CriaThread, fluxoVars, servidorVars
  <2>2. CASE ~(Desiste /\ UNCHANGED fluxoVars)
    <3>1. /\ UNCHANGED <<mensagem, aberta, ultima, conteudo, perdida, estado, connectionLost,
                         partidaFinalizada, adversarioSaiu, statusMsg, screen, tela,
                         selectedCard, pedido, resultado>>
          /\ pcMain = "cria_thread" /\ pcMain' = "valida"
      BY <1>6, <2>2
      DEF CriaThread, Fluxo!ComecaRecepcao, Fluxo!emissorVars, servidorVars, sharedVars
    <3>2. Tipado' /\ Conteudo' /\ Flags' /\ Dito'
      BY <1>2, <3>1 DEF Tipado, Conteudo, Flags, Dito
    <3>3. Corte' /\ TelaValida' /\ SelecaoMostrada'
      BY <3>1 DEF Corte, TelaValida, SelecaoMostrada
    <3> QED  BY <3>2, <3>3
  <2> QED  BY <2>1, <2>2
<1> QED  BY <1>3, <1>4, <1>5, <1>6

LEMMA ClienteValida ==
    ASSUME InvCliente, Valida
    PROVE  InvCliente'
<1> USE DEF InvCliente
<1>1. /\ UNCHANGED <<mensagem, aberta, ultima, conteudo, perdida, pcRecv, estado,
                     connectionLost, partidaFinalizada, adversarioSaiu, statusMsg, tela,
                     selectedCard, pedido>>
      /\ pcMain = "valida"
      /\ \/ ValidarTela(screen') /\ pcMain' = "copia" /\ UNCHANGED resultado
         \/ pcMain' = "corta" /\ resultado' = "erro"
  BY DEF Valida, fluxoVars, servidorVars, sharedVars
<1>2. screen' \in Telas
  <2>1. PICK j \in Janelas, haMemoria \in BOOLEAN : screen' = GetScreenSize(j, haMemoria)
    BY DEF Valida
  <2>2. j.width \in Int /\ j.height \in Int
    BY ClienteAssumption
  <2> QED  BY <2>1, <2>2 DEF GetScreenSize, TelaNula, Telas, VERTICAL_MARGIN
<1>3. Tipado' /\ Conteudo' /\ Flags' /\ Dito'
  BY <1>1 DEF Tipado, Conteudo, Flags, Dito
<1>4. Corte' /\ TelaValida' /\ SelecaoMostrada'
  BY <1>1, <1>2 DEF Corte, TelaValida, SelecaoMostrada
<1> QED  BY <1>3, <1>4

LEMMA ClienteCopia ==
    ASSUME InvCliente, Copia
    PROVE  InvCliente'
<1> USE DEF InvCliente
<1>1. /\ UNCHANGED <<mensagem, aberta, ultima, conteudo, perdida, pcRecv, estado,
                     connectionLost, partidaFinalizada, adversarioSaiu, screen, resultado>>
      /\ pcMain = "copia" /\ pcMain' \in {"le_flags", "tecla"}
      /\ tela' = estado /\ selectedCard' = Selecao(estado) /\ pedido' = SemPedido
      /\ statusMsg' \in {FALSE, statusMsg}
  BY DEF Copia, fluxoVars, servidorVars
<1>2. PICK n \in 0 .. 16 : n = QtdCartas(estado)
  BY EstadosTipo DEF Tipado, MAX_QTD_CARTAS_JOGADOR
<1>3. selectedCard \in 0 .. 15
  BY DEF Tipado, MAX_QTD_CARTAS_JOGADOR
<1>4. /\ selectedCard' \in 0 .. 15
      /\ selectedCard' < QtdCartas(estado) \/ (selectedCard' = 0 /\ QtdCartas(estado) = 0)
  BY <1>1, <1>2, <1>3 DEF Selecao
<1>5. Tipado'
  <2>1. selectedCard' \in 0 .. MAX_QTD_CARTAS_JOGADOR - 1
    BY <1>4 DEF MAX_QTD_CARTAS_JOGADOR
  <2>2. pedido'.acao = "nenhuma"
    BY <1>1 DEF SemPedido
  <2> QED  BY <1>1, <2>1, <2>2 DEF Tipado
<1>6. SelecaoMostrada'
  BY <1>1, <1>4 DEF SelecaoMostrada, SemPedido
<1>7. Conteudo' /\ Flags' /\ Dito' /\ Corte' /\ TelaValida'
  BY <1>1 DEF Conteudo, Flags, Dito, Corte, TelaValida
<1> QED  BY <1>5, <1>6, <1>7

LEMMA ClienteTecla ==
    ASSUME InvCliente, Tecla
    PROVE  InvCliente'
<1> USE DEF InvCliente
<1>1. /\ UNCHANGED <<mensagem, aberta, ultima, conteudo, perdida, pcRecv, estado,
                     connectionLost, partidaFinalizada, adversarioSaiu, statusMsg, screen,
                     tela, resultado>>
      /\ pcMain = "tecla" /\ pcMain' \in {"le_flags", "copia"}
      /\ Direita \/ Esquerda \/ Enter \/ Baixo \/ Cima \/ NenhumEfeito
  BY DEF Tecla, Escape, fluxoVars, servidorVars, sharedVars
<1>2. PICK n \in 0 .. 16 : n = QtdCartas(tela) /\ n = Len(tela.cartas)
  BY EstadosTipo DEF Tipado, MAX_QTD_CARTAS_JOGADOR, QtdCartas
<1>3. tela.cartas \in Seq(Int)
  BY EstadosTipo DEF Tipado
<1>4. selectedCard \in 0 .. 15 /\ (selectedCard < n \/ (selectedCard = 0 /\ n = 0))
  BY <1>1, <1>2 DEF Tipado, SelecaoMostrada, MAX_QTD_CARTAS_JOGADOR
<1>5. /\ selectedCard' \in 0 .. 15
      /\ pedido'.acao \in {"nenhuma", "jogar", "comprar", "uno"}
      /\ pedido'.acao = "jogar" =>
           tela.suaVez /\ \E i \in DOMAIN tela.cartas : pedido'.carta = tela.cartas[i]
  <2>1. CASE Direita \/ Esquerda \/ NenhumEfeito
    <3>1. selectedCard' \in 0 .. 15
      <4>1. CASE Direita
        <5>1. selectedCard < n - 1 /\ selectedCard' = selectedCard + 1
          BY <1>2, <4>1 DEF Direita
        <5>2. n \in 0 .. 16 /\ selectedCard \in 0 .. 15
          BY <1>2, <1>4
        <5>3. selectedCard + 1 \in 0 .. 15
          BY <5>1, <5>2
        <5> QED  BY <5>1, <5>3
      <4>2. CASE Esquerda
        BY <1>4, <4>2 DEF Esquerda
      <4>3. CASE NenhumEfeito
        BY <1>4, <4>3 DEF NenhumEfeito
      <4> QED  BY <2>1, <4>1, <4>2, <4>3
    <3>2. UNCHANGED pedido
      BY <2>1 DEF Direita, Esquerda, NenhumEfeito
    <3> QED  BY <3>1, <3>2 DEF Tipado, SelecaoMostrada
  <2>2. CASE Enter
    <3>1. /\ n > 0 /\ tela.suaVez /\ UNCHANGED selectedCard
          /\ pedido' = [acao |-> "jogar", carta |-> tela.cartas[selectedCard + 1]]
      BY <1>2, <2>2 DEF Enter
    <3>2. selectedCard + 1 \in 1 .. n
      BY <1>4, <3>1
    <3>3. selectedCard + 1 \in DOMAIN tela.cartas
      BY <1>2, <1>3, <3>2
    <3> QED  BY <1>4, <3>1, <3>3
  <2>3. CASE Baixo \/ Cima
    BY <1>4, <2>3 DEF Baixo, Cima
  <2> QED  BY <1>1, <2>1, <2>2, <2>3
<1>6. Tipado' /\ SelecaoMostrada'
  BY <1>1, <1>5 DEF Tipado, SelecaoMostrada, MAX_QTD_CARTAS_JOGADOR
<1>7. Conteudo' /\ Flags' /\ Dito' /\ Corte' /\ TelaValida'
  BY <1>1 DEF Conteudo, Flags, Dito, Corte, TelaValida
<1> QED  BY <1>6, <1>7

\* The flags tell what has happened, and nothing happens after them.
LEMMA ClienteLeFlags ==
    ASSUME InvCliente, Recebidas, LeFlags
    PROVE  InvCliente'
<1> USE DEF InvCliente
<1>1. /\ UNCHANGED <<mensagem, aberta, ultima, conteudo, perdida, pcRecv, estado,
                     connectionLost, partidaFinalizada, adversarioSaiu, statusMsg, screen,
                     tela, selectedCard, pedido>>
      /\ pcMain = "le_flags" /\ pcMain' = "corta" /\ resultado' = Anuncio
  BY DEF LeFlags, fluxoVars, servidorVars, sharedVars
<1>2. Tipado' /\ SelecaoMostrada' /\ Conteudo' /\ Flags' /\ Corte' /\ TelaValida'
  BY <1>1 DEF Anuncio, Tipado, SelecaoMostrada, Conteudo, Flags, Corte, TelaValida
<1>3. CASE connectionLost \/ adversarioSaiu \/ ~partidaFinalizada
  <2>1. Dito'
    <3>1. CASE connectionLost
      <4>1. resultado' = "perdida" /\ perdida' /\ connectionLost'
        BY <1>1, <3>1 DEF Anuncio, Corte, Flags
      <4> QED  BY <4>1 DEF Dito
    <3>2. CASE ~connectionLost /\ adversarioSaiu
      BY <1>1, <3>2 DEF Anuncio, Dito
    <3>3. CASE ~connectionLost /\ ~adversarioSaiu /\ ~partidaFinalizada
      BY <1>1, <3>3 DEF Anuncio, Dito
    <3> QED  BY <1>3, <3>1, <3>2, <3>3
  <2> QED  BY <1>2, <2>1
<1>4. CASE ~connectionLost /\ ~adversarioSaiu /\ partidaFinalizada
  <2>1. estado \in EstadosFinais /\ estado.cartas \in Seq(Int)
    <3>1. conteudo[ultima] \in Mensagens
      BY <1>4, UltimaMensagem DEF Flags
    <3>2. estado \in EstadosFinais
      BY <1>4, <3>1 DEF Flags, Mensagens
    <3> QED  BY <3>2, EstadosTipo DEF Estados
  <2>2. estado.cartas # << >> \/ estado.numeroCartasAdversario # 0
    BY <2>1, ClienteAssumption
  <2>3. QtdCartas(estado) = 0 <=> estado.cartas = << >>
    BY <2>1, EmptySeq DEF QtdCartas
  <2>4. resultado' = IF estado.cartas = << >> THEN "venceu"
                     ELSE IF estado.numeroCartasAdversario = 0 THEN "perdeu" ELSE "finalizada"
    BY <1>1, <1>4, <2>3 DEF Anuncio
  <2>5. Dito'
    BY <1>1, <1>4, <2>2, <2>4 DEF Dito
  <2> QED  BY <1>2, <2>5
<1> QED  BY <1>2, <1>3, <1>4

LEMMA ClienteSai ==
    ASSUME InvCliente, Corta \/ Espera \/ Fecha
    PROVE  InvCliente'
<1> USE DEF InvCliente
<1>1. /\ UNCHANGED <<mensagem, ultima, conteudo, perdida, pcRecv, estado, connectionLost,
                     partidaFinalizada, adversarioSaiu, statusMsg, screen, tela,
                     selectedCard, pedido, resultado>>
      /\ aberta' \in {aberta, FALSE} /\ pcMain' \in {"espera", "fecha", "fim"}
  BY DEF Corta, Espera, Fecha, fluxoVars, servidorVars, sharedVars, mainVars, Fluxo!Termina,
     Fluxo!emissorVars, Fluxo!receptorVars
<1>2. Tipado' /\ SelecaoMostrada' /\ Conteudo' /\ Dito' /\ Corte' /\ TelaValida'
  BY <1>1 DEF Tipado, SelecaoMostrada, Conteudo, Dito, Corte, TelaValida
<1>3. Flags'
  <2>1. ~aberta => ~aberta'
    BY <1>1
  <2> QED  BY <1>1, <2>1 DEF Flags
<1> QED  BY <1>2, <1>3

LEMMA ClientePasso == InvCliente /\ IInv /\ Recebidas /\ [Next]_vars => InvCliente'
<1> SUFFICES ASSUME InvCliente, IInv, Recebidas, [Next]_vars PROVE InvCliente'
  OBVIOUS
<1>1. CASE Main
  BY <1>1, ClienteComeca, ClienteValida, ClienteCopia, ClienteTecla, ClienteLeFlags,
     ClienteSai DEF Main
<1>2. CASE RecvThread
  BY <1>2, ClienteRecebe
<1>3. CASE Servidor
  BY <1>3, ClienteEServidor
<1>4. CASE UNCHANGED vars
  BY <1>4
  DEF vars, fluxoVars, servidorVars, sharedVars, mainVars, InvCliente, Tipado, Conteudo,
      Flags, Corte, Dito, TelaValida, SelecaoMostrada
<1> QED  BY <1>1, <1>2, <1>3, <1>4 DEF Next

LEMMA ClienteInvariante == Spec => [](InvCliente /\ IInv /\ Recebidas)
BY ClienteNoInicio, ClientePasso, UsaFluxo, SempreRecebidas, PTL DEF Spec

-----------------------------------------------------------------------------
(* Every variable of the client has its type: recvAll never returns bytes     *)
(* that are no message, no message is counted that was not sent, and the      *)
(* selected card is a place of the array.                                     *)
THEOREM TiposDoCliente == Spec => []TypeOK
<1>1. ASSUME InvCliente, IInv, Recebidas
      PROVE  TypeOK
  <2>1. ultima \in 0 .. MaxMensagens + 1
    BY <1>1, ClienteAssumption DEF Recebidas, Fluxo!TamanhoValido
  <2>2. /\ recursos \subseteq {"locks", "winsock", "socket", "thread", "tela"}
        /\ pcMain \in {"conecta", "inicial", "cria_thread", "valida", "copia", "tecla",
                       "le_flags", "corta", "espera", "fecha", "fim"}
        /\ pcRecv \in {"nao_criada", "recv", "fim"}
    BY <1>1 DEF IInv, Posse, VidaDaThread, AntesDaThread, ComThread
  <2> QED  BY <1>1, <2>1, <2>2 DEF InvCliente, Tipado, Recebidas, TypeOK
<1>2. InvCliente /\ IInv /\ Recebidas => TypeOK
  BY <1>1
<1> QED  BY <1>2, ClienteInvariante, PTL

(* The card that is highlighted is one of the hand on the screen, and a card  *)
(* that ENTER asks for is too, on a screen that says "SUA VEZ", whatever the  *)
(* receiving thread does to the shared hand between two keys.                 *)
THEOREM SelecaoNaMao == Spec => []SelecaoMostrada
<1>1. InvCliente => SelecaoMostrada
  BY DEF InvCliente
<1> QED  BY <1>1, ClienteInvariante, PTL

(* What the user is told at the end has happened, and stays so: the flags are *)
(* read before main shuts the socket down, which sets connectionLost too.     *)
THEOREM ResultadoCerto == Spec => []ResultadoVerdadeiro
<1>1. ASSUME InvCliente, Recebidas
      PROVE  ResultadoVerdadeiro
  <2> DEFINE chegaram == {conteudo[i] : i \in 1 .. ultima}
  <2>1. ultima # 0 => conteudo[ultima] \in chegaram
    BY <1>1 DEF Recebidas
  <2>2. resultado = "perdida" => perdida /\ ~partidaFinalizada /\ ~adversarioSaiu
    BY <1>1 DEF InvCliente, Dito, Flags
  <2>3. resultado = "adversario_saiu" => \E m \in chegaram : m.tipo = "saiu"
    BY <1>1, <2>1 DEF InvCliente, Dito, Flags
  <2>4. resultado \in {"venceu", "perdeu", "finalizada"} =>
          \E m \in chegaram :
            /\ m.tipo = "finalizada"
            /\ resultado = "venceu" <=> m.estado.cartas = << >>
            /\ resultado = "perdeu" <=> m.estado.numeroCartasAdversario = 0
    BY <1>1, <2>1 DEF InvCliente, Dito, Flags
  <2> QED  BY <2>2, <2>3, <2>4 DEF ResultadoVerdadeiro
<1>2. InvCliente /\ Recebidas => ResultadoVerdadeiro
  BY <1>1
<1> QED  BY <1>2, ClienteInvariante, PTL

(* The loop draws only on screens that validarTela has let pass, and on those *)
(* everything fits, for any window and any hand that a message can hold.      *)
THEOREM TelaSempreCabe == Spec => []DesenhoCabe
<1>1. ASSUME InvCliente
      PROVE  DesenhoCabe
  <2>1. screen \in Telas /\ (pcMain \in {"tecla", "le_flags"} => ValidarTela(screen))
    BY <1>1 DEF InvCliente, TelaValida
  <2>2. QtdCartas(tela) \in 0 .. MAX_QTD_CARTAS_JOGADOR
    BY <1>1, EstadosTipo DEF InvCliente, Tipado
  <2> QED  BY <2>1, <2>2, DesenhoSempreCabe DEF DesenhoCabe
<1>2. InvCliente => DesenhoCabe
  BY <1>1
<1> QED  BY <1>2, ClienteInvariante, PTL

(* What the main loop has drawn is what the terminal shows, whatever the      *)
(* drawing buffers hold: renderScreen leaves out no escape sequence that the  *)
(* terminal needed.                                                           *)
THEOREM TelaSempreFiel == Spec => []RenderFiel
<1>1. TerminalFiel
  BY ClienteAssumption, TerminalSempreFiel DEF ClienteAssumption, TerminalFiel
<1>2. RenderFiel
  BY <1>1 DEF RenderFiel
<1> QED  BY <1>2, PTL
=============================================================================
