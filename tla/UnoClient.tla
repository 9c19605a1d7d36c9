------------------------------ MODULE UnoClient ------------------------------
(* One client program: its main thread, its receiving thread, the state they  *)
(* share under a lock, the screen, and the stream of bytes from the server    *)
(* (FluxoTcp).  The server is whatever speaks the protocol: it starts with    *)
(* MSG_PARTIDA_INICIADA or not, sends the other messages as it likes, and may *)
(* be gone at any byte.  UnoMatch has the two clients with the real server.   *)
EXTENDS Integers, Sequences, FiniteSets, UnoTela

CONSTANTS Tamanho, MaxMensagens,   \* see FluxoTcp
          Janelas,                 \* the sizes the window may have
          EstadosVivos,            \* states the server may send in the middle of a match
          EstadosFinais,           \* and at its end
          Quadros                  \* what the drawing buffer may hold

VARIABLES mensagem, totalEnviado, canal, aberta, buffer, totalRecebido, ultima,
          conteudo,            \* what the server has sent, by number
          perdida,             \* the connection was ended by the other side
          pcMain, pcRecv,
          estado, connectionLost, partidaFinalizada, adversarioSaiu,   \* g_shared
          statusMsg,           \* g_shared.statusMsg is not empty
          screen,              \* main: the size of the drawing buffer
          tela,                \* main: the copy of estado that is on the screen
          selectedCard,        \* main: hand.selectedCard
          pedido,              \* the request sent in this round of the loop
          recursos,            \* what main has still to give back
          resultado            \* what exibirResultadoFinal says

fluxoVars == <<mensagem, totalEnviado, canal, aberta, buffer, totalRecebido, ultima>>
servidorVars == <<conteudo, perdida>>
sharedVars == <<estado, connectionLost, partidaFinalizada, adversarioSaiu, statusMsg>>
mainVars == <<screen, tela, selectedCard, pedido, recursos, resultado>>
vars == <<fluxoVars, servidorVars, pcMain, pcRecv, sharedVars, mainVars>>

Fluxo == INSTANCE FluxoTcp

(* A hand is as long as the array of the message at most, and a match ends    *)
(* when one of the two hands is empty and the other is not (VitoriaCoerente   *)
(* of UnoGame).                                                               *)
ASSUME ClienteAssumption ==
    /\ Fluxo!TamanhoValido
    /\ \A j \in Janelas : j.width \in Int /\ j.height \in Int
    /\ \A e \in EstadosVivos \cup EstadosFinais :
         e.cartas \in Seq(Int) /\ Len(e.cartas) <= MAX_QTD_CARTAS_JOGADOR
    /\ \A e \in EstadosFinais : e.cartas # << >> \/ e.numeroCartasAdversario # 0
    /\ \A linhas \in Quadros : linhas \in Buffers

\* g_shared after memset.
Vazio == [cartas |-> << >>, suaVez |-> FALSE, numeroCartasAdversario |-> 0]

QtdCartas(e) == Len(e.cartas)

SemPedido == [acao |-> "nenhuma", carta |-> 0]

Init ==
    /\ Fluxo!Init
    /\ conteudo = << >> /\ perdida = FALSE
    /\ pcMain = "conecta" /\ pcRecv = "nao_criada"
    /\ estado = Vazio
    /\ connectionLost = FALSE /\ partidaFinalizada = FALSE /\ adversarioSaiu = FALSE
    /\ statusMsg = FALSE
    /\ screen = TelaNula /\ tela = Vazio /\ selectedCard = 0
    /\ pedido = SemPedido
    /\ recursos = {"locks"}
    /\ resultado = "nenhum"

-----------------------------------------------------------------------------
(* The other side of the connection.                                          *)

\* The messages that may come next; none after the end of a match.
Proximas ==
    IF conteudo = << >>
      THEN [tipo : {"iniciada"}, estado : EstadosVivos]
             \cup [tipo : {"invalida"}, estado : {Vazio}]
    ELSE IF conteudo[Len(conteudo)].tipo \in {"finalizada", "saiu"} THEN {}
    ELSE [tipo : {"estado"}, estado : EstadosVivos]
           \cup [tipo : {"invalida", "saiu"}, estado : {Vazio}]
           \cup [tipo : {"finalizada"}, estado : EstadosFinais]

ServidorEnvia ==
    /\ pcMain # "conecta" /\ Fluxo!ComecaEnvio
    /\ \E m \in Proximas : conteudo' = Append(conteudo, m)
    /\ UNCHANGED perdida

ServidorSend ==
    /\ \E n \in 1 .. Tamanho : Fluxo!Send(n) \/ Fluxo!SendFalha
    /\ UNCHANGED servidorVars

\* The server closes the connection, crashes, or the network goes down.
ServidorCai ==
    /\ pcMain # "conecta" /\ aberta
    /\ \E n \in 0 .. Len(canal) : Fluxo!Termina(n)
    /\ perdida' = TRUE
    /\ UNCHANGED conteudo

Servidor ==
    /\ ServidorEnvia \/ ServidorSend \/ ServidorCai
    /\ UNCHANGED <<pcMain, pcRecv, sharedVars, mainVars>>

-----------------------------------------------------------------------------
(* The main thread up to the loop.                                            *)

(* iniciarWinsock and conectarServidor, with what main and they give back     *)
(* when they fail.                                                            *)
Conecta ==
    /\ pcMain = "conecta"
    /\ \/ /\ pcMain' = "inicial"
          /\ recursos' = recursos \cup {"winsock", "socket"}
          /\ UNCHANGED resultado
       \/ /\ pcMain' = "fim" /\ recursos' = {} /\ resultado' = "erro"
    /\ UNCHANGED <<fluxoVars, servidorVars, pcRecv, sharedVars,
                   screen, tela, selectedCard, pedido>>

\* main gives up before there is a second thread.
Desiste ==
    /\ pcMain' = "fim"
    /\ recursos' = recursos \ {"socket", "winsock", "locks"}
    /\ resultado' = "erro"
    /\ UNCHANGED <<pcRecv, sharedVars, screen, tela, selectedCard, pedido>>

\* A round of recvAll in receberMensagemInicial.
RecvInicial ==
    /\ pcMain = "inicial" /\ totalRecebido < Tamanho
    /\ \/ /\ \E n \in 1 .. Tamanho : Fluxo!Recv(n)
          /\ UNCHANGED <<servidorVars, pcMain, pcRecv, sharedVars, mainVars>>
       \/ /\ Fluxo!RecvTermina /\ Desiste
          /\ UNCHANGED <<fluxoVars, servidorVars>>

\* Anything but MSG_PARTIDA_INICIADA is a protocol error.
TrataInicial ==
    /\ pcMain = "inicial" /\ totalRecebido = Tamanho
    /\ IF conteudo[ultima].tipo = "iniciada"
         THEN /\ estado' = conteudo[ultima].estado
              /\ pcMain' = "cria_thread"
              /\ UNCHANGED <<pcRecv, connectionLost, partidaFinalizada, adversarioSaiu,
                             statusMsg, mainVars>>
         ELSE Desiste
    /\ UNCHANGED <<fluxoVars, servidorVars>>

\* The new thread starts with a call of recvAll.
CriaThread ==
    /\ pcMain = "cria_thread"
    /\ \/ /\ pcRecv' = "recv" /\ Fluxo!ComecaRecepcao
          /\ pcMain' = "valida"
          /\ recursos' = recursos \cup {"thread"}
          /\ UNCHANGED <<sharedVars, screen, tela, selectedCard, pedido, resultado>>
       \/ Desiste /\ UNCHANGED fluxoVars
    /\ UNCHANGED servidorVars

\* getScreenSize and validarTela; on a small screen the program ends.
Valida ==
    /\ pcMain = "valida"
    /\ \E j \in Janelas, haMemoria \in BOOLEAN : screen' = GetScreenSize(j, haMemoria)
    /\ recursos' = IF screen' = TelaNula THEN recursos ELSE recursos \cup {"tela"}
    /\ IF ValidarTela(screen')
         THEN pcMain' = "copia" /\ UNCHANGED resultado
         ELSE pcMain' = "corta" /\ resultado' = "erro"
    /\ UNCHANGED <<fluxoVars, servidorVars, pcRecv, sharedVars, tela, selectedCard, pedido>>

-----------------------------------------------------------------------------
(* The main loop.                                                             *)

\* Mutant: the selection is left alone when the hand shrinks.
SelecaoSemLimite(e) == selectedCard

\* The selection is kept inside the hand that is about to be drawn.
Selecao(e) ==
    IF selectedCard < QtdCartas(e) THEN selectedCard
    ELSE IF QtdCartas(e) > 0 THEN QtdCartas(e) - 1 ELSE 0

(* The top of the loop: shared state and flags are copied under the lock, the *)
(* copy is drawn, and the loop is left when one of the flags was set.  The    *)
(* status line may have expired: the two times compared are GetTickCount's,   *)
(* which starts again from 0 after 49 days, so either answer is possible.     *)
Copia ==
    /\ pcMain = "copia"
    /\ tela' = estado
    /\ selectedCard' = Selecao(estado)
    /\ pedido' = SemPedido
    /\ pcMain' = IF connectionLost \/ adversarioSaiu \/ partidaFinalizada
                   THEN "le_flags" ELSE "tecla"
    /\ statusMsg' \in {FALSE, statusMsg}
    /\ UNCHANGED <<fluxoVars, servidorVars, pcRecv, estado, connectionLost,
                   partidaFinalizada, adversarioSaiu, screen, recursos, resultado>>

\* readInput and processarEntrada.  A request that cannot be sent is forgotten.
Direita ==
    /\ selectedCard < QtdCartas(tela) - 1
    /\ selectedCard' = selectedCard + 1 /\ UNCHANGED pedido

Esquerda ==
    /\ selectedCard > 0
    /\ selectedCard' = selectedCard - 1 /\ UNCHANGED pedido

Enter ==
    /\ tela.suaVez /\ QtdCartas(tela) > 0
    /\ pedido' = [acao |-> "jogar", carta |-> tela.cartas[selectedCard + 1]]
    /\ UNCHANGED selectedCard

Baixo ==
    /\ tela.suaVez
    /\ pedido' = [acao |-> "comprar", carta |-> 0] /\ UNCHANGED selectedCard

Cima == pedido' = [acao |-> "uno", carta |-> 0] /\ UNCHANGED selectedCard

NenhumEfeito == UNCHANGED <<selectedCard, pedido>>

Escape == pcMain' = "le_flags" /\ NenhumEfeito

Tecla ==
    /\ pcMain = "tecla"
    /\ \/ /\ Direita \/ Esquerda \/ Enter \/ Baixo \/ Cima \/ NenhumEfeito
          /\ pcMain' = "copia"
       \/ Escape
    /\ UNCHANGED <<fluxoVars, servidorVars, pcRecv, sharedVars, screen, tela, recursos,
                   resultado>>

-----------------------------------------------------------------------------
(* The way out.                                                               *)

\* What exibirResultadoFinal says, by the flags and the state as they are.
Anuncio ==
    IF connectionLost THEN "perdida"
    ELSE IF adversarioSaiu THEN "adversario_saiu"
    ELSE IF ~partidaFinalizada THEN "nenhum"
    ELSE IF QtdCartas(estado) = 0 THEN "venceu"
    ELSE IF estado.numeroCartasAdversario = 0 THEN "perdeu" ELSE "finalizada"

LeFlags ==
    /\ pcMain = "le_flags"
    /\ resultado' = Anuncio
    /\ pcMain' = "corta"
    /\ UNCHANGED <<fluxoVars, servidorVars, pcRecv, sharedVars, screen, tela,
                   selectedCard, pedido, recursos>>

\* Mutant: main waits for the thread without shutting the socket down.
NaoCorta ==
    /\ pcMain = "corta"
    /\ pcMain' = "espera"
    /\ UNCHANGED <<fluxoVars, servidorVars, pcRecv, sharedVars, mainVars>>

(* shutdown(SD_BOTH): the stream ends here, and what has not been received    *)
(* may or may not still be.                                                   *)
Corta ==
    /\ pcMain = "corta"
    /\ \E n \in 0 .. Len(canal) : Fluxo!Termina(n)
    /\ pcMain' = "espera"
    /\ UNCHANGED <<servidorVars, pcRecv, sharedVars, mainVars>>

\* Mutant: the thread is not waited for.
NaoEspera ==
    /\ pcMain = "espera"
    /\ pcMain' = "fecha"
    /\ recursos' = recursos \ {"thread"}
    /\ UNCHANGED <<fluxoVars, servidorVars, pcRecv, sharedVars, screen, tela,
                   selectedCard, pedido, resultado>>

Espera ==
    /\ pcMain = "espera" /\ pcRecv = "fim"
    /\ pcMain' = "fecha"
    /\ recursos' = recursos \ {"thread"}
    /\ UNCHANGED <<fluxoVars, servidorVars, pcRecv, sharedVars, screen, tela,
                   selectedCard, pedido, resultado>>

\* Mutant: the flags are read again before the result is shown.
FechaRelendo ==
    /\ pcMain = "fecha"
    /\ pcMain' = "fim"
    /\ recursos' = recursos \ {"socket", "winsock", "tela", "locks"}
    /\ resultado' = IF resultado = "erro" THEN "erro" ELSE Anuncio
    /\ UNCHANGED <<fluxoVars, servidorVars, pcRecv, sharedVars, screen, tela,
                   selectedCard, pedido>>

\* closesocket, WSACleanup, freeScreen, DeleteCriticalSection; then the result.
Fecha ==
    /\ pcMain = "fecha"
    /\ pcMain' = "fim"
    /\ recursos' = recursos \ {"socket", "winsock", "tela", "locks"}
    /\ UNCHANGED <<fluxoVars, servidorVars, pcRecv, sharedVars, screen, tela,
                   selectedCard, pedido, resultado>>

-----------------------------------------------------------------------------
(* recvThreadProc.                                                            *)

RecvRodada ==
    /\ pcRecv = "recv" /\ totalRecebido < Tamanho
    /\ \E n \in 1 .. Tamanho : Fluxo!Recv(n)
    /\ UNCHANGED <<pcRecv, sharedVars>>

\* recvAll fails, because of the other side or of this client's own shutdown.
MarcaPerda ==
    /\ pcRecv = "recv" /\ Fluxo!RecvTermina
    /\ connectionLost' = TRUE
    /\ pcRecv' = "fim"
    /\ UNCHANGED <<fluxoVars, estado, partidaFinalizada, adversarioSaiu, statusMsg>>

(* A message is handled under the lock.  The two last ones end the thread.    *)
Trata ==
    /\ pcRecv = "recv" /\ totalRecebido = Tamanho
    /\ LET m == conteudo[ultima]
       IN  /\ estado' = IF m.tipo \in {"iniciada", "estado", "finalizada"}
                          THEN m.estado ELSE estado
           /\ partidaFinalizada' = (partidaFinalizada \/ m.tipo = "finalizada")
           /\ adversarioSaiu' = (adversarioSaiu \/ m.tipo = "saiu")
           /\ statusMsg' = (statusMsg \/ m.tipo = "invalida")
           /\ IF m.tipo \in {"finalizada", "saiu"}
                THEN pcRecv' = "fim" /\ UNCHANGED fluxoVars
                ELSE Fluxo!ComecaRecepcao /\ UNCHANGED pcRecv
    /\ UNCHANGED connectionLost

RecvThread ==
    /\ RecvRodada \/ MarcaPerda \/ Trata
    /\ UNCHANGED <<servidorVars, pcMain, mainVars>>

-----------------------------------------------------------------------------
Main ==
    \/ Conecta \/ RecvInicial \/ TrataInicial \/ CriaThread \/ Valida
    \/ Copia \/ Tecla \/ LeFlags \/ Corta \/ Espera \/ Fecha

Next == Main \/ RecvThread \/ Servidor

Spec == Init /\ [][Next]_vars

(* Both threads go on when they can; the main loop does so whatever the user  *)
(* types, because readInput does not wait.  Nothing is owed by the server.    *)
FairSpec == Spec /\ WF_vars(Main) /\ WF_vars(RecvThread)

-----------------------------------------------------------------------------
Estados == EstadosVivos \cup EstadosFinais \cup {Vazio}

TypeOK ==
    /\ mensagem \in 0 .. MaxMensagens /\ totalEnviado \in 0 .. Tamanho
    /\ totalRecebido \in 0 .. Tamanho /\ ultima \in 0 .. MaxMensagens + 1
    /\ aberta \in BOOLEAN /\ perdida \in BOOLEAN
    /\ pcMain \in {"conecta", "inicial", "cria_thread", "valida", "copia", "tecla",
                   "le_flags", "corta", "espera", "fecha", "fim"}
    /\ pcRecv \in {"nao_criada", "recv", "fim"}
    /\ estado \in Estados /\ tela \in Estados
    /\ connectionLost \in BOOLEAN /\ partidaFinalizada \in BOOLEAN
    /\ adversarioSaiu \in BOOLEAN /\ statusMsg \in BOOLEAN
    /\ selectedCard \in 0 .. MAX_QTD_CARTAS_JOGADOR - 1
    /\ pedido.acao \in {"nenhuma", "jogar", "comprar", "uno"}
    /\ recursos \subseteq {"locks", "winsock", "socket", "thread", "tela"}
    /\ resultado \in {"nenhum", "erro", "perdida", "adversario_saiu", "venceu",
                      "perdeu", "finalizada"}

(* What is drawn is highlighted inside the hand, although the hand may have   *)
(* shrunk or grown since the last key, and a card that ENTER asks for is one  *)
(* of the hand on the screen at a moment when the screen says "SUA VEZ".      *)
SelecaoMostrada ==
    /\ pcMain = "tecla" =>
         selectedCard < QtdCartas(tela) \/ (selectedCard = 0 /\ QtdCartas(tela) = 0)
    /\ pedido.acao = "jogar" =>
         tela.suaVez /\ \E i \in DOMAIN tela.cartas : pedido.carta = tela.cartas[i]

(* The socket and the two critical sections outlive the thread that uses them,*)
(* on each of the ways out of main, and at the end nothing is left.           *)
FechaPorUltimo ==
    /\ {"socket", "locks"} \subseteq recursos \/ pcRecv \in {"nao_criada", "fim"}
    /\ pcMain = "fim" => recursos = {}

(* The result told to the user is what happened.  In particular "Conexao com  *)
(* o servidor perdida." is not said of the client's own shutdown, which sets  *)
(* connectionLost too, nor of a match whose end has arrived.                  *)
ResultadoVerdadeiro ==
    LET chegaram == {conteudo[i] : i \in 1 .. ultima}
    IN  /\ resultado = "perdida" => perdida /\ ~partidaFinalizada /\ ~adversarioSaiu
        /\ resultado = "adversario_saiu" => \E m \in chegaram : m.tipo = "saiu"
        /\ resultado \in {"venceu", "perdeu", "finalizada"} =>
             \E m \in chegaram :
               /\ m.tipo = "finalizada"
               /\ resultado = "venceu" <=> m.estado.cartas = << >>
               /\ resultado = "perdeu" <=> m.estado.numeroCartasAdversario = 0

(* The bytes are whole messages, in order, for both users of recvAll.         *)
ImplementaConexao == Fluxo!ImplementaConexao

(* The program ends when the user leaves, when the match or the connection    *)
(* ends, and when it cannot start: main never waits for ever for its thread.  *)
ClienteTermina ==
    (perdida \/ partidaFinalizada \/ adversarioSaiu \/ pcMain \in {"le_flags", "corta"})
        ~> pcMain = "fim"

(* On every screen that validarTela lets pass, all that is drawn fits, up to  *)
(* the largest hand.                                                          *)
DesenhoCabe ==
    pcMain \in {"tecla", "le_flags"} => TudoCabe(screen, QtdCartas(tela))

TerminalFiel == \A linhas \in Quadros : MostraFielmente(linhas)

(* renderScreen leaves out the escape sequence of a cell with the colours of  *)
(* the one before it; the terminal shows what the loop has drawn all the same.*)
RenderFiel == pcMain \in {"tecla", "le_flags"} => TerminalFiel

(* src/README.md:107-110: a terminal of 150 columns and 40 rows is enough.    *)
TelaDoReadmeBasta ==
    [][(\A j \in Janelas : j.width >= 150 /\ j.height >= 40)
           /\ pcMain = "valida" /\ pcMain' # "valida" /\ screen' # TelaNula
         => pcMain' = "copia"]_vars
=============================================================================
