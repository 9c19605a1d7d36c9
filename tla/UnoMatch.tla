------------------------------- MODULE UnoMatch -------------------------------
(* A match from end to end: the two clients (UnoClient/src/main.c), the       *)
(* listeners, the request queue, the worker with the rules engine, the        *)
(* response queue, the writer and the TCP streams.  A client acts on the copy *)
(* of the state its screen shows, while newer states are on their way to it.  *)
(* The threads run from MSG_PARTIDA_INICIADA on, until the match is over and  *)
(* everything handled, or until main stops the server in the middle of it.    *)
(* How the threads come and go is in UnoServer, how the queues work in        *)
(* RingQueue, how bytes become messages in FluxoTcp.                          *)
EXTENDS UnoCartas, Sequences, FiniteSets

CONSTANTS CARTAS_INICIAIS, MAX_QTD_CARTAS_JOGADOR,   \* see UnoGame
          QUEUE_CAPACITY,   \* 32 in the program
          MaxPedidos,       \* bound on the requests of each client
          ComParada         \* whether main may stop the server

VARIABLES maos, baralho, ultimaCarta, jogadorDaVez, numeroRodada, partidaFinalizada,
          entrada,     \* [p]: requests sent by p and not yet pushed by its listener
          filaReq,     \* requestQueue
          pendentes,   \* the worker's responses to be pushed: type and player
          filaRes,     \* responseQueue
          saida,       \* [p]: messages written to the socket of p and not yet received
          vista,       \* [p]: g_shared.estado of the client of p
          terminou,    \* [p]: g_shared.partidaFinalizada
          avisado,     \* [p]: g_shared.adversarioSaiu
          perdida,     \* [p]: g_shared.connectionLost
          tela,        \* [p]: the copy the main loop of the client works with
          fase,        \* [p]: where the main thread of the client is
          pedidos,     \* [p]: the number of requests sent
          parada,      \* how far main has come in server_request_shutdown
          resta,       \* of worker and writer: past the test of running when it was cleared
          cortada      \* [p]: the server has ended the connection of p

jogoVars == <<maos, baralho, ultimaCarta, jogadorDaVez, numeroRodada, partidaFinalizada>>
filaVars == <<entrada, filaReq, pendentes, filaRes, saida>>
clienteVars == <<vista, terminou, avisado, perdida, tela, fase, pedidos>>
paradaVars == <<parada, resta, cortada>>
vars == <<jogoVars, filaVars, clienteVars, paradaVars>>

Jogo == INSTANCE UnoGame

ASSUME PartidaAssumption ==
    /\ Jogo!DistribuicaoAssumption
    /\ QUEUE_CAPACITY \in Nat \ {0}
    /\ MaxPedidos \in Nat
    /\ ComParada \in BOOLEAN

\* Values of parada: running is cleared at 1, then the queues are closed, and
\* after the second one the socket of player 0 and that of player 1 are shut down.
REQUESTS_FECHADA == 2
RESPONSES_FECHADA == 3

\* The client clears its shared state with memset.
Vazio ==
    [mao |-> << >>, suaVez |-> FALSE, numeroRodada |-> 0, ultimaCarta |-> 0,
     numeroCartasAdversario |-> 0]

\* Mutant: the client is told its own number of cards twice.
EstadoSemAdversario(p) ==
    [mao |-> maos[p], suaVez |-> jogadorDaVez = p, numeroRodada |-> numeroRodada,
     ultimaCarta |-> ultimaCarta, numeroCartasAdversario |-> Len(maos[p])]

\* game_obterEstado, the part of it that clients act on.
Estado(p) ==
    [mao |-> maos[p], suaVez |-> jogadorDaVez = p, numeroRodada |-> numeroRodada,
     ultimaCarta |-> ultimaCarta, numeroCartasAdversario |-> Len(maos[Adversario(p)])]

\* Mutant: the loop over the players ends one too early.
ParaTodosMenosUm(tipo) == [i \in 1 .. MAX_PLAYERS - 1 |-> [tipo |-> tipo, para |-> i - 1]]

\* A response of the worker to each player, in the order of its loops.
ParaTodos(tipo) == [i \in 1 .. MAX_PLAYERS |-> [tipo |-> tipo, para |-> i - 1]]

(* prepararEstadoInicial and enviarPartidaIniciada: the worker is about to    *)
(* push the first two messages.  The clients are in receberMensagemInicial.   *)
Init ==
    /\ Jogo!Init
    /\ entrada = [p \in Jogadores |-> << >>]
    /\ filaReq = << >>
    /\ pendentes = ParaTodos("iniciada")
    /\ filaRes = << >>
    /\ saida = [p \in Jogadores |-> << >>]
    /\ vista = [p \in Jogadores |-> Vazio]
    /\ terminou = [p \in Jogadores |-> FALSE]
    /\ avisado = [p \in Jogadores |-> FALSE]
    /\ tela = [p \in Jogadores |-> Vazio]
    /\ fase = [p \in Jogadores |-> "inicial"]
    /\ pedidos = [p \in Jogadores |-> 0]
    /\ perdida = [p \in Jogadores |-> FALSE]
    /\ parada = 0
    /\ resta = [worker |-> FALSE, writer |-> FALSE]
    /\ cortada = [p \in Jogadores |-> FALSE]

-----------------------------------------------------------------------------
(* The client.                                                                *)

(* receberMensagemInicial, in the main thread: any first message other than   *)
(* MSG_PARTIDA_INICIADA is a protocol error and ends the program.             *)
RecebeInicial(p) ==
    /\ fase[p] = "inicial" /\ saida[p] # << >>
    /\ LET m == Head(saida[p])
       IN  IF m.tipo = "iniciada"
             THEN /\ vista' = [vista EXCEPT ![p] = m.estado]
                  /\ fase' = [fase EXCEPT ![p] = "copia"]
             ELSE /\ fase' = [fase EXCEPT ![p] = "erro"]
                  /\ UNCHANGED vista
    /\ saida' = [saida EXCEPT ![p] = Tail(@)]
    /\ UNCHANGED <<jogoVars, entrada, filaReq, pendentes, filaRes,
                   terminou, avisado, perdida, tela, pedidos, paradaVars>>

\* Mutant: the case of MSG_ESTADO_JOGO is missing.
RecebeSemEstado(p) ==
    /\ fase[p] \in {"copia", "tecla"}
    /\ ~terminou[p] /\ ~avisado[p] /\ ~perdida[p] /\ saida[p] # << >>
    /\ LET m == Head(saida[p])
       IN  /\ vista' = IF m.tipo \in {"iniciada", "finalizada"}
                         THEN [vista EXCEPT ![p] = m.estado] ELSE vista
           /\ terminou' = [terminou EXCEPT ![p] = m.tipo = "finalizada"]
           /\ avisado' = [avisado EXCEPT ![p] = m.tipo = "saiu"]
    /\ saida' = [saida EXCEPT ![p] = Tail(@)]
    /\ UNCHANGED <<jogoVars, entrada, filaReq, pendentes, filaRes, perdida, tela, fase,
                   pedidos, paradaVars>>

(* recvThreadProc, one round.  The thread ends after MSG_PARTIDA_FINALIZADA   *)
(* and MSG_JOGADOR_SAIU; MSG_JOGADA_INVALIDA changes the status line only.    *)
Recebe(p) ==
    /\ fase[p] \in {"copia", "tecla"}
    /\ ~terminou[p] /\ ~avisado[p] /\ ~perdida[p] /\ saida[p] # << >>
    /\ LET m == Head(saida[p])
       IN  /\ vista' = IF m.tipo \in {"iniciada", "estado", "finalizada"}
                         THEN [vista EXCEPT ![p] = m.estado] ELSE vista
           /\ terminou' = [terminou EXCEPT ![p] = m.tipo = "finalizada"]
           /\ avisado' = [avisado EXCEPT ![p] = m.tipo = "saiu"]
    /\ saida' = [saida EXCEPT ![p] = Tail(@)]
    /\ UNCHANGED <<jogoVars, entrada, filaReq, pendentes, filaRes, perdida, tela, fase,
                   pedidos, paradaVars>>

(* recvAll fails, once all that the server sent before the end has come:      *)
(* connectionLost is set, or the client ends without a first message.         *)
PerdeConexao(p) ==
    /\ cortada[p] /\ saida[p] = << >>
    /\ \/ /\ fase[p] \in {"copia", "tecla"}
          /\ ~terminou[p] /\ ~avisado[p] /\ ~perdida[p]
          /\ perdida' = [perdida EXCEPT ![p] = TRUE]
          /\ UNCHANGED fase
       \/ /\ fase[p] = "inicial"
          /\ fase' = [fase EXCEPT ![p] = "desligado"]
          /\ UNCHANGED perdida
    /\ UNCHANGED <<jogoVars, filaVars, vista, terminou, avisado, tela, pedidos, paradaVars>>

(* The top of the main loop: the shared state is copied under the lock and    *)
(* drawn, and the loop is left when the match or the connection is over; the  *)
(* client then shows the result and closes its connection.                    *)
Copia(p) ==
    /\ fase[p] = "copia"
    /\ IF terminou[p] \/ avisado[p] \/ perdida[p]
         THEN fase' = [fase EXCEPT ![p] = "resultado"] /\ UNCHANGED tela
         ELSE fase' = [fase EXCEPT ![p] = "tecla"] /\ tela' = [tela EXCEPT ![p] = vista[p]]
    /\ UNCHANGED <<jogoVars, filaVars, vista, terminou, avisado, perdida, pedidos,
                   paradaVars>>

Acoes(p) ==
    (IF tela[p].suaVez
       THEN {[jogadorId |-> p, acao |-> "jogar", cartaId |-> tela[p].mao[i]] :
                 i \in DOMAIN tela[p].mao}
                \cup {[jogadorId |-> p, acao |-> "comprar", cartaId |-> 0]}
       ELSE {})
    \cup {[jogadorId |-> p, acao |-> "uno", cartaId |-> 0]}

(* readInput and processarEntrada with a key that sends a request: ENTER on   *)
(* any card of the hand shown, the arrow down, both only when the screen says *)
(* that it is this player's turn, and the arrow up.  Nothing is sent on a     *)
(* connection that has ended, and nobody notices.                             *)
Pede(p) ==
    /\ fase[p] = "tecla"
    /\ pedidos[p] < MaxPedidos
    /\ \E s \in Acoes(p) :
         entrada' = IF cortada[p] THEN entrada ELSE [entrada EXCEPT ![p] = Append(@, s)]
    /\ pedidos' = [pedidos EXCEPT ![p] = @ + 1]
    /\ fase' = [fase EXCEPT ![p] = "copia"]
    /\ tela' = [tela EXCEPT ![p] = Vazio]
    /\ UNCHANGED <<jogoVars, filaReq, pendentes, filaRes, saida, vista, terminou, avisado,
                   perdida, paradaVars>>

\* No key, or one that only moves the selection.
NaoPede(p) ==
    /\ fase[p] = "tecla"
    /\ fase' = [fase EXCEPT ![p] = "copia"]
    /\ tela' = [tela EXCEPT ![p] = Vazio]
    /\ UNCHANGED <<jogoVars, filaVars, vista, terminou, avisado, perdida, pedidos,
                   paradaVars>>

(* ESC, after which the client closes its connection, or the program is       *)
(* killed, possibly before the match begins.  What is on its way to it is     *)
(* lost, and what it sent last may be.                                        *)
Sai(p) ==
    /\ fase[p] \in {"inicial", "copia", "tecla"}
    /\ \E n \in 0 .. Len(entrada[p]) : entrada' = [entrada EXCEPT ![p] = SubSeq(@, 1, n)]
    /\ fase' = [fase EXCEPT ![p] = "saiu"]
    /\ tela' = [tela EXCEPT ![p] = Vazio]
    /\ saida' = [saida EXCEPT ![p] = << >>]
    /\ UNCHANGED <<jogoVars, filaReq, pendentes, filaRes,
                   vista, terminou, avisado, perdida, pedidos,
                   paradaVars>>

-----------------------------------------------------------------------------
(* The server.                                                                *)

(* listenerThread, one round: a whole request is received, marked with the    *)
(* player whose connection it came from, and pushed.                          *)
Listener(p) ==
    /\ entrada[p] # << >>
    /\ parada < REQUESTS_FECHADA /\ Len(filaReq) < QUEUE_CAPACITY
    /\ filaReq' = Append(filaReq, [Head(entrada[p]) EXCEPT !.jogadorId = p])
    /\ entrada' = [entrada EXCEPT ![p] = Tail(@)]
    /\ UNCHANGED <<jogoVars, pendentes, filaRes, saida, clienteVars, paradaVars>>

(* The end of a connection: requests on their way are not received, of the    *)
(* messages on their way the last ones may be lost.                           *)
Corta(p) ==
    /\ cortada' = [cortada EXCEPT ![p] = TRUE]
    /\ entrada' = [entrada EXCEPT ![p] = << >>]
    /\ \E n \in 0 .. Len(saida[p]) : saida' = [saida EXCEPT ![p] = SubSeq(@, 1, n)]

\* The request queue is shut down: the listener closes the socket and ends.
PushRecusado(p) ==
    /\ parada >= REQUESTS_FECHADA /\ entrada[p] # << >>
    /\ Corta(p)
    /\ UNCHANGED <<jogoVars, filaReq, pendentes, filaRes, clienteVars, parada, resta>>

Aceita(s) ==
    \/ s.acao = "jogar" /\ Jogo!JogarCarta(s.jogadorId, s.cartaId)
    \/ s.acao = "comprar" /\ Jogo!ComprarCarta(s.jogadorId)

Aceitavel(s) ==
    \/ s.acao = "jogar" /\ Jogo!PodeJogarCarta(s.jogadorId, s.cartaId)
    \/ s.acao = "comprar" /\ Jogo!PodeComprar(s.jogadorId)

\* Mutant: a request is taken while the last responses are still to be pushed.
AtendeAntesDeResponder ==
    /\ filaReq # << >>
    /\ filaReq' = Tail(filaReq)
    /\ Aceita(Head(filaReq))
    /\ pendentes' = ParaTodos(IF partidaFinalizada' THEN "finalizada" ELSE "estado")
    /\ UNCHANGED <<entrada, filaRes, saida, clienteVars, paradaVars>>

\* Mutant: the new state goes to the player who asked, and not to the other one.
AtendeSoQuemPediu ==
    /\ pendentes = << >> /\ filaReq # << >>
    /\ filaReq' = Tail(filaReq)
    /\ Aceita(Head(filaReq))
    /\ pendentes' = <<[tipo |-> "estado", para |-> Head(filaReq).jogadorId]>>
    /\ UNCHANGED <<entrada, filaRes, saida, clienteVars, paradaVars>>

(* One round of the worker's loop up to its responses: a request is dropped   *)
(* after the end of the match, accepted and answered to both players, or      *)
(* refused and answered to its sender.  ACAO_DIZER_UNO is always refused.     *)
(* Once running is cleared the worker does at most the round it is in.        *)
Atende ==
    /\ pendentes = << >> /\ filaReq # << >>
    /\ parada > 0 => resta.worker
    /\ resta' = [resta EXCEPT !.worker = FALSE]
    /\ filaReq' = Tail(filaReq)
    /\ LET s == Head(filaReq)
       IN  \/ /\ partidaFinalizada
              /\ UNCHANGED <<jogoVars, pendentes>>
           \/ /\ Aceita(s)
              /\ pendentes' = ParaTodos(IF partidaFinalizada' THEN "finalizada" ELSE "estado")
           \/ /\ ~partidaFinalizada /\ ~Aceitavel(s)
              /\ pendentes' = <<[tipo |-> "invalida", para |-> s.jogadorId]>>
              /\ UNCHANGED jogoVars
    /\ UNCHANGED <<entrada, filaRes, saida, clienteVars, parada, cortada>>

\* Mutant: a full response queue does not stop the worker.
RespondeSemEspera ==
    /\ pendentes # << >>
    /\ LET r == Head(pendentes)
       IN  filaRes' = Append(filaRes, [tipo |-> r.tipo, para |-> r.para,
                                       estado |-> Estado(r.para)])
    /\ pendentes' = Tail(pendentes)
    /\ UNCHANGED <<jogoVars, entrada, filaReq, saida, clienteVars, paradaVars>>

\* responseQueuePush of the next response, with the state as it is now.
Responde ==
    /\ pendentes # << >>
    /\ parada < RESPONSES_FECHADA /\ Len(filaRes) < QUEUE_CAPACITY
    /\ LET r == Head(pendentes)
       IN  filaRes' = Append(filaRes, [tipo |-> r.tipo, para |-> r.para,
                                       estado |-> Estado(r.para)])
    /\ pendentes' = Tail(pendentes)
    /\ UNCHANGED <<jogoVars, entrada, filaReq, saida, clienteVars, paradaVars>>

\* The response queue is shut down: the rest of the answer is given up.
RespostaRecusada ==
    /\ pendentes # << >> /\ parada >= RESPONSES_FECHADA
    /\ pendentes' = << >>
    /\ UNCHANGED <<jogoVars, entrada, filaReq, filaRes, saida, clienteVars, paradaVars>>

Ausente(p) == fase[p] \in {"resultado", "saiu", "erro", "desligado"}

\* Mutant: a message overtakes those written before it.
WriterForaDeOrdem ==
    /\ filaRes # << >>
    /\ LET m == Head(filaRes)
       IN  saida' = IF Ausente(m.para) \/ cortada[m.para]
                      THEN saida ELSE [saida EXCEPT ![m.para] = <<m>> \o @]
    /\ filaRes' = Tail(filaRes)
    /\ UNCHANGED <<jogoVars, entrada, filaReq, pendentes, clienteVars, paradaVars>>

\* Mutant: the writer does not look at running between two responses.
WriterSemParar ==
    /\ filaRes # << >>
    /\ LET m == Head(filaRes)
       IN  saida' = IF Ausente(m.para) \/ cortada[m.para]
                      THEN saida ELSE [saida EXCEPT ![m.para] = Append(@, m)]
    /\ filaRes' = Tail(filaRes)
    /\ UNCHANGED <<jogoVars, entrada, filaReq, pendentes, clienteVars, paradaVars>>

(* writerThread, one round: nothing reaches a client that is gone.  Once      *)
(* running is cleared the writer does at most the round it is in, and what is *)
(* left in the queue is never sent.                                           *)
Writer ==
    /\ filaRes # << >>
    /\ parada > 0 => resta.writer
    /\ resta' = [resta EXCEPT !.writer = FALSE]
    /\ LET m == Head(filaRes)
       IN  saida' = IF Ausente(m.para) \/ cortada[m.para]
                      THEN saida ELSE [saida EXCEPT ![m.para] = Append(@, m)]
    /\ filaRes' = Tail(filaRes)
    /\ UNCHANGED <<jogoVars, entrada, filaReq, pendentes, clienteVars, parada, cortada>>

-----------------------------------------------------------------------------
(* main stops the server: server_request_shutdown, step by step.              *)

(* running is cleared.  The worker and the writer are then before or after    *)
(* their test of it; a worker in the middle of an answer tests it later.      *)
LimpaRunning ==
    /\ ComParada /\ parada = 0
    /\ parada' = 1
    /\ resta' \in [worker : IF pendentes = << >> THEN BOOLEAN ELSE {FALSE},
                   writer : BOOLEAN]
    /\ UNCHANGED <<jogoVars, filaVars, clienteVars, cortada>>

FechaFila ==
    /\ parada \in {1, REQUESTS_FECHADA}
    /\ parada' = parada + 1
    /\ UNCHANGED <<jogoVars, filaVars, clienteVars, resta, cortada>>

\* Mutant: the sockets of the players are not shut down.
NaoCortaJogador(p) ==
    /\ parada = RESPONSES_FECHADA + p
    /\ parada' = parada + 1
    /\ UNCHANGED <<jogoVars, filaVars, clienteVars, resta, cortada>>

CortaJogador(p) ==
    /\ parada = RESPONSES_FECHADA + p
    /\ parada' = parada + 1
    /\ Corta(p)
    /\ UNCHANGED <<jogoVars, filaReq, pendentes, filaRes, clienteVars, resta>>

Para == FechaFila \/ \E p \in Jogadores : CortaJogador(p)

-----------------------------------------------------------------------------
Cliente(p) == RecebeInicial(p) \/ Recebe(p) \/ PerdeConexao(p) \/ Copia(p) \/ NaoPede(p)

Servidor ==
    \/ Atende \/ Responde \/ RespostaRecusada \/ Writer
    \/ \E p \in Jogadores : Listener(p) \/ PushRecusado(p)

Next ==
    \/ Servidor \/ LimpaRunning \/ Para
    \/ \E p \in Jogadores : Cliente(p) \/ Pede(p) \/ Sai(p)

Spec == Init /\ [][Next]_vars

(* Every thread of the server and of the clients goes on when it can.  No key *)
(* is ever owed.  The main loop of a client comes round again whatever the    *)
(* user does, because readInput does not wait.                                *)
Justica ==
    /\ WF_vars(Atende \/ Responde \/ RespostaRecusada) /\ WF_vars(Writer) /\ WF_vars(Para)
    /\ \A p \in Jogadores :
         /\ WF_vars(Listener(p) \/ PushRecusado(p))
         /\ WF_vars(RecebeInicial(p) \/ Copia(p) \/ NaoPede(p))
         /\ WF_vars(Recebe(p) \/ PerdeConexao(p))

FairSpec == Spec /\ Justica

-----------------------------------------------------------------------------
(* What makes a match correct.                                                *)

Estados ==
    [mao : Seq(Cartas), suaVez : BOOLEAN, numeroRodada : Nat \ {0},
     ultimaCarta : Cartas, numeroCartasAdversario : 0 .. MAX_QTD_CARTAS_JOGADOR]

Tipos == {"iniciada", "estado", "invalida", "finalizada"}

Mensagens == [tipo : Tipos, para : Jogadores, estado : Estados]

Solicitacoes ==
    [jogadorId : Jogadores, acao : {"jogar", "comprar", "uno"}, cartaId : Cartas]

TypeOK ==
    /\ Jogo!TypeOK
    /\ entrada \in [Jogadores -> Seq(Solicitacoes)]
    /\ filaReq \in Seq(Solicitacoes) /\ Len(filaReq) <= QUEUE_CAPACITY
    /\ pendentes \in Seq([tipo : Tipos, para : Jogadores])
    /\ filaRes \in Seq(Mensagens) /\ Len(filaRes) <= QUEUE_CAPACITY
    /\ saida \in [Jogadores -> Seq(Mensagens)]
    /\ vista \in [Jogadores -> Estados \cup {Vazio}]
    /\ tela \in [Jogadores -> Estados \cup {Vazio}]
    /\ terminou \in [Jogadores -> BOOLEAN] /\ avisado \in [Jogadores -> BOOLEAN]
    /\ fase \in [Jogadores -> {"inicial", "copia", "tecla", "resultado", "saiu", "erro",
                               "desligado"}]
    /\ pedidos \in [Jogadores -> 0 .. MaxPedidos]
    /\ perdida \in [Jogadores -> BOOLEAN] /\ cortada \in [Jogadores -> BOOLEAN]
    /\ parada \in 0 .. RESPONSES_FECHADA + MAX_PLAYERS
    /\ resta \in [worker : BOOLEAN, writer : BOOLEAN]

\* Messages for p that the server has produced and the client has not handled.
NadaACaminho(p) ==
    /\ \A i \in DOMAIN pendentes : pendentes[i].para # p
    /\ \A i \in DOMAIN filaRes : filaRes[i].para # p
    /\ saida[p] = << >>

(* The first message a client gets is MSG_PARTIDA_INICIADA (spec.md:835), so  *)
(* that none of them ends with ERRO DE PROTOCOLO, although the other client   *)
(* may already play when the first message is still on its way.               *)
PrimeiraMensagem == \A p \in Jogadores : fase[p] # "erro"

(* When nothing is on its way to a client any more, its view is the state of  *)
(* the match: whatever was accepted reached both, whatever was refused        *)
(* changed nothing.  spec.md:573 calls this the synchronisation of clients.   *)
(* A server that is being stopped may give an answer up.                      *)
VisoesConvergem ==
    \A p \in Jogadores :
        parada = 0 /\ NadaACaminho(p) /\ fase[p] \in {"copia", "tecla", "resultado"} =>
            vista[p] = Estado(p)

(* States carry no sequence number, but round and turn make one: each request *)
(* that is accepted adds one.                                                 *)
Lance(rodada, vez, fim) == MAX_PLAYERS * rodada + vez - 1 + (IF fim THEN 1 ELSE 0)

LanceVisto(p) ==
    IF vista[p] = Vazio THEN 0
    ELSE Lance(vista[p].numeroRodada, IF vista[p].suaVez THEN p ELSE Adversario(p),
               vista[p].mao = << >> \/ vista[p].numeroCartasAdversario = 0)

(* Two clients that have come to the same move see the same match from its    *)
(* two sides: one table, one player on turn, and each the number of cards     *)
(* that the other one holds.  They are sent two different states.             *)
VisoesIrmas ==
    \A p \in Jogadores :
        LET v == vista[p]  w == vista[Adversario(p)]
        IN  LanceVisto(p) = LanceVisto(Adversario(p)) /\ v # Vazio =>
                /\ v.ultimaCarta = w.ultimaCarta /\ v.numeroRodada = w.numeroRodada
                /\ v.suaVez = ~w.suaVez
                /\ v.numeroCartasAdversario = Len(w.mao)
                /\ \A i \in DOMAIN v.mao, j \in DOMAIN w.mao : v.mao[i] # w.mao[j]

\* What the client says after MSG_PARTIDA_FINALIZADA.
Anuncio(p) ==
    IF ~terminou[p] THEN "nada"
    ELSE IF vista[p].mao = << >> THEN "venceu"
    ELSE IF vista[p].numeroCartasAdversario = 0 THEN "perdeu" ELSE "finalizada"

Partida ==
    INSTANCE UnoPartida WITH
        lance     <- Lance(numeroRodada, jogadorDaVez, partidaFinalizada),
        vencedor  <- IF partidaFinalizada THEN {jogadorDaVez} ELSE {},
        visto     <- [p \in Jogadores |-> LanceVisto(p)],
        anunciado <- [p \in Jogadores |-> Anuncio(p)]

(* To the people at the screens it is one match: no screen goes back, and the *)
(* two clients that come to the end announce the same winner, rightly, though *)
(* each works it out from the numbers of cards in its last state.             *)
ImplementaPartida == Partida!Spec

\* Who asks in a list of requests, and who is to be told in a list of responses.
Remetentes(lista) == [i \in DOMAIN lista |-> lista[i].jogadorId]
Destinos(lista) == [i \in DOMAIN lista |-> lista[i].para]

Servico ==
    INSTANCE Atendimento WITH
        requests    <- Remetentes(filaReq),
        reqFechada  <- parada >= REQUESTS_FECHADA,
        responses   <- Destinos(filaRes),
        resFechada  <- parada >= RESPONSES_FECHADA,
        respondendo <- Destinos(pendentes),
        fase        <- "partida",
        finalizada  <- partidaFinalizada,
        parando     <- parada > 0,
        ainda       <- {t \in DOMAIN resta : parada = 0 \/ resta[t]}

(* Who is answered, when and in what order does not depend on what the        *)
(* requests ask for: from the start of a match on the server of this module   *)
(* and the one of UnoServer carry out the same service, also while main stops *)
(* it in the middle of an answer.                                             *)
ImplementaAtendimento == Servico!Spec

(* README.md:233 and spec.md:521-531: after a draw it is the turn of the      *)
(* other player.                                                              *)
AposComprarVezDoOutro ==
    [][\A p \in Jogadores :
         Len(maos'[p]) > Len(maos[p]) => jogadorDaVez' = Adversario(p)]_vars

(* Once the match is over, or the server is being stopped, every client comes *)
(* to its end: the last two messages pass through both queues whatever else   *)
(* is in them, and where a stopped server leaves them there, or has sent its  *)
(* answer to one player only, the connections end.                            *)
FimChegaATodos ==
    \A p \in Jogadores : (partidaFinalizada \/ parada > 0) ~> Ausente(p)

(* A client that stays never falls behind for ever: again and again its view  *)
(* is the state of the match, so it never waits for a turn that has come.     *)
ClienteAcompanha ==
    \A p \in Jogadores :
        []<>(vista[p] = Estado(p) \/ Ausente(p))

(* MSG_JOGADOR_SAIU is one of the messages README.md:259-270 says the server  *)
(* sends: the one by which a player learns that the adversary left.           *)
AdversarioAvisado ==
    \A p \in Jogadores :
        fase[p] = "saiu" ~> avisado[Adversario(p)] \/ Ausente(Adversario(p))
=============================================================================
