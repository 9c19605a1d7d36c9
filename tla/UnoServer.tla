------------------------------ MODULE UnoServer ------------------------------
(* The life of the server process: main creates the threads, the acceptor     *)
(* takes two players and creates their listeners, requests and responses flow *)
(* through the two queues, and a shutdown asked for by main or, when it       *)
(* cannot create the second listener, by the acceptor, takes all of it down.  *)
(* The rules of the game are left to UnoGame: here a request is only who sent *)
(* it and a response only whom it is for, and the worker answers as it likes. *)
(* The queues are the channels that RingQueue is shown to implement.          *)
EXTENDS Integers, Sequences, FiniteSets

CONSTANTS QUEUE_CAPACITY,   \* 32 in the program
          MaxPedidos        \* bound on the requests that one client sends

ASSUME ServidorAssumption ==
    /\ QUEUE_CAPACITY \in Nat \ {0}
    /\ MaxPedidos \in Nat

MAX_PLAYERS == 2
Jogadores == 0 .. MAX_PLAYERS - 1

(* The sockets of the process: the connection of each player, in the order in *)
(* which they are accepted, and the listening socket.                         *)
Escuta == MAX_PLAYERS
Sockets == Jogadores \cup {Escuta}

Ninguem == -1

VARIABLES running,            \* Server.running
          evento,             \* gameStartedEvent is set; nothing resets it
          serverSocket,       \* Server.serverSocket is not INVALID_SOCKET
          playerSockets,      \* [p]: Server.playerSockets[p] is not INVALID_SOCKET
          recursos,           \* what server_init created and nobody destroyed
          filaReq, reqFechada,    \* requestQueue, and its shutdown flag
          filaRes, resFechada,    \* responseQueue, and its shutdown flag
          pcMain, pcAcceptor, pcListener, pcWorker, pcWriter,
          pedido,             \* where main and the acceptor are in server_request_shutdown
          pendentes,          \* responses the worker has still to push
          finalizada,         \* jogo.partidaFinalizada
          destino,            \* the player the writer is sending to
          soquete,            \* what the system knows of each socket
          fechos,             \* how often closesocket was called on each
          cliente,            \* the other end of each connection
          recebidos           \* requests received from each client

servidorVars == <<running, evento, serverSocket, playerSockets, recursos>>
filaVars     == <<filaReq, reqFechada, filaRes, resFechada>>
pcVars       == <<pcMain, pcAcceptor, pcListener, pcWorker, pcWriter, pedido>>
localVars    == <<pendentes, finalizada, destino>>
redeVars     == <<soquete, fechos, cliente, recebidos>>
vars == <<servidorVars, filaVars, pcVars, localVars, redeVars>>

\* The threads that call server_request_shutdown.
Solicitantes == {"main", "acceptor"}

\* The two queues, created first, and gameStartedEvent.
Filas == {"requestQueue", "responseQueue"}

(* The assignments of inicializarServer, before server_init.                  *)
Init ==
    /\ running = TRUE
    /\ evento = FALSE
    /\ serverSocket = FALSE
    /\ recursos = {}
    /\ playerSockets = [p \in Jogadores |-> FALSE]
    /\ filaReq = << >> /\ reqFechada = FALSE
    /\ filaRes = << >> /\ resFechada = FALSE
    /\ pcMain = "server_init"
    /\ pcAcceptor = "nao_criada"
    /\ pcListener = [p \in Jogadores |-> "nao_criada"]
    /\ pcWorker = "nao_criada"
    /\ pcWriter = "nao_criada"
    /\ pedido = [t \in Solicitantes |-> "nenhum"]
    /\ pendentes = << >>
    /\ finalizada = FALSE
    /\ destino = Ninguem
    /\ soquete = [s \in Sockets |-> "nenhum"]
    /\ fechos = [s \in Sockets |-> 0]
    /\ cliente = [p \in Jogadores |-> "fora"]
    /\ recebidos = [p \in Jogadores |-> 0]

Terminou(pc) == pc \in {"nao_criada", "fim"}

-----------------------------------------------------------------------------
(* The clients: programs on other machines.  They connect one after another,  *)
(* send requests, read responses or do not, and may leave at any moment.  A   *)
(* request is sent when the listener receives it, so a client that has left   *)
(* may have requests on the way.                                              *)

ClienteConecta(p) ==
    /\ cliente[p] = "fora"
    /\ \A q \in Jogadores : q < p => cliente[q] # "fora"
    /\ soquete[Escuta] = "aberto"
    /\ cliente' = [cliente EXCEPT ![p] = "conectado"]

ClienteSai(p) ==
    /\ cliente[p] = "conectado"
    /\ cliente' = [cliente EXCEPT ![p] = "saiu"]

Cliente(p) ==
    /\ ClienteConecta(p) \/ ClienteSai(p)
    /\ UNCHANGED <<servidorVars, filaVars, pcVars, localVars,
                   soquete, fechos, recebidos>>

-----------------------------------------------------------------------------
(* server_request_shutdown, one step for each access to the shared structure. *)
(* Two threads may be in it at the same time.                                 *)

MarcaParada(t) ==
    /\ pedido[t] = "running"
    /\ running' = FALSE
    /\ pedido' = [pedido EXCEPT ![t] = "evento"]
    /\ UNCHANGED <<evento, serverSocket, playerSockets, recursos, filaVars, soquete,
                   fechos>>

\* Mutant: the worker is not woken from its wait for the match.
NaoSinalizaEvento(t) ==
    /\ pedido[t] = "evento"
    /\ pedido' = [pedido EXCEPT ![t] = "requests"]
    /\ UNCHANGED <<servidorVars, filaVars, soquete, fechos>>

SinalizaEvento(t) ==
    /\ pedido[t] = "evento"
    /\ evento' = TRUE
    /\ pedido' = [pedido EXCEPT ![t] = "requests"]
    /\ UNCHANGED <<running, serverSocket, playerSockets, recursos, filaVars, soquete,
                   fechos>>

FechaRequests(t) ==
    /\ pedido[t] = "requests"
    /\ reqFechada' = TRUE
    /\ pedido' = [pedido EXCEPT ![t] = "responses"]
    /\ UNCHANGED <<servidorVars, filaReq, filaRes, resFechada, soquete, fechos>>

\* Mutant: responseQueueShutdown is forgotten.
NaoFechaResponses(t) ==
    /\ pedido[t] = "responses"
    /\ pedido' = [pedido EXCEPT ![t] = "escuta"]
    /\ UNCHANGED <<servidorVars, filaVars, soquete, fechos>>

FechaResponses(t) ==
    /\ pedido[t] = "responses"
    /\ resFechada' = TRUE
    /\ pedido' = [pedido EXCEPT ![t] = "escuta"]
    /\ UNCHANGED <<servidorVars, filaReq, filaRes, reqFechada, soquete, fechos>>

TestaEscuta(t) ==
    /\ pedido[t] = "escuta"
    /\ pedido' = [pedido EXCEPT ![t] = IF serverSocket THEN "fecha" ELSE "corta0"]
    /\ UNCHANGED <<servidorVars, filaVars, soquete, fechos>>

FechaEscuta(t) ==
    /\ pedido[t] = "fecha"
    /\ soquete' = [soquete EXCEPT ![Escuta] = "fechado"]
    /\ fechos' = [fechos EXCEPT ![Escuta] = @ + 1]
    /\ pedido' = [pedido EXCEPT ![t] = "esquece"]
    /\ UNCHANGED <<servidorVars, filaVars>>

EsqueceEscuta(t) ==
    /\ pedido[t] = "esquece"
    /\ serverSocket' = FALSE
    /\ pedido' = [pedido EXCEPT ![t] = "corta0"]
    /\ UNCHANGED <<running, evento, playerSockets, recursos, filaVars, soquete, fechos>>

(* shutdown(SD_BOTH) of the socket of p, if there is one at this moment.  On  *)
(* a socket that its listener has just closed the call has no effect.         *)
CortaJogador(t, p, aqui, depois) ==
    /\ pedido[t] = aqui
    /\ soquete' = IF playerSockets[p] /\ soquete[p] = "aberto"
                    THEN [soquete EXCEPT ![p] = "cortado"] ELSE soquete
    /\ pedido' = [pedido EXCEPT ![t] = depois]
    /\ UNCHANGED <<servidorVars, filaVars, fechos>>

RequestShutdown(t) ==
    /\ \/ MarcaParada(t) \/ SinalizaEvento(t)
       \/ FechaRequests(t) \/ FechaResponses(t)
       \/ TestaEscuta(t) \/ FechaEscuta(t) \/ EsqueceEscuta(t)
       \/ CortaJogador(t, 0, "corta0", "corta1")
       \/ CortaJogador(t, 1, "corta1", "feito")
    /\ UNCHANGED <<pcMain, pcAcceptor, pcListener, pcWorker, pcWriter, localVars,
                   cliente, recebidos>>

PedeEncerramento(t) == pedido' = [pedido EXCEPT ![t] = "running"]

-----------------------------------------------------------------------------
(* main, server_init and iniciarThreads.  A thread or another resource that   *)
(* cannot be created is a choice of the environment.                          *)

(* inicializarWinsock, then server_init: the listening socket is created and  *)
(* made to listen, or main ends: without Winsock, without an event (the       *)
(* queues are left behind), without a socket (the queues are destroyed, the   *)
(* event is left), or after bind or listen failed (likewise, and the socket   *)
(* is closed).                                                                *)
ServerInit ==
    /\ pcMain = "server_init"
    /\ \/ /\ pcMain' = "falhou" /\ recursos' \in {{}, Filas}
          /\ UNCHANGED <<serverSocket, soquete, fechos>>
       \/ /\ pcMain' = "falhou" /\ recursos' = {"gameStartedEvent"}
          /\ UNCHANGED <<serverSocket, soquete, fechos>>
       \/ /\ pcMain' = "falhou" /\ recursos' = {"gameStartedEvent"}
          /\ soquete' = [soquete EXCEPT ![Escuta] = "fechado"]
          /\ fechos' = [fechos EXCEPT ![Escuta] = @ + 1]
          /\ UNCHANGED serverSocket
       \/ /\ pcMain' = "cria_acceptor" /\ recursos' = Filas \cup {"gameStartedEvent"}
          /\ serverSocket' = TRUE
          /\ soquete' = [soquete EXCEPT ![Escuta] = "aberto"]
          /\ UNCHANGED fechos
    /\ UNCHANGED <<running, evento, playerSockets, filaVars, pcAcceptor, pcListener,
                   pcWorker, pcWriter, pedido, localVars, cliente, recebidos>>

CriaAcceptor ==
    /\ pcMain = "cria_acceptor"
    /\ \/ pcAcceptor' = "accept0" /\ pcMain' = "cria_worker"
       \/ pcMain' = "libera" /\ UNCHANGED pcAcceptor
    /\ UNCHANGED <<pcWorker, pcWriter, pedido>>

CriaWorker ==
    /\ pcMain = "cria_worker"
    /\ \/ pcWorker' = "espera" /\ pcMain' = "cria_writer" /\ UNCHANGED pedido
       \/ PedeEncerramento("main") /\ pcMain' = "pede" /\ UNCHANGED pcWorker
    /\ UNCHANGED <<pcAcceptor, pcWriter>>

CriaWriter ==
    /\ pcMain = "cria_writer"
    /\ \/ pcWriter' = "laco" /\ pcMain' = "laco" /\ UNCHANGED pedido
       \/ PedeEncerramento("main") /\ pcMain' = "pede" /\ UNCHANGED pcWriter
    /\ UNCHANGED <<pcAcceptor, pcWorker>>

\* while (server.running), before the first getchar.
TestaRunning ==
    /\ pcMain = "laco"
    /\ pcMain' = IF running THEN "getchar" ELSE "espera_acceptor"
    /\ UNCHANGED <<pcAcceptor, pcWorker, pcWriter, pedido>>

(* The user types q, or anything else, after which the loop condition is      *)
(* tested again: only then does main see that the acceptor stopped the server.*)
Tecla ==
    /\ pcMain = "getchar"
    /\ \/ PedeEncerramento("main") /\ pcMain' = "pede"
       \/ ~running /\ pcMain' = "espera_acceptor" /\ UNCHANGED pedido
    /\ UNCHANGED <<servidorVars, filaVars, pcAcceptor, pcListener, pcWorker,
                   pcWriter, localVars, redeVars>>

Pediu ==
    /\ pcMain = "pede" /\ pedido["main"] = "feito"
    /\ pcMain' = "espera_acceptor"
    /\ UNCHANGED <<pcAcceptor, pcWorker, pcWriter, pedido>>

\* WaitForSingleObject for the three threads, or those of them that exist.
EsperaThreads ==
    /\ \/ /\ pcMain = "espera_acceptor" /\ Terminou(pcAcceptor)
          /\ pcMain' = "espera_worker"
       \/ /\ pcMain = "espera_worker" /\ Terminou(pcWorker)
          /\ pcMain' = "espera_writer"
       \/ /\ pcMain = "espera_writer" /\ Terminou(pcWriter)
          /\ pcMain' = "libera"
    /\ UNCHANGED <<pcAcceptor, pcWorker, pcWriter, pedido>>

\* Mutant: the players' sockets are left to the listeners.
ServerShutdownSemJogadores ==
    /\ pcMain = "libera"
    /\ IF serverSocket
         THEN /\ soquete' = [soquete EXCEPT ![Escuta] = "fechado"]
              /\ fechos' = [fechos EXCEPT ![Escuta] = @ + 1]
         ELSE UNCHANGED <<soquete, fechos>>
    /\ serverSocket' = FALSE
    /\ recursos' = {}
    /\ pcMain' = "fim"
    /\ UNCHANGED <<running, evento, playerSockets, filaVars, pcAcceptor, pcListener,
                   pcWorker, pcWriter, pedido, localVars, cliente, recebidos>>

(* server_shutdown.                                                           *)
ServerShutdown ==
    LET abertos == {p \in Jogadores : playerSockets[p]}
                       \cup (IF serverSocket THEN {Escuta} ELSE {})
    IN  /\ pcMain = "libera"
        /\ soquete' = [s \in Sockets |-> IF s \in abertos THEN "fechado" ELSE soquete[s]]
        /\ fechos' = [s \in Sockets |-> fechos[s] + (IF s \in abertos THEN 1 ELSE 0)]
        /\ playerSockets' = [p \in Jogadores |-> FALSE]
        /\ serverSocket' = FALSE
        /\ recursos' = {}
        /\ pcMain' = "fim"
        /\ UNCHANGED <<running, evento, filaVars, pcAcceptor, pcListener, pcWorker,
                       pcWriter, pedido, localVars, cliente, recebidos>>

Main ==
    \/ /\ \/ CriaAcceptor \/ CriaWorker \/ CriaWriter
          \/ TestaRunning \/ Pediu \/ EsperaThreads
       /\ UNCHANGED <<servidorVars, filaVars, pcListener, localVars, redeVars>>
    \/ ServerInit
    \/ RequestShutdown("main")
    \/ ServerShutdown

-----------------------------------------------------------------------------
(* acceptorThread.                                                            *)

(* accept gives the next connection, or fails: because the listening socket   *)
(* is closed, or for a reason of the system's.  After a failure the thread    *)
(* ends with 0 or 1, which nobody reads.                                      *)
Aceita(p, aqui, depois) ==
    /\ pcAcceptor = aqui
    /\ \/ /\ soquete[Escuta] = "aberto" /\ cliente[p] # "fora"
          /\ soquete' = [soquete EXCEPT ![p] = "aberto"]
          /\ pcAcceptor' = depois
       \/ pcAcceptor' = "fim" /\ UNCHANGED soquete
    /\ UNCHANGED <<servidorVars, filaVars, pcMain, pcListener, pcWorker, pcWriter,
                   pedido, localVars, fechos, cliente, recebidos>>

\* The assignment of what accept returned.
Guarda(p, aqui, depois) ==
    /\ pcAcceptor = aqui
    /\ playerSockets' = [playerSockets EXCEPT ![p] = TRUE]
    /\ pcAcceptor' = depois
    /\ UNCHANGED <<running, evento, serverSocket, recursos, filaVars, pcMain, pcListener,
                   pcWorker, pcWriter, pedido, localVars, redeVars>>

TestaAceitacao ==
    /\ pcAcceptor = "testa"
    /\ pcAcceptor' = IF running THEN "accept1" ELSE "fim"
    /\ UNCHANGED <<pcListener, pedido>>

\* Without memory or a thread for the first listener, the acceptor just ends.
CriaListener0 ==
    /\ pcAcceptor = "listener0"
    /\ \/ /\ pcListener' = [pcListener EXCEPT ![0] = "recv"]
          /\ pcAcceptor' = "listener1"
       \/ pcAcceptor' = "fim" /\ UNCHANGED pcListener
    /\ UNCHANGED pedido

\* Without them for the second one, it takes the server down.
CriaListener1 ==
    /\ pcAcceptor = "listener1"
    /\ \/ /\ pcListener' = [pcListener EXCEPT ![1] = "recv"]
          /\ pcAcceptor' = "sinaliza"
          /\ UNCHANGED pedido
       \/ /\ PedeEncerramento("acceptor")
          /\ pcAcceptor' = "pede"
          /\ UNCHANGED pcListener

SinalizaInicio ==
    /\ pcAcceptor = "sinaliza"
    /\ evento' = TRUE
    /\ pcAcceptor' = "espera_listeners"
    /\ UNCHANGED <<running, serverSocket, playerSockets, recursos, filaVars, pcMain,
                   pcListener, pcWorker, pcWriter, pedido, localVars, redeVars>>

\* Mutant: WaitForMultipleObjects waits for one listener only.
EsperaUmListener ==
    /\ \/ pcAcceptor = "pede" /\ pedido["acceptor"] = "feito"
       \/ pcAcceptor = "espera_listeners"
    /\ \E p \in Jogadores : Terminou(pcListener[p])
    /\ pcAcceptor' = "fim"
    /\ UNCHANGED <<pcListener, pedido>>

EsperaListeners ==
    /\ \/ pcAcceptor = "pede" /\ pedido["acceptor"] = "feito"
       \/ pcAcceptor = "espera_listeners"
    /\ \A p \in Jogadores : Terminou(pcListener[p])
    /\ pcAcceptor' = "fim"
    /\ UNCHANGED <<pcListener, pedido>>

Acceptor ==
    \/ Aceita(0, "accept0", "guarda0")
    \/ Guarda(0, "guarda0", "testa")
    \/ Aceita(1, "accept1", "guarda1")
    \/ Guarda(1, "guarda1", "listener0")
    \/ /\ TestaAceitacao \/ CriaListener0 \/ CriaListener1 \/ EsperaListeners
       /\ UNCHANGED <<servidorVars, filaVars, pcMain, pcWorker, pcWriter, localVars,
                      redeVars>>
    \/ SinalizaInicio
    \/ RequestShutdown("acceptor")

-----------------------------------------------------------------------------
(* listenerThread.                                                            *)

Recebe(p) ==
    /\ pcListener[p] = "recv"
    /\ soquete[p] = "aberto"
    /\ recebidos[p] < MaxPedidos
    /\ recebidos' = [recebidos EXCEPT ![p] = @ + 1]
    /\ pcListener' = [pcListener EXCEPT ![p] = "push"]
    /\ UNCHANGED <<servidorVars, filaVars, soquete, fechos>>

\* recv returns 0 or an error: the client left, or the socket was shut down.
RecvTermina(p) ==
    /\ pcListener[p] = "recv"
    /\ cliente[p] = "saiu" \/ soquete[p] # "aberto"
    /\ pcListener' = [pcListener EXCEPT ![p] = "fecha"]
    /\ UNCHANGED <<servidorVars, filaVars, soquete, fechos, recebidos>>

\* Mutant: a full queue does not stop the listener.
PushSemEspera(p) ==
    /\ pcListener[p] = "push"
    /\ filaReq' = Append(filaReq, p)
    /\ pcListener' = [pcListener EXCEPT ![p] = "recv"]
    /\ UNCHANGED <<servidorVars, reqFechada, filaRes, resFechada, soquete, fechos, recebidos>>

\* Mutant: a listener whose push is refused goes on receiving.
PushRecusadoContinua(p) ==
    /\ pcListener[p] = "push"
    /\ pcListener' = [pcListener EXCEPT ![p] = "recv"]
    /\ filaReq' = IF ~reqFechada /\ Len(filaReq) < QUEUE_CAPACITY
                    THEN Append(filaReq, p) ELSE filaReq
    /\ reqFechada \/ Len(filaReq) < QUEUE_CAPACITY
    /\ UNCHANGED <<servidorVars, reqFechada, filaRes, resFechada, soquete, fechos, recebidos>>

PushRequest(p) ==
    /\ pcListener[p] = "push"
    /\ \/ /\ reqFechada
          /\ pcListener' = [pcListener EXCEPT ![p] = "fecha"]
          /\ UNCHANGED filaReq
       \/ /\ ~reqFechada /\ Len(filaReq) < QUEUE_CAPACITY
          /\ filaReq' = Append(filaReq, p)
          /\ pcListener' = [pcListener EXCEPT ![p] = "recv"]
    /\ UNCHANGED <<servidorVars, reqFechada, filaRes, resFechada, soquete, fechos, recebidos>>

FechaConexao(p) ==
    /\ pcListener[p] = "fecha"
    /\ soquete' = [soquete EXCEPT ![p] = "fechado"]
    /\ fechos' = [fechos EXCEPT ![p] = @ + 1]
    /\ pcListener' = [pcListener EXCEPT ![p] = "esquece"]
    /\ UNCHANGED <<servidorVars, filaVars, recebidos>>

\* Mutant: the closed socket stays in playerSockets.
NaoEsqueceConexao(p) ==
    /\ pcListener[p] = "esquece"
    /\ pcListener' = [pcListener EXCEPT ![p] = "fim"]
    /\ UNCHANGED <<servidorVars, filaVars, soquete, fechos, recebidos>>

EsqueceConexao(p) ==
    /\ pcListener[p] = "esquece"
    /\ playerSockets' = [playerSockets EXCEPT ![p] = FALSE]
    /\ pcListener' = [pcListener EXCEPT ![p] = "fim"]
    /\ UNCHANGED <<running, evento, serverSocket, recursos, filaVars, soquete, fechos,
                   recebidos>>

Listener(p) ==
    /\ \/ Recebe(p) \/ RecvTermina(p) \/ PushRequest(p)
       \/ FechaConexao(p) \/ EsqueceConexao(p)
    /\ UNCHANGED <<pcMain, pcAcceptor, pcWorker, pcWriter, pedido, localVars,
                   cliente>>

-----------------------------------------------------------------------------
(* workerThread.                                                              *)

EsperaEvento ==
    /\ pcWorker = "espera" /\ evento
    /\ pcWorker' = "testa"
    /\ UNCHANGED <<filaReq, filaRes, pendentes, finalizada>>

\* Mutant: the event alone starts the match.
IniciaSemTestar ==
    /\ pcWorker = "testa"
    /\ pcWorker' = "envia_todos" /\ pendentes' = <<0, 1>>
    /\ UNCHANGED <<filaReq, filaRes, finalizada>>

\* prepararEstadoInicial and enviarPartidaIniciada, unless the server stops.
IniciaPartida ==
    /\ pcWorker = "testa"
    /\ IF running
         THEN pcWorker' = "envia_todos" /\ pendentes' = <<0, 1>>
         ELSE pcWorker' = "fim" /\ UNCHANGED pendentes
    /\ UNCHANGED <<filaReq, filaRes, finalizada>>

\* Mutant: the worker does not look at running between two requests.
LacoSemTestar ==
    /\ pcWorker = "laco"
    /\ pcWorker' = "pop"
    /\ UNCHANGED <<filaReq, filaRes, pendentes, finalizada>>

TestaLaco ==
    /\ pcWorker = "laco"
    /\ pcWorker' = IF running THEN "pop" ELSE "fim"
    /\ UNCHANGED <<filaReq, filaRes, pendentes, finalizada>>

(* requestQueuePop and what the request comes to.  After the end of the match *)
(* it is dropped; before, it is answered to its sender alone when it is       *)
(* refused, and to both players when it is accepted, which may end the match. *)
AtendeRequest ==
    /\ pcWorker = "pop" /\ filaReq # << >>
    /\ filaReq' = Tail(filaReq)
    /\ \/ /\ finalizada
          /\ pcWorker' = "laco"
          /\ UNCHANGED <<pendentes, finalizada>>
       \/ /\ ~finalizada
          /\ pcWorker' = "envia_um" /\ pendentes' = <<Head(filaReq)>>
          /\ UNCHANGED finalizada
       \/ /\ ~finalizada
          /\ pcWorker' = "envia_todos" /\ pendentes' = <<0, 1>>
          /\ finalizada' \in BOOLEAN
    /\ UNCHANGED filaRes

FimDosRequests ==
    /\ pcWorker = "pop" /\ filaReq = << >> /\ reqFechada
    /\ pcWorker' = "fim"
    /\ UNCHANGED <<filaReq, filaRes, pendentes, finalizada>>

PushResponse ==
    /\ pcWorker \in {"envia_um", "envia_todos"} /\ pendentes # << >>
    /\ ~resFechada /\ Len(filaRes) < QUEUE_CAPACITY
    /\ filaRes' = Append(filaRes, Head(pendentes))
    /\ pendentes' = Tail(pendentes)
    /\ pcWorker' = IF Tail(pendentes) = << >> THEN "laco" ELSE pcWorker
    /\ UNCHANGED <<filaReq, finalizada>>

(* responseQueuePush fails.  The three broadcasts give the rest up and return *)
(* to the loop; a refusal that cannot be sent ends the thread.                *)
PushRecusado ==
    /\ pcWorker \in {"envia_um", "envia_todos"} /\ resFechada
    /\ pendentes' = << >>
    /\ pcWorker' = IF pcWorker = "envia_um" THEN "fim" ELSE "laco"
    /\ UNCHANGED <<filaReq, filaRes, finalizada>>

Worker ==
    /\ \/ EsperaEvento \/ IniciaPartida \/ TestaLaco \/ AtendeRequest
       \/ FimDosRequests \/ PushResponse \/ PushRecusado
    /\ UNCHANGED <<servidorVars, reqFechada, resFechada, pcMain, pcAcceptor, pcListener,
                   pcWriter, pedido, destino, redeVars>>

-----------------------------------------------------------------------------
(* writerThread.                                                              *)

TestaWriter ==
    /\ pcWriter = "laco"
    /\ pcWriter' = IF running THEN "pop" ELSE "fim"
    /\ UNCHANGED <<filaRes, destino>>

PopResponse ==
    /\ pcWriter = "pop"
    /\ \/ /\ filaRes # << >>
          /\ destino' = Head(filaRes)
          /\ filaRes' = Tail(filaRes)
          /\ pcWriter' = "le"
       \/ /\ filaRes = << >> /\ resFechada
          /\ pcWriter' = "fim"
          /\ UNCHANGED <<destino, filaRes>>

\* The socket is read from the shared structure, and used in the next step.
LeSocket ==
    /\ pcWriter = "le"
    /\ IF playerSockets[destino]
         THEN pcWriter' = "send" /\ UNCHANGED destino
         ELSE pcWriter' = "laco" /\ destino' = Ninguem
    /\ UNCHANGED filaRes

Enviou ==
    /\ pcWriter' = "laco"
    /\ destino' = Ninguem
    /\ UNCHANGED filaRes

\* sendAll fails: the socket was shut down or closed meanwhile, or the client is gone.
EnvioFalha ==
    /\ pcWriter = "send"
    /\ soquete[destino] # "aberto" \/ cliente[destino] = "saiu"
    /\ Enviou

\* sendAll returns when TCP has taken all of it, which may need the client to read.
EnvioChega ==
    /\ pcWriter = "send"
    /\ soquete[destino] = "aberto"
    /\ Enviou

OutrosDoWriter ==
    UNCHANGED <<servidorVars, filaReq, reqFechada, resFechada, pcMain, pcAcceptor,
                pcListener, pcWorker, pedido, pendentes, finalizada, redeVars>>

Writer ==
    /\ TestaWriter \/ PopResponse \/ LeSocket \/ EnvioFalha
    /\ OutrosDoWriter

Entrega == EnvioChega /\ OutrosDoWriter

-----------------------------------------------------------------------------
Next ==
    \/ Main \/ Tecla \/ Acceptor \/ Worker \/ Writer \/ Entrega
    \/ \E p \in Jogadores : Listener(p) \/ Cliente(p)

Spec == Init /\ [][Next]_vars

(* The scheduler runs every thread that can go on.  Nothing is owed by the    *)
(* user at the keyboard or by the clients, which need not send, read or leave.*)
Justica ==
    /\ WF_vars(Main) /\ WF_vars(Acceptor) /\ WF_vars(Worker) /\ WF_vars(Writer)
    /\ \A p \in Jogadores : WF_vars(Listener(p))

FairSpec == Spec /\ Justica

-----------------------------------------------------------------------------
(* What makes the life cycle correct.                                         *)

TypeOK ==
    /\ running \in BOOLEAN /\ evento \in BOOLEAN /\ serverSocket \in BOOLEAN
    /\ playerSockets \in [Jogadores -> BOOLEAN]
    /\ filaReq \in Seq(Jogadores) /\ Len(filaReq) <= QUEUE_CAPACITY
    /\ filaRes \in Seq(Jogadores) /\ Len(filaRes) <= QUEUE_CAPACITY
    /\ reqFechada \in BOOLEAN /\ resFechada \in BOOLEAN
    /\ recursos \subseteq Filas \cup {"gameStartedEvent"}
    /\ pcMain \in {"server_init", "falhou", "cria_acceptor", "cria_worker", "cria_writer",
                   "laco", "getchar", "pede", "espera_acceptor", "espera_worker",
                   "espera_writer", "libera", "fim"}
    /\ pcAcceptor \in {"nao_criada", "accept0", "guarda0", "testa", "accept1", "guarda1",
                       "listener0", "listener1", "sinaliza", "pede",
                       "espera_listeners", "fim"}
    /\ pcListener \in [Jogadores -> {"nao_criada", "recv", "push", "fecha", "esquece",
                                     "fim"}]
    /\ pcWorker \in {"nao_criada", "espera", "testa", "laco", "pop", "envia_um",
                     "envia_todos", "fim"}
    /\ pcWriter \in {"nao_criada", "laco", "pop", "le", "send", "fim"}
    /\ pedido \in [Solicitantes -> {"nenhum", "running", "evento", "requests", "responses",
                                    "escuta", "fecha", "esquece", "corta0", "corta1",
                                    "feito"}]
    /\ pendentes \in Seq(Jogadores) /\ Len(pendentes) <= MAX_PLAYERS
    /\ finalizada \in BOOLEAN
    /\ destino \in Jogadores \cup {Ninguem}
    /\ soquete \in [Sockets -> {"nenhum", "aberto", "cortado", "fechado"}]
    /\ fechos \in [Sockets -> 0 .. 2]
    /\ cliente \in [Jogadores -> {"fora", "conectado", "saiu"}]
    /\ recebidos \in [Jogadores -> 0 .. MaxPedidos]

(* server_shutdown destroys the queues and the event "only after all threads  *)
(* ended" (server.c:157-160), whichever way main got there: also after a      *)
(* thread it could not create, and for listeners it never waits for itself.   *)
LiberaPorUltimo ==
    pcMain \in {"libera", "fim"} =>
        /\ Terminou(pcAcceptor) /\ Terminou(pcWorker) /\ Terminou(pcWriter)
        /\ \A p \in Jogadores : Terminou(pcListener[p])

(* A match begins only when both players have a listener.  The event has two  *)
(* meanings, "the match may begin" and "stop waiting", and the worker tells   *)
(* them apart by running alone.                                               *)
PartidaComDoisListeners ==
    pcWorker \in {"laco", "pop", "envia_um", "envia_todos"} =>
        \A p \in Jogadores : pcListener[p] # "nao_criada"

(* However main ends, no socket is open.  After a start that succeeded every  *)
(* socket, both queues and the event are closed and forgotten; after one that *)
(* failed the event is left, or both queues are, never a mixture of them.     *)
SemVazamento ==
    /\ pcMain \in {"fim", "falhou"} =>
         /\ \A s \in Sockets : soquete[s] \in {"nenhum", "fechado"}
         /\ ~serverSocket /\ \A p \in Jogadores : ~playerSockets[p]
    /\ pcMain = "fim" => recursos = {}
    /\ pcMain = "falhou" => recursos \in {{}, Filas, {"gameStartedEvent"}}

(* No socket is closed twice, so that closesocket never hits a handle that    *)
(* the system has given to somebody else.  The exception is the listening     *)
(* socket when main and the acceptor ask for the shutdown at the same time:   *)
(* server_request_shutdown tests and closes it in two steps.  Nor is a handle *)
(* used that has come to mean something else: once the socket of a player was *)
(* closed no socket is opened, so the copy the writer holds (writer.c:66) is  *)
(* that player's or nobody's.                                                 *)
FechadoUmaVez ==
    /\ \A p \in Jogadores : fechos[p] <= 1
    /\ (\E t \in Solicitantes : pedido[t] = "nenhum") => fechos[Escuta] <= 1
    /\ (\E p \in Jogadores : fechos[p] > 0) =>
         pcAcceptor \notin {"accept0", "guarda0", "testa", "accept1", "guarda1"}

-----------------------------------------------------------------------------
(* The shutdown seen as safety: nothing is left to wait for, and every step   *)
(* leads on.                                                                  *)

\* What a thread may wait for, other than the end of another thread.
EsperaConexao == pcAcceptor \in {"accept0", "accept1"} /\ soquete[Escuta] = "aberto"
EsperaClienteNoRecv(p) ==
    pcListener[p] = "recv" /\ soquete[p] = "aberto" /\ cliente[p] # "saiu"
EsperaLugarNaFila(p) == pcListener[p] = "push" /\ ~reqFechada
EsperaInicio == pcWorker = "espera" /\ ~evento
EsperaRequest == pcWorker = "pop" /\ filaReq = << >> /\ ~reqFechada
EsperaLugarNasRespostas == pcWorker \in {"envia_um", "envia_todos"} /\ ~resFechada
EsperaResponse == pcWriter = "pop" /\ filaRes = << >> /\ ~resFechada
EsperaClienteNoSend ==
    pcWriter = "send" /\ soquete[destino] = "aberto" /\ cliente[destino] # "saiu"

(* When server_request_shutdown returns (server.c:112-155), to either caller, *)
(* no thread waits for a connection, a client, a queue or the event any more, *)
(* nor will: what is left is that main joins its threads and the acceptor the *)
(* listeners.  A socket that was accepted and not yet stored when the loop    *)
(* passed it stays open; for the first player this does no harm, because the  *)
(* acceptor then sees ~running (acceptor.c:52), and the writer has nothing to *)
(* send on it.  The exception is the listener of the second player, when main *)
(* alone has asked (ListenersTerminam).                                       *)
NadaMaisSeEspera ==
    \A t \in Solicitantes : pedido[t] = "feito" =>
        /\ ~EsperaConexao /\ ~EsperaInicio /\ ~EsperaRequest
        /\ ~EsperaLugarNasRespostas /\ ~EsperaResponse /\ ~EsperaClienteNoSend
        /\ \A p \in Jogadores :
              /\ ~EsperaLugarNaFila(p)
              /\ EsperaClienteNoRecv(p) => p = 1 /\ pedido["acceptor"] = "nenhum"

(* How many steps each thread, caller of the shutdown and client has before   *)
(* it at most, when it goes round no loop again.                              *)
FaltaMain ==
    [server_init |-> 11, cria_acceptor |-> 10, cria_worker |-> 9, cria_writer |-> 8,
     laco |-> 7, getchar |-> 6, pede |-> 5, espera_acceptor |-> 4, espera_worker |-> 3,
     espera_writer |-> 2, libera |-> 1, fim |-> 0, falhou |-> 0][pcMain]
FaltaAcceptor ==
    [nao_criada |-> 10, accept0 |-> 9, guarda0 |-> 8, testa |-> 7, accept1 |-> 6,
     guarda1 |-> 5, listener0 |-> 4, listener1 |-> 3, sinaliza |-> 2,
     espera_listeners |-> 1, pede |-> 1, fim |-> 0][pcAcceptor]
FaltaListener(p) ==
    [nao_criada |-> 5, recv |-> 4, push |-> 3, fecha |-> 2, esquece |-> 1,
     fim |-> 0][pcListener[p]]
PostoDoWorker ==
    [nao_criada |-> 8, espera |-> 7, testa |-> 6, pop |-> 5, envia_um |-> 2,
     envia_todos |-> 2, laco |-> 1, fim |-> 0][pcWorker]
FaltaWorker == PostoDoWorker + Len(pendentes)
FaltaWriter ==
    [nao_criada |-> 5, pop |-> 4, le |-> 3, send |-> 2, laco |-> 1, fim |-> 0][pcWriter]
FaltaPedido(t) ==
    [nenhum |-> 10, running |-> 9, evento |-> 8, requests |-> 7, responses |-> 6,
     escuta |-> 5, fecha |-> 4, esquece |-> 3, corta0 |-> 2, corta1 |-> 1,
     feito |-> 0][pedido[t]]
FaltaCliente(p) == [fora |-> 2, conectado |-> 1, saiu |-> 0][cliente[p]]

Falta ==
    FaltaMain + FaltaAcceptor + FaltaListener(0) + FaltaListener(1) + FaltaWorker
      + FaltaWriter + FaltaPedido("main") + FaltaPedido("acceptor")
      + FaltaCliente(0) + FaltaCliente(1)

(* From the moment the request queue is shut down no thread goes round a loop *)
(* again, whatever the order of the steps and whatever fails: a listener      *)
(* whose push is refused leaves (listener.c:151-156), worker and writer       *)
(* finish the round they are in, main does not go back to getchar.  Each step *)
(* of anybody brings the end nearer, and it is never more than 70 steps away. *)
EncerramentoAvanca == [][reqFechada => Falta' \in 0 .. Falta - 1]_vars

-----------------------------------------------------------------------------
Servico ==
    INSTANCE Atendimento WITH
        requests    <- filaReq,
        responses   <- filaRes,
        respondendo <- pendentes,
        fase        <- IF pcWorker \in {"nao_criada", "espera", "testa"} THEN "antes"
                       ELSE IF pcWorker = "fim" THEN "fim" ELSE "partida",
        parando     <- ~running,
        ainda       <- {t \in {"worker", "writer"} :
                            running \/ (IF t = "worker" THEN pcWorker ELSE pcWriter) = "pop"}

(* The threads of the server, whenever they start, fail and end, carry out    *)
(* the service of Atendimento: no request or response is lost, doubled or     *)
(* overtaken between them, none is answered after the last move, the queues   *)
(* are closed in order, and once running is cleared worker and writer end     *)
(* after the round they are in (worker.c:187, writer.c:39).                   *)
ImplementaAtendimento == Servico!Spec

(* After the shutdown the worker and the writer end, wherever they are: also  *)
(* when a client that does not read has filled both queues up behind it.      *)
WorkerEWriterParam ==
    (\E t \in Solicitantes : pedido[t] = "feito")
        ~> Terminou(pcWorker) /\ Terminou(pcWriter)

(* server.c:141-147: shutdown() on the players' sockets makes recv() return   *)
(* and lets the listeners end.                                                *)
ListenersTerminam ==
    (pedido["main"] = "feito") ~> \A p \in Jogadores : Terminou(pcListener[p])

(* After main has asked for the shutdown the program ends, with one exception *)
(* that ListenersTerminam shows: the second connection was accepted while the *)
(* loop over playerSockets had already passed it.  Then the program ends when *)
(* that client leaves.                                                        *)
EncerramentoTermina ==
    (pedido["main"] = "feito" /\ (soquete[1] # "aberto" \/ cliente[1] = "saiu"))
        ~> pcMain = "fim"
=============================================================================
