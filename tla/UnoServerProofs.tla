--------------------------- MODULE UnoServerProofs ---------------------------
(* Proofs about the life of the server, for every capacity of the queues and  *)
(* every number of requests.  InvServidor, at the end, is inductive: the      *)
(* start of the match (InvInicio), the order in which threads end (InvFim),   *)
(* the types (Tipado) and what became of each socket (InvSockets).            *)
EXTENDS UnoServer, SequenceTheorems, TLAPS

-----------------------------------------------------------------------------
(* What the shared facts say about the places of the threads.                 *)

LugaresDoListener == {"nao_criada", "recv", "push", "fecha", "esquece", "fim"}

LugaresDoPedido ==
    {"nenhum", "running", "evento", "requests", "responses", "escuta", "fecha",
     "esquece", "corta0", "corta1", "feito"}

Lugares ==
    /\ pcListener \in [Jogadores -> LugaresDoListener]
    /\ pedido \in [Solicitantes -> LugaresDoPedido]

AmbosCriados == \A p \in Jogadores : pcListener[p] # "nao_criada"

-----------------------------------------------------------------------------
(* The start of the match.  The event is set by the acceptor once both        *)
(* listeners exist, or by a shutdown that has cleared running before.         *)

\* server_request_shutdown clears running first, and nothing sets it again.
ParadaPrimeiro ==
    \A t \in Solicitantes : pedido[t] \notin {"nenhum", "running"} => ~running

EventoJusto == evento => AmbosCriados \/ ~running

AcceptorCriou ==
    /\ pcAcceptor = "listener1" => pcListener[0] # "nao_criada"
    /\ pcAcceptor \in {"sinaliza", "espera_listeners"} => AmbosCriados

WorkerViu == pcWorker = "testa" => evento

InvInicio ==
    /\ Lugares
    /\ ParadaPrimeiro
    /\ EventoJusto
    /\ AcceptorCriou
    /\ WorkerViu
    /\ PartidaComDoisListeners

LEMMA InicioInicial == Init => InvInicio
BY DEF Init, InvInicio, Lugares, LugaresDoListener, LugaresDoPedido, ParadaPrimeiro,
       EventoJusto, AcceptorCriou, WorkerViu, PartidaComDoisListeners

\* The parts that a step can only break by changing what they speak of.
LEMMA InicioSemMudanca ==
    ASSUME InvInicio,
           UNCHANGED <<running, evento, pcAcceptor, pcListener, pcWorker, pedido>>
    PROVE  InvInicio'
BY DEF InvInicio, Lugares, ParadaPrimeiro, EventoJusto, AmbosCriados, AcceptorCriou,
       WorkerViu, PartidaComDoisListeners

LEMMA InicioRequestShutdown ==
    ASSUME InvInicio, NEW t \in Solicitantes, RequestShutdown(t)
    PROVE  InvInicio'
<1>1. UNCHANGED <<pcAcceptor, pcListener, pcWorker>>
  BY DEF RequestShutdown
<1>2. CASE MarcaParada(t)
  <2>1. /\ ~running'
        /\ UNCHANGED evento
        /\ pedido' = [pedido EXCEPT ![t] = "evento"]
    BY <1>2 DEF MarcaParada
  <2> QED
    BY <1>1, <2>1 DEF InvInicio, Lugares, LugaresDoPedido, ParadaPrimeiro, EventoJusto,
       AcceptorCriou, WorkerViu, PartidaComDoisListeners, AmbosCriados
<1>3. CASE ~MarcaParada(t)
  <2>1. /\ pedido[t] \notin {"nenhum", "running"}
        /\ UNCHANGED running
        /\ evento => evento'
        /\ \E l \in LugaresDoPedido \ {"nenhum", "running"} :
             pedido' = [pedido EXCEPT ![t] = l]
    <3>1. CASE SinalizaEvento(t)
      BY <3>1 DEF SinalizaEvento, LugaresDoPedido
    <3>2. CASE FechaRequests(t) \/ FechaResponses(t)
      BY <3>2 DEF FechaRequests, FechaResponses, servidorVars, LugaresDoPedido
    <3>3. CASE TestaEscuta(t)
      BY <3>3 DEF TestaEscuta, servidorVars, LugaresDoPedido
    <3>4. CASE FechaEscuta(t) \/ EsqueceEscuta(t)
      BY <3>4 DEF FechaEscuta, EsqueceEscuta, servidorVars, LugaresDoPedido
    <3>5. CASE CortaJogador(t, 0, "corta0", "corta1") \/ CortaJogador(t, 1, "corta1", "feito")
      BY <3>5 DEF CortaJogador, servidorVars, LugaresDoPedido
    <3> QED  BY <1>3, <3>1, <3>2, <3>3, <3>4, <3>5 DEF RequestShutdown
  <2>2. ~running'
    BY <2>1 DEF InvInicio, ParadaPrimeiro
  <2> QED
    BY <1>1, <2>1, <2>2 DEF InvInicio, Lugares, ParadaPrimeiro, EventoJusto,
       AcceptorCriou, WorkerViu, PartidaComDoisListeners, AmbosCriados
<1> QED  BY <1>2, <1>3

LEMMA InicioMain ==
    ASSUME InvInicio, Main \/ Tecla
    PROVE  InvInicio'
<1> USE DEF InvInicio, Lugares, LugaresDoPedido, Solicitantes
<1>1. CASE RequestShutdown("main")
  BY <1>1, InicioRequestShutdown
<1>2. CASE ServerInit \/ ServerShutdown
  BY <1>2, InicioSemMudanca DEF ServerInit, ServerShutdown
<1>3. CASE CriaAcceptor /\ UNCHANGED <<servidorVars, filaVars, pcListener, localVars, redeVars>>
  BY <1>3 DEF CriaAcceptor, servidorVars, ParadaPrimeiro, EventoJusto, AmbosCriados,
     AcceptorCriou, WorkerViu, PartidaComDoisListeners
<1>4. CASE /\ CriaWorker \/ CriaWriter
           /\ UNCHANGED <<servidorVars, filaVars, pcListener, localVars, redeVars>>
  BY <1>4 DEF CriaWorker, CriaWriter, PedeEncerramento, servidorVars, ParadaPrimeiro,
     EventoJusto, AmbosCriados, AcceptorCriou, WorkerViu, PartidaComDoisListeners
<1>5. CASE /\ TestaRunning \/ Pediu \/ EsperaThreads
           /\ UNCHANGED <<servidorVars, filaVars, pcListener, localVars, redeVars>>
  BY <1>5, InicioSemMudanca DEF TestaRunning, Pediu, EsperaThreads, servidorVars
<1>6. CASE Tecla
  BY <1>6 DEF Tecla, PedeEncerramento, servidorVars, ParadaPrimeiro, EventoJusto,
     AmbosCriados, AcceptorCriou, WorkerViu, PartidaComDoisListeners
<1> QED  BY <1>1, <1>2, <1>3, <1>4, <1>5, <1>6 DEF Main

LEMMA InicioAcceptor ==
    ASSUME InvInicio, Acceptor
    PROVE  InvInicio'
<1> USE DEF InvInicio, Lugares, LugaresDoListener, LugaresDoPedido, Solicitantes
<1> DEFINE resto == UNCHANGED <<servidorVars, filaVars, pcMain, pcWorker, pcWriter,
                                localVars, redeVars>>
<1>1. CASE RequestShutdown("acceptor")
  BY <1>1, InicioRequestShutdown
<1>2. CASE \/ Aceita(0, "accept0", "guarda0") \/ Aceita(1, "accept1", "guarda1")
           \/ Guarda(0, "guarda0", "testa") \/ Guarda(1, "guarda1", "listener0")
           \/ TestaAceitacao /\ resto
           \/ EsperaListeners /\ resto
  <2>1. /\ UNCHANGED <<running, evento, pcListener, pcWorker, pedido>>
        /\ pcAcceptor' \notin {"listener1", "sinaliza", "espera_listeners"}
    BY <1>2 DEF Aceita, Guarda, TestaAceitacao, EsperaListeners, servidorVars
  <2> QED
    BY <2>1 DEF ParadaPrimeiro, EventoJusto, AmbosCriados, AcceptorCriou, WorkerViu,
       PartidaComDoisListeners
<1>3. CASE CriaListener0 /\ resto
  <2>1. /\ UNCHANGED <<running, evento, pcWorker, pedido>>
        /\ \/ pcAcceptor' = "listener1" /\ pcListener' = [pcListener EXCEPT ![0] = "recv"]
           \/ pcAcceptor' = "fim" /\ UNCHANGED pcListener
    BY <1>3 DEF CriaListener0, servidorVars
  <2>2. 0 \in Jogadores
    BY DEF Jogadores, MAX_PLAYERS
  <2>3. /\ pcListener' \in [Jogadores -> LugaresDoListener]
        /\ pcAcceptor' = "listener1" => pcListener'[0] # "nao_criada"
        /\ \A p \in Jogadores : pcListener[p] # "nao_criada" => pcListener'[p] # "nao_criada"
    BY <2>1, <2>2
  <2> QED
    BY <2>1, <2>3 DEF ParadaPrimeiro, EventoJusto, AmbosCriados, AcceptorCriou, WorkerViu,
       PartidaComDoisListeners
<1>4. CASE CriaListener1 /\ resto
  <2>1. pcListener[0] # "nao_criada" /\ Jogadores = {0, 1}
    BY <1>4 DEF CriaListener1, AcceptorCriou, Jogadores, MAX_PLAYERS
  <2> QED
    BY <1>4, <2>1 DEF CriaListener1, PedeEncerramento, servidorVars, ParadaPrimeiro,
       EventoJusto, AmbosCriados, AcceptorCriou, WorkerViu, PartidaComDoisListeners
<1>5. CASE SinalizaInicio
  BY <1>5 DEF SinalizaInicio, ParadaPrimeiro, EventoJusto, AmbosCriados, AcceptorCriou,
     WorkerViu, PartidaComDoisListeners
<1> QED  BY <1>1, <1>2, <1>3, <1>4, <1>5 DEF Acceptor

LEMMA InicioListener ==
    ASSUME InvInicio, NEW p \in Jogadores, Listener(p)
    PROVE  InvInicio'
<1>1. /\ pcListener[p] # "nao_criada"
      /\ \E l \in LugaresDoListener \ {"nao_criada"} :
           pcListener' = [pcListener EXCEPT ![p] = l]
      /\ UNCHANGED <<running, evento>>
  BY DEF Listener, Recebe, RecvTermina, PushRequest, FechaConexao, EsqueceConexao,
     servidorVars, LugaresDoListener
<1>2. UNCHANGED <<pcAcceptor, pcWorker, pedido>>
  BY DEF Listener
<1>3. /\ pcListener' \in [Jogadores -> LugaresDoListener]
      /\ \A q \in Jogadores : pcListener[q] # "nao_criada" <=> pcListener'[q] # "nao_criada"
  BY <1>1 DEF InvInicio, Lugares
<1>4. 0 \in Jogadores
  BY DEF Jogadores, MAX_PLAYERS
<1> QED
  BY <1>1, <1>2, <1>3, <1>4 DEF InvInicio, Lugares, ParadaPrimeiro, EventoJusto,
     AmbosCriados, AcceptorCriou, WorkerViu, PartidaComDoisListeners

LEMMA InicioWorker ==
    ASSUME InvInicio, Worker
    PROVE  InvInicio'
<1> DEFINE naPartida == {"laco", "pop", "envia_um", "envia_todos"}
<1>1. UNCHANGED <<running, evento, pcAcceptor, pcListener, pedido>>
  BY DEF Worker, servidorVars
<1>2. \/ pcWorker' = "fim"
      \/ evento /\ pcWorker' = "testa"
      \/ pcWorker = "testa" /\ running /\ pcWorker' \in naPartida
      \/ pcWorker \in naPartida /\ pcWorker' \in naPartida
  BY DEF Worker, EsperaEvento, IniciaPartida, TestaLaco, AtendeRequest, FimDosRequests,
     PushResponse, PushRecusado
<1> QED
  BY <1>1, <1>2 DEF InvInicio, Lugares, ParadaPrimeiro, EventoJusto, AmbosCriados,
     AcceptorCriou, WorkerViu, PartidaComDoisListeners

LEMMA InicioPasso == InvInicio /\ [Next]_vars => InvInicio'
<1> SUFFICES ASSUME InvInicio, [Next]_vars PROVE InvInicio'
  OBVIOUS
<1>1. CASE Main \/ Tecla
  BY <1>1, InicioMain
<1>2. CASE Acceptor
  BY <1>2, InicioAcceptor
<1>3. CASE Worker
  BY <1>3, InicioWorker
<1>4. CASE Writer \/ Entrega
  BY <1>4, InicioSemMudanca DEF Writer, Entrega, OutrosDoWriter, servidorVars
<1>5. ASSUME NEW p \in Jogadores, Listener(p) PROVE InvInicio'
  BY <1>5, InicioListener
<1>6. ASSUME NEW p \in Jogadores, Cliente(p) PROVE InvInicio'
  BY <1>6, InicioSemMudanca DEF Cliente, servidorVars, pcVars
<1>7. CASE UNCHANGED vars
  BY <1>7, InicioSemMudanca DEF vars, servidorVars, pcVars
<1> QED  BY <1>1, <1>2, <1>3, <1>4, <1>5, <1>6, <1>7 DEF Next

(* The worker (worker.c:165-183) never starts a match before both players     *)
(* have a listener, although the event that wakes it is also set by a         *)
(* shutdown that comes before them.                                           *)
THEOREM InicioComDoisListeners == Spec => []PartidaComDoisListeners
<1>1. InvInicio => PartidaComDoisListeners
  BY DEF InvInicio
<1> QED  BY <1>1, InicioInicial, InicioPasso, PTL DEF Spec

-----------------------------------------------------------------------------
(* The end of the process.  main joins the acceptor, the worker and the       *)
(* writer, and the acceptor answers for the listeners.                        *)

\* The listeners are created late by the acceptor, which outlives them.
ListenersDoAcceptor ==
    /\ pcAcceptor \in {"nao_criada", "accept0", "guarda0", "testa", "accept1", "guarda1",
                       "listener0"} => \A p \in Jogadores : pcListener[p] = "nao_criada"
    /\ pcAcceptor = "fim" => \A p \in Jogadores : Terminou(pcListener[p])

\* main creates the three threads one by one, and waits for them in that order.
ThreadsDeMain ==
    /\ pcMain \in {"espera_worker", "espera_writer", "libera", "fim"} => Terminou(pcAcceptor)
    /\ pcMain \in {"espera_writer", "libera", "fim"} => Terminou(pcWorker)
    /\ pcMain \in {"libera", "fim"} => Terminou(pcWriter)
    /\ pcMain \in {"server_init", "falhou", "cria_acceptor"} => pcAcceptor = "nao_criada"
    /\ pcMain \in {"server_init", "falhou", "cria_acceptor", "cria_worker"} =>
         pcWorker = "nao_criada"
    /\ pcMain \in {"server_init", "falhou", "cria_acceptor", "cria_worker", "cria_writer"} =>
         pcWriter = "nao_criada"

InvFim == Lugares /\ ListenersDoAcceptor /\ ThreadsDeMain

LEMMA FimInicial == Init => InvFim
BY DEF Init, InvFim, Lugares, LugaresDoListener, LugaresDoPedido, ListenersDoAcceptor,
       ThreadsDeMain, Terminou

\* The places of the listeners and of the callers of server_request_shutdown.
LEMMA LugaresPasso == InvInicio /\ [Next]_vars => Lugares'
BY InicioPasso DEF InvInicio

LEMMA FimSemMudanca ==
    ASSUME InvFim, Lugares',
           UNCHANGED <<pcMain, pcAcceptor, pcListener, pcWorker, pcWriter>>
    PROVE  InvFim'
BY DEF InvFim, ListenersDoAcceptor, ThreadsDeMain

LEMMA FimMain ==
    ASSUME InvFim, Lugares', Main \/ Tecla
    PROVE  InvFim'
<1> USE DEF InvFim, ListenersDoAcceptor, ThreadsDeMain, Terminou
<1> DEFINE resto == UNCHANGED <<servidorVars, filaVars, pcListener, localVars, redeVars>>
<1>1. CASE RequestShutdown("main")
  BY <1>1, FimSemMudanca DEF RequestShutdown
<1>2. CASE ServerShutdown
  BY <1>2 DEF ServerShutdown
<1>3. CASE CriaAcceptor /\ resto
  BY <1>3 DEF CriaAcceptor
<1>4. CASE (CriaWorker \/ CriaWriter) /\ resto
  BY <1>4 DEF CriaWorker, CriaWriter
<1>5. CASE (TestaRunning \/ Pediu) /\ resto
  BY <1>5 DEF TestaRunning, Pediu
<1>6. CASE EsperaThreads /\ resto
  BY <1>6 DEF EsperaThreads
<1>7. CASE Tecla
  BY <1>7 DEF Tecla
<1>8. CASE ServerInit
  BY <1>8 DEF ServerInit
<1> QED  BY <1>1, <1>2, <1>3, <1>4, <1>5, <1>6, <1>7, <1>8 DEF Main

LEMMA FimAcceptor ==
    ASSUME InvFim, Lugares', Acceptor
    PROVE  InvFim'
<1> USE DEF InvFim, ListenersDoAcceptor, ThreadsDeMain, Terminou
<1> DEFINE resto == UNCHANGED <<servidorVars, filaVars, pcMain, pcWorker, pcWriter,
                                localVars, redeVars>>
<1>1. CASE RequestShutdown("acceptor")
  BY <1>1, FimSemMudanca DEF RequestShutdown
<1>2. CASE \/ Aceita(0, "accept0", "guarda0") \/ Aceita(1, "accept1", "guarda1")
           \/ Guarda(0, "guarda0", "testa") \/ Guarda(1, "guarda1", "listener0")
  BY <1>2 DEF Aceita, Guarda
<1>3. CASE (TestaAceitacao \/ EsperaListeners) /\ resto
  BY <1>3 DEF TestaAceitacao, EsperaListeners
<1>4. CASE (CriaListener0 \/ CriaListener1) /\ resto
  BY <1>4 DEF CriaListener0, CriaListener1
<1>5. CASE SinalizaInicio
  BY <1>5 DEF SinalizaInicio
<1> QED  BY <1>1, <1>2, <1>3, <1>4, <1>5 DEF Acceptor

LEMMA FimListener ==
    ASSUME InvFim, Lugares', NEW p \in Jogadores, Listener(p)
    PROVE  InvFim'
<1>1. ~Terminou(pcListener[p])
  BY DEF Listener, Recebe, RecvTermina, PushRequest, FechaConexao, EsqueceConexao, Terminou
<1>2. UNCHANGED <<pcMain, pcAcceptor, pcWorker, pcWriter>>
  BY DEF Listener
<1> QED  BY <1>1, <1>2 DEF InvFim, ListenersDoAcceptor, ThreadsDeMain, Terminou

LEMMA FimWorkerEWriter ==
    ASSUME InvFim, Lugares', Worker \/ Writer \/ Entrega
    PROVE  InvFim'
<1>1. CASE Worker
  <2>1. ~Terminou(pcWorker)
    BY <1>1 DEF Worker, EsperaEvento, IniciaPartida, TestaLaco, AtendeRequest,
       FimDosRequests, PushResponse, PushRecusado, Terminou
  <2>2. UNCHANGED <<pcMain, pcAcceptor, pcListener, pcWriter>>
    BY <1>1 DEF Worker
  <2> QED  BY <2>1, <2>2 DEF InvFim, ListenersDoAcceptor, ThreadsDeMain, Terminou
<1>2. CASE Writer \/ Entrega
  <2>1. ~Terminou(pcWriter)
    BY <1>2 DEF Writer, Entrega, TestaWriter, PopResponse, LeSocket, EnvioFalha,
       EnvioChega, Terminou
  <2>2. UNCHANGED <<pcMain, pcAcceptor, pcListener, pcWorker>>
    BY <1>2 DEF Writer, Entrega, OutrosDoWriter
  <2> QED  BY <2>1, <2>2 DEF InvFim, ListenersDoAcceptor, ThreadsDeMain, Terminou
<1> QED  BY <1>1, <1>2

LEMMA FimPasso == InvFim /\ Lugares' /\ [Next]_vars => InvFim'
<1> SUFFICES ASSUME InvFim, Lugares', [Next]_vars PROVE InvFim'
  OBVIOUS
<1>1. CASE Main \/ Tecla
  BY <1>1, FimMain
<1>2. CASE Acceptor
  BY <1>2, FimAcceptor
<1>3. CASE Worker \/ Writer \/ Entrega
  BY <1>3, FimWorkerEWriter
<1>4. ASSUME NEW p \in Jogadores, Listener(p) PROVE InvFim'
  BY <1>4, FimListener
<1>5. ASSUME NEW p \in Jogadores, Cliente(p) PROVE InvFim'
  BY <1>5, FimSemMudanca DEF Cliente, pcVars
<1>6. CASE UNCHANGED vars
  BY <1>6, FimSemMudanca DEF vars, pcVars
<1> QED  BY <1>1, <1>2, <1>3, <1>4, <1>5, <1>6 DEF Next

(* server_shutdown, which destroys the queues and the event, runs after every *)
(* thread has ended, on each of main's ways to it (server.c:157-160).         *)
THEOREM LiberaDepoisDeTodos == Spec => []LiberaPorUltimo
<1>1. InvFim => LiberaPorUltimo
  BY DEF InvFim, ListenersDoAcceptor, ThreadsDeMain, Terminou, LiberaPorUltimo
<1>2. InvInicio => Lugares
  BY DEF InvInicio
<1> QED
  BY <1>1, <1>2, InicioInicial, InicioPasso, FimInicial, FimPasso, LugaresPasso, PTL DEF Spec

-----------------------------------------------------------------------------
(* Types.  How often a socket is closed is left open here, and bounded below. *)

TiposDoServidor ==
    /\ running \in BOOLEAN /\ evento \in BOOLEAN /\ serverSocket \in BOOLEAN
    /\ playerSockets \in [Jogadores -> BOOLEAN]
    /\ recursos \subseteq Filas \cup {"gameStartedEvent"}

TiposDasFilas ==
    /\ filaReq \in Seq(Jogadores) /\ Len(filaReq) <= QUEUE_CAPACITY
    /\ filaRes \in Seq(Jogadores) /\ Len(filaRes) <= QUEUE_CAPACITY
    /\ reqFechada \in BOOLEAN /\ resFechada \in BOOLEAN

TiposDoWorker ==
    /\ pendentes \in Seq(Jogadores) /\ Len(pendentes) <= MAX_PLAYERS
    /\ finalizada \in BOOLEAN
    /\ destino \in Jogadores \cup {Ninguem}

TiposDosLugares ==
    /\ Lugares
    /\ pcMain \in {"server_init", "falhou", "cria_acceptor", "cria_worker", "cria_writer",
                   "laco", "getchar", "pede", "espera_acceptor", "espera_worker",
                   "espera_writer", "libera", "fim"}
    /\ pcAcceptor \in {"nao_criada", "accept0", "guarda0", "testa", "accept1", "guarda1",
                       "listener0", "listener1", "sinaliza", "pede",
                       "espera_listeners", "fim"}
    /\ pcWorker \in {"nao_criada", "espera", "testa", "laco", "pop", "envia_um",
                     "envia_todos", "fim"}
    /\ pcWriter \in {"nao_criada", "laco", "pop", "le", "send", "fim"}

TiposDaRede ==
    /\ soquete \in [Sockets -> {"nenhum", "aberto", "cortado", "fechado"}]
    /\ fechos \in [Sockets -> Nat]
    /\ cliente \in [Jogadores -> {"fora", "conectado", "saiu"}]
    /\ recebidos \in [Jogadores -> 0 .. MaxPedidos]

Tipado ==
    TiposDoServidor /\ TiposDasFilas /\ TiposDoWorker /\ TiposDosLugares /\ TiposDaRede

LEMMA OsSockets ==
    /\ Jogadores = {0, 1} /\ Sockets = {0, 1, 2} /\ Escuta = 2 /\ Escuta \in Sockets
    /\ MAX_PLAYERS = 2 /\ Escuta \notin Jogadores /\ Jogadores \subseteq Sockets
BY DEF Jogadores, Sockets, Escuta, MAX_PLAYERS

LEMMA TipadoNoInicio == Init => Tipado
<1> SUFFICES ASSUME Init PROVE Tipado
  OBVIOUS
<1>1. << >> \in Seq(Jogadores) /\ Len(<< >>) = 0
  BY EmptySeq
<1>2. 0 <= QUEUE_CAPACITY /\ 0 <= MAX_PLAYERS /\ 0 \in 0 .. MaxPedidos
  BY ServidorAssumption DEF MAX_PLAYERS
<1>3. TiposDoServidor /\ TiposDosLugares /\ TiposDaRede
  BY <1>2 DEF Init, TiposDoServidor, TiposDosLugares, TiposDaRede, Lugares,
     LugaresDoListener, LugaresDoPedido
<1>4. TiposDasFilas /\ TiposDoWorker
  BY <1>1, <1>2 DEF Init, TiposDasFilas, TiposDoWorker
<1> QED  BY <1>3, <1>4 DEF Tipado

LEMMA TiposParados ==
    ASSUME Tipado
    PROVE  /\ UNCHANGED servidorVars => TiposDoServidor'
           /\ UNCHANGED filaVars => TiposDasFilas'
           /\ UNCHANGED localVars => TiposDoWorker'
           /\ UNCHANGED pcVars => TiposDosLugares'
           /\ UNCHANGED redeVars => TiposDaRede'
<1> USE DEF Tipado
<1>1. UNCHANGED servidorVars => TiposDoServidor'
  BY DEF TiposDoServidor, servidorVars
<1>2. UNCHANGED filaVars => TiposDasFilas'
  BY DEF TiposDasFilas, filaVars
<1>3. UNCHANGED localVars => TiposDoWorker'
  BY DEF TiposDoWorker, localVars
<1>4. UNCHANGED pcVars => TiposDosLugares'
  BY DEF TiposDosLugares, Lugares, pcVars
<1>5. UNCHANGED redeVars => TiposDaRede'
  BY DEF TiposDaRede, redeVars
<1> QED  BY <1>1, <1>2, <1>3, <1>4, <1>5

LEMMA TiposRequestShutdown ==
    ASSUME Tipado, NEW t \in Solicitantes, RequestShutdown(t), Lugares'
    PROVE  Tipado'
<1>1. /\ UNCHANGED <<pcMain, pcAcceptor, pcListener, pcWorker, pcWriter, localVars,
                     cliente, recebidos>>
  BY DEF RequestShutdown
<1>2. TiposDoWorker' /\ TiposDosLugares'
  BY <1>1, TiposParados DEF Tipado, TiposDosLugares
<1>3. CASE FechaEscuta(t)
  <2>1. fechos[Escuta] + 1 \in Nat /\ UNCHANGED <<servidorVars, filaVars>>
    BY <1>3, OsSockets DEF Tipado, TiposDaRede, FechaEscuta
  <2>2. TiposDaRede'
    BY <1>1, <1>3, <2>1, OsSockets DEF FechaEscuta, Tipado, TiposDaRede
  <2> QED  BY <1>2, <2>1, <2>2, TiposParados DEF Tipado
<1>4. CASE CortaJogador(t, 0, "corta0", "corta1") \/ CortaJogador(t, 1, "corta1", "feito")
  <2>1. UNCHANGED <<servidorVars, filaVars>>
    BY <1>4 DEF CortaJogador
  <2>2. TiposDaRede'
    BY <1>1, <1>4 DEF CortaJogador, Tipado, TiposDaRede
  <2> QED  BY <1>2, <2>1, <2>2, TiposParados DEF Tipado
<1>5. CASE MarcaParada(t) \/ SinalizaEvento(t) \/ EsqueceEscuta(t)
  <2>1. UNCHANGED <<filaVars, soquete, fechos>>
    BY <1>5 DEF MarcaParada, SinalizaEvento, EsqueceEscuta
  <2>2. TiposDoServidor'
    BY <1>5 DEF MarcaParada, SinalizaEvento, EsqueceEscuta, Tipado, TiposDoServidor
  <2>3. TiposDaRede'
    BY <1>1, <2>1, TiposParados DEF redeVars
  <2> QED  BY <1>2, <2>1, <2>2, <2>3, TiposParados DEF Tipado
<1>6. CASE FechaRequests(t) \/ FechaResponses(t) \/ TestaEscuta(t)
  <2>1. UNCHANGED <<servidorVars, soquete, fechos>>
    BY <1>6 DEF FechaRequests, FechaResponses, TestaEscuta
  <2>2. TiposDasFilas'
    BY <1>6 DEF FechaRequests, FechaResponses, TestaEscuta, Tipado, TiposDasFilas, filaVars
  <2>3. TiposDaRede'
    BY <1>1, <2>1, TiposParados DEF redeVars
  <2> QED  BY <1>2, <2>1, <2>2, <2>3, TiposParados DEF Tipado
<1> QED  BY <1>3, <1>4, <1>5, <1>6 DEF RequestShutdown

LEMMA TiposMain ==
    ASSUME Tipado, Main \/ Tecla, Lugares'
    PROVE  Tipado'
<1> DEFINE resto == UNCHANGED <<servidorVars, filaVars, pcListener, localVars, redeVars>>
<1>1. CASE RequestShutdown("main")
  BY <1>1, TiposRequestShutdown DEF Solicitantes
<1>2. CASE ServerInit
  <2>1. fechos[Escuta] + 1 \in Nat
    BY OsSockets DEF Tipado, TiposDaRede
  <2>2. TiposDaRede'
    BY <1>2, <2>1, OsSockets DEF ServerInit, Tipado, TiposDaRede
  <2>3. TiposDoServidor'
    BY <1>2 DEF ServerInit, Tipado, TiposDoServidor
  <2>4. TiposDosLugares'
    BY <1>2 DEF ServerInit, Tipado, TiposDosLugares
  <2>5. UNCHANGED <<filaVars, localVars>>
    BY <1>2 DEF ServerInit
  <2> QED  BY <2>2, <2>3, <2>4, <2>5, TiposParados DEF Tipado
<1>3. CASE ServerShutdown
  <2>1. TiposDaRede'
    BY <1>3 DEF ServerShutdown, Tipado, TiposDaRede
  <2>2. TiposDoServidor'
    BY <1>3 DEF ServerShutdown, Tipado, TiposDoServidor
  <2>3. TiposDosLugares'
    BY <1>3 DEF ServerShutdown, Tipado, TiposDosLugares
  <2>4. UNCHANGED <<filaVars, localVars>>
    BY <1>3 DEF ServerShutdown
  <2> QED  BY <2>1, <2>2, <2>3, <2>4, TiposParados DEF Tipado
<1>4. CASE (CriaAcceptor \/ CriaWorker \/ CriaWriter) /\ resto
  <2>1. TiposDosLugares'
    BY <1>4 DEF CriaAcceptor, CriaWorker, CriaWriter, Tipado, TiposDosLugares
  <2> QED  BY <1>4, <2>1, TiposParados DEF Tipado
<1>5. CASE (TestaRunning \/ Pediu \/ EsperaThreads) /\ resto
  <2>1. TiposDosLugares'
    BY <1>5 DEF TestaRunning, Pediu, EsperaThreads, Tipado, TiposDosLugares
  <2> QED  BY <1>5, <2>1, TiposParados DEF Tipado
<1>6. CASE Tecla
  <2>1. TiposDosLugares'
    BY <1>6 DEF Tecla, Tipado, TiposDosLugares
  <2>2. UNCHANGED <<servidorVars, filaVars, localVars, redeVars>>
    BY <1>6 DEF Tecla
  <2> QED  BY <2>1, <2>2, TiposParados DEF Tipado
<1> QED  BY <1>1, <1>2, <1>3, <1>4, <1>5, <1>6 DEF Main

LEMMA TiposAcceptor ==
    ASSUME Tipado, Acceptor, Lugares'
    PROVE  Tipado'
<1> DEFINE resto == UNCHANGED <<servidorVars, filaVars, pcMain, pcWorker, pcWriter,
                                localVars, redeVars>>
<1>1. CASE RequestShutdown("acceptor")
  BY <1>1, TiposRequestShutdown DEF Solicitantes
<1>2. ASSUME NEW p \in Jogadores, NEW a, NEW d \in {"guarda0", "guarda1"}, Aceita(p, a, d)
      PROVE  Tipado'
  <2>1. TiposDaRede'
    BY <1>2 DEF Aceita, Tipado, TiposDaRede
  <2>2. TiposDosLugares'
    BY <1>2 DEF Aceita, Tipado, TiposDosLugares
  <2>3. UNCHANGED <<servidorVars, filaVars, localVars>>
    BY <1>2 DEF Aceita
  <2> QED  BY <2>1, <2>2, <2>3, TiposParados DEF Tipado
<1>3. ASSUME NEW p \in Jogadores, NEW a, NEW d \in {"testa", "listener0"}, Guarda(p, a, d)
      PROVE  Tipado'
  <2>1. TiposDoServidor'
    BY <1>3 DEF Guarda, Tipado, TiposDoServidor
  <2>2. TiposDosLugares'
    BY <1>3 DEF Guarda, Tipado, TiposDosLugares
  <2>3. UNCHANGED <<filaVars, localVars, redeVars>>
    BY <1>3 DEF Guarda
  <2> QED  BY <2>1, <2>2, <2>3, TiposParados DEF Tipado
<1>4. CASE (TestaAceitacao \/ CriaListener0 \/ CriaListener1 \/ EsperaListeners) /\ resto
  <2>1. TiposDosLugares'
    BY <1>4 DEF TestaAceitacao, CriaListener0, CriaListener1, EsperaListeners, Tipado,
       TiposDosLugares
  <2> QED  BY <1>4, <2>1, TiposParados DEF Tipado
<1>5. CASE SinalizaInicio
  <2>1. TiposDoServidor'
    BY <1>5 DEF SinalizaInicio, Tipado, TiposDoServidor
  <2>2. TiposDosLugares'
    BY <1>5 DEF SinalizaInicio, Tipado, TiposDosLugares
  <2>3. UNCHANGED <<filaVars, localVars, redeVars>>
    BY <1>5 DEF SinalizaInicio
  <2> QED  BY <2>1, <2>2, <2>3, TiposParados DEF Tipado
<1> QED
  BY <1>1, <1>2, <1>3, <1>4, <1>5, OsSockets DEF Acceptor

\* A push on a queue that is not full, and a pop from one that is not empty.
LEMMA FilaDoServidor ==
    ASSUME NEW s \in Seq(Jogadores), Len(s) <= QUEUE_CAPACITY
    PROVE  /\ \A p \in Jogadores : Len(s) < QUEUE_CAPACITY =>
                Append(s, p) \in Seq(Jogadores) /\ Len(Append(s, p)) <= QUEUE_CAPACITY
           /\ s # << >> =>
                /\ Head(s) \in Jogadores
                /\ Tail(s) \in Seq(Jogadores) /\ Len(Tail(s)) <= QUEUE_CAPACITY
<1>1. Len(s) \in Nat /\ QUEUE_CAPACITY \in Nat
  BY LenProperties, ServidorAssumption
<1>2. ASSUME NEW p \in Jogadores
      PROVE  Append(s, p) \in Seq(Jogadores) /\ Len(Append(s, p)) = Len(s) + 1
  BY AppendProperties
<1>3. s # << >> => /\ Head(s) \in Jogadores
                   /\ Tail(s) \in Seq(Jogadores) /\ Len(Tail(s)) = Len(s) - 1
  BY HeadTailProperties
<1> QED  BY <1>1, <1>2, <1>3

LEMMA TiposListener ==
    ASSUME Tipado, NEW p \in Jogadores, Listener(p), Lugares'
    PROVE  Tipado'
<1>1. UNCHANGED <<pcMain, pcAcceptor, pcWorker, pcWriter, pedido, localVars, cliente>>
  BY DEF Listener
<1>2. TiposDosLugares' /\ TiposDoWorker'
  BY <1>1, TiposParados DEF Tipado, TiposDosLugares
<1>3. CASE Recebe(p)
  <2>1. recebidos[p] + 1 \in 0 .. MaxPedidos
    BY <1>3, ServidorAssumption DEF Recebe, Tipado, TiposDaRede
  <2>2. TiposDaRede'
    BY <1>1, <1>3, <2>1 DEF Recebe, Tipado, TiposDaRede
  <2>3. UNCHANGED <<servidorVars, filaVars>>
    BY <1>3 DEF Recebe
  <2> QED  BY <1>2, <2>2, <2>3, TiposParados DEF Tipado
<1>4. CASE RecvTermina(p)
  BY <1>1, <1>2, <1>4, TiposParados DEF RecvTermina, Tipado, redeVars
<1>5. CASE PushRequest(p)
  <2>1. TiposDasFilas'
    BY <1>5, FilaDoServidor DEF PushRequest, Tipado, TiposDasFilas
  <2>2. UNCHANGED <<servidorVars, redeVars>>
    BY <1>1, <1>5 DEF PushRequest, redeVars
  <2> QED  BY <1>2, <2>1, <2>2, TiposParados DEF Tipado
<1>6. CASE FechaConexao(p)
  <2>1. fechos[p] + 1 \in Nat
    BY OsSockets DEF Tipado, TiposDaRede
  <2>2. TiposDaRede'
    BY <1>1, <1>6, <2>1, OsSockets DEF FechaConexao, Tipado, TiposDaRede
  <2> QED  BY <1>2, <1>6, <2>2, TiposParados DEF Tipado, FechaConexao
<1>7. CASE EsqueceConexao(p)
  <2>1. TiposDoServidor'
    BY <1>7 DEF EsqueceConexao, Tipado, TiposDoServidor
  <2>2. UNCHANGED <<filaVars, redeVars>>
    BY <1>1, <1>7 DEF EsqueceConexao, redeVars
  <2> QED  BY <1>2, <2>1, <2>2, TiposParados DEF Tipado
<1> QED  BY <1>3, <1>4, <1>5, <1>6, <1>7 DEF Listener

LEMMA TiposWorker ==
    ASSUME Tipado, Worker, Lugares'
    PROVE  Tipado'
<1>1. UNCHANGED <<servidorVars, reqFechada, resFechada, pcMain, pcAcceptor, pcListener,
                  pcWriter, pedido, destino, redeVars>>
  BY DEF Worker
<1>2. TiposDosLugares'
  BY <1>1 DEF Worker, EsperaEvento, IniciaPartida, TestaLaco, AtendeRequest, FimDosRequests,
     PushResponse, PushRecusado, Tipado, TiposDosLugares
<1>3. TiposDasFilas'
  <2>1. CASE UNCHANGED <<filaReq, filaRes>>
    BY <1>1, <2>1, TiposParados DEF filaVars
  <2>2. CASE AtendeRequest
    BY <1>1, <2>2, FilaDoServidor DEF AtendeRequest, Tipado, TiposDasFilas
  <2>3. CASE PushResponse
    <3>1. Head(pendentes) \in Jogadores
      BY <2>3, HeadTailProperties DEF PushResponse, Tipado, TiposDoWorker
    <3> QED  BY <1>1, <2>3, <3>1, FilaDoServidor DEF PushResponse, Tipado, TiposDasFilas
  <2> QED
    BY <2>1, <2>2, <2>3 DEF Worker, EsperaEvento, IniciaPartida, TestaLaco, FimDosRequests,
       PushRecusado
<1>4. TiposDoWorker'
  <2>1. /\ << >> \in Seq(Jogadores) /\ Len(<< >>) <= MAX_PLAYERS
        /\ <<0, 1>> \in Seq(Jogadores) /\ Len(<<0, 1>>) <= MAX_PLAYERS
        /\ \A p \in Jogadores : <<p>> \in Seq(Jogadores) /\ Len(<<p>>) <= MAX_PLAYERS
    BY OsSockets
  <2>2. CASE EsperaEvento \/ TestaLaco \/ FimDosRequests
    BY <1>1, <2>2, TiposParados DEF EsperaEvento, TestaLaco, FimDosRequests, localVars
  <2>3. CASE IniciaPartida \/ PushRecusado
    BY <1>1, <2>1, <2>3 DEF IniciaPartida, PushRecusado, Tipado, TiposDoWorker
  <2>4. CASE AtendeRequest
    <3>1. Head(filaReq) \in Jogadores
      BY <2>4, FilaDoServidor DEF AtendeRequest, Tipado, TiposDasFilas
    <3> QED  BY <1>1, <2>1, <2>4, <3>1 DEF AtendeRequest, Tipado, TiposDoWorker
  <2>5. CASE PushResponse
    <3>1. Tail(pendentes) \in Seq(Jogadores) /\ Len(Tail(pendentes)) = Len(pendentes) - 1
      BY <2>5, HeadTailProperties DEF PushResponse, Tipado, TiposDoWorker
    <3>2. Len(pendentes) \in Nat
      BY LenProperties DEF Tipado, TiposDoWorker
    <3> QED  BY <1>1, <2>5, <3>1, <3>2, OsSockets DEF PushResponse, Tipado, TiposDoWorker
  <2> QED  BY <2>2, <2>3, <2>4, <2>5 DEF Worker
<1> QED  BY <1>1, <1>2, <1>3, <1>4, TiposParados DEF Tipado

LEMMA TiposWriter ==
    ASSUME Tipado, Writer \/ Entrega, Lugares'
    PROVE  Tipado'
<1>1. UNCHANGED <<servidorVars, filaReq, reqFechada, resFechada, pcMain, pcAcceptor,
                  pcListener, pcWorker, pedido, pendentes, finalizada, redeVars>>
  BY DEF Writer, Entrega, OutrosDoWriter
<1>2. TiposDosLugares'
  BY <1>1 DEF Writer, Entrega, TestaWriter, PopResponse, LeSocket, EnvioFalha, EnvioChega,
     Enviou, Tipado, TiposDosLugares
<1>3. TiposDasFilas'
  BY <1>1, FilaDoServidor DEF Writer, Entrega, TestaWriter, PopResponse, LeSocket, EnvioFalha,
     EnvioChega, Enviou, Tipado, TiposDasFilas
<1>4. TiposDoWorker'
  BY <1>1, FilaDoServidor DEF Writer, Entrega, TestaWriter, PopResponse, LeSocket, EnvioFalha,
     EnvioChega, Enviou, Tipado, TiposDasFilas, TiposDoWorker
<1> QED  BY <1>1, <1>2, <1>3, <1>4, TiposParados DEF Tipado

LEMMA TipadoPasso == Tipado /\ Lugares' /\ [Next]_vars => Tipado'
<1> SUFFICES ASSUME Tipado, Lugares', [Next]_vars PROVE Tipado'
  OBVIOUS
<1>1. ASSUME NEW p \in Jogadores, Cliente(p)
      PROVE  Tipado'
  <2>1. TiposDaRede'
    BY <1>1 DEF Cliente, ClienteConecta, ClienteSai, Tipado, TiposDaRede
  <2> QED  BY <1>1, <2>1, TiposParados DEF Cliente, Tipado
<1>2. CASE UNCHANGED vars
  BY <1>2, TiposParados DEF vars, Tipado
<1> QED
  BY <1>1, <1>2, TiposMain, TiposAcceptor, TiposWorker, TiposWriter, TiposListener DEF Next

-----------------------------------------------------------------------------
(* The sockets.  Who may close one: for a player's socket its listener, and   *)
(* server_shutdown where there is none or it has left the socket to it; for   *)
(* the listening socket each of the two threads in server_request_shutdown,   *)
(* and server_init or server_shutdown.                                        *)

\* Where the callers of server_request_shutdown are; each calls it once.
PedidosNoLugar ==
    /\ pedido["main"] \notin {"nenhum", "feito"} => pcMain = "pede"
    /\ pcMain \in {"server_init", "falhou", "cria_acceptor", "cria_worker", "cria_writer",
                   "laco", "getchar"} => pedido["main"] = "nenhum"
    /\ pedido["acceptor"] \notin {"nenhum", "feito"} => pcAcceptor = "pede"
    /\ pcAcceptor \notin {"pede", "fim"} => pedido["acceptor"] = "nenhum"

\* The acceptor before, at and after the assignment of the connection of p.
AntesDe(p) ==
    {"nao_criada", "accept0"} \cup (IF p = 0 THEN {} ELSE {"guarda0", "testa", "accept1"})
Guardando(p) == IF p = 0 THEN "guarda0" ELSE "guarda1"
DepoisDe(p) ==
    {"listener0"} \cup (IF p = 0 THEN {"testa", "accept1", "guarda1"} ELSE {"listener1"})

SemConexao(p) ==
    /\ soquete[p] = "nenhum" /\ ~playerSockets[p] /\ fechos[p] = 0
    /\ pcListener[p] = "nao_criada"
Aceitando(p) ==
    /\ soquete[p] = "aberto" /\ ~playerSockets[p] /\ fechos[p] = 0
    /\ pcListener[p] = "nao_criada" /\ pcAcceptor = Guardando(p)
Ligado(p) ==
    /\ soquete[p] \in {"aberto", "cortado"} /\ playerSockets[p] /\ fechos[p] = 0
    /\ pcListener[p] \in {"nao_criada", "recv", "push", "fecha"}
Fechando(p) ==
    /\ soquete[p] = "fechado" /\ playerSockets[p] /\ fechos[p] = 1
    /\ pcListener[p] = "esquece"
Fechado(p) ==
    /\ soquete[p] = "fechado" /\ ~playerSockets[p] /\ fechos[p] = 1
    /\ pcListener[p] = "fim" \/ pcMain = "fim"

Conexao(p) ==
    /\ SemConexao(p) \/ Aceitando(p) \/ Ligado(p) \/ Fechando(p) \/ Fechado(p)
    /\ pcAcceptor \in AntesDe(p) => soquete[p] = "nenhum"
    /\ pcAcceptor = Guardando(p) => soquete[p] = "aberto" /\ ~playerSockets[p]
    /\ pcAcceptor \in DepoisDe(p) => playerSockets[p] /\ pcListener[p] = "nao_criada"
    /\ pcMain = "fim" => ~playerSockets[p]

Conexoes == \A p \in Jogadores : Conexao(p)

\* 1 for a thread that has had its chance to close the listening socket.
Passou(t) == IF pedido[t] \in {"esquece", "corta0", "corta1", "feito"} THEN 1 ELSE 0

EscutaUmaVez ==
    IF pcMain \in {"falhou", "fim"}
      THEN /\ fechos[Escuta] <= 2
           /\ (\E t \in Solicitantes : pedido[t] = "nenhum") => fechos[Escuta] <= 1
      ELSE fechos[Escuta] <= Passou("main") + Passou("acceptor")

EscutaCoerente ==
    /\ soquete[Escuta] # "cortado"
    /\ soquete[Escuta] = "aberto" => serverSocket
    /\ \A t \in Solicitantes :
         /\ pedido[t] = "esquece" => soquete[Escuta] = "fechado"
         /\ pedido[t] \in {"corta0", "corta1", "feito"} => ~serverSocket
    /\ pcMain \in {"server_init", "falhou", "fim"} => ~serverSocket

Restos ==
    /\ pcMain = "fim" => recursos = {}
    /\ pcMain = "falhou" => recursos \in {{}, Filas, {"gameStartedEvent"}}

InvSockets == PedidosNoLugar /\ Conexoes /\ EscutaUmaVez /\ EscutaCoerente /\ Restos

LEMMA SocketsNoInicio == Init => InvSockets
<1> SUFFICES ASSUME Init PROVE InvSockets
  OBVIOUS
<1>1. PedidosNoLugar /\ Restos
  BY DEF Init, PedidosNoLugar, Restos, Solicitantes
<1>2. Conexoes
  BY OsSockets DEF Init, Conexoes, Conexao, SemConexao, Guardando, DepoisDe
<1>3. EscutaUmaVez /\ EscutaCoerente
  BY OsSockets DEF Init, EscutaUmaVez, EscutaCoerente, Passou, Solicitantes
<1> QED  BY <1>1, <1>2, <1>3 DEF InvSockets

LEMMA SocketsParados ==
    ASSUME InvSockets,
           UNCHANGED <<serverSocket, playerSockets, recursos, pcMain, pcAcceptor, pcListener,
                       pedido, soquete, fechos>>
    PROVE  InvSockets'
<1> USE DEF InvSockets
<1>1. PedidosNoLugar' /\ Restos'
  BY DEF PedidosNoLugar, Restos
<1>2. Conexoes'
  BY DEF Conexoes, Conexao, SemConexao, Aceitando, Ligado, Fechando, Fechado
<1>3. EscutaUmaVez' /\ EscutaCoerente'
  BY DEF EscutaUmaVez, EscutaCoerente, Passou
<1> QED  BY <1>1, <1>2, <1>3

\* A player's connection is touched by nothing that leaves these alone.
LEMMA ConexaoParada ==
    ASSUME NEW p \in Jogadores, Conexao(p), soquete'[p] = soquete[p], fechos'[p] = fechos[p],
           playerSockets'[p] = playerSockets[p], pcListener'[p] = pcListener[p],
           UNCHANGED pcAcceptor, pcMain' = "fim" <=> pcMain = "fim"
    PROVE  Conexao(p)'
BY DEF Conexao, SemConexao, Aceitando, Ligado, Fechando, Fechado

LEMMA SocketsRequestShutdown ==
    ASSUME Tipado, InvFim, InvSockets, NEW t \in Solicitantes, RequestShutdown(t)
    PROVE  InvSockets'
<1> USE DEF InvSockets
<1>0. /\ UNCHANGED <<pcMain, pcAcceptor, pcListener, recursos, playerSockets>>
      /\ t = "main" \/ t = "acceptor"
      /\ pedido \in [Solicitantes -> LugaresDoPedido]
      /\ soquete \in [Sockets -> {"nenhum", "aberto", "cortado", "fechado"}]
      /\ fechos \in [Sockets -> Nat]
  BY DEF RequestShutdown, MarcaParada, SinalizaEvento, FechaRequests, FechaResponses,
     TestaEscuta, FechaEscuta, EsqueceEscuta, CortaJogador, servidorVars, Solicitantes,
     Tipado, TiposDosLugares, Lugares, TiposDaRede
<1>1. \E l \in LugaresDoPedido \ {"nenhum", "running"} :
        /\ pedido' = [pedido EXCEPT ![t] = l]
        /\ pedido[t] \notin {"nenhum", "feito"}
        /\ l = "esquece" <=> FechaEscuta(t)
        /\ l \in {"corta0", "corta1", "feito"} =>
             ~serverSocket \/ EsqueceEscuta(t) \/ pedido[t] \in {"corta0", "corta1"}
        /\ pedido[t] \in {"esquece", "corta0", "corta1"} => l \in {"corta0", "corta1", "feito"}
  <2>1. CASE MarcaParada(t) \/ SinalizaEvento(t) \/ FechaRequests(t) \/ FechaResponses(t)
    BY <2>1 DEF MarcaParada, SinalizaEvento, FechaRequests, FechaResponses, FechaEscuta,
       LugaresDoPedido
  <2>2. CASE TestaEscuta(t)
    BY <2>2 DEF TestaEscuta, FechaEscuta, LugaresDoPedido
  <2>3. CASE FechaEscuta(t)
    BY <2>3 DEF FechaEscuta, LugaresDoPedido
  <2>4. CASE EsqueceEscuta(t)
    BY <2>4 DEF EsqueceEscuta, FechaEscuta, LugaresDoPedido
  <2>5. CASE CortaJogador(t, 0, "corta0", "corta1") \/ CortaJogador(t, 1, "corta1", "feito")
    BY <2>5 DEF CortaJogador, FechaEscuta, LugaresDoPedido
  <2> QED  BY <2>1, <2>2, <2>3, <2>4, <2>5 DEF RequestShutdown
<1>2. PICK l \in LugaresDoPedido \ {"nenhum", "running"} :
        /\ pedido' = [pedido EXCEPT ![t] = l]
        /\ pedido[t] \notin {"nenhum", "feito"}
        /\ l = "esquece" <=> FechaEscuta(t)
        /\ l \in {"corta0", "corta1", "feito"} =>
             ~serverSocket \/ EsqueceEscuta(t) \/ pedido[t] \in {"corta0", "corta1"}
        /\ pedido[t] \in {"esquece", "corta0", "corta1"} => l \in {"corta0", "corta1", "feito"}
  BY <1>1
\* A thread in server_request_shutdown is one that main has created, or main.
<1>3. pcMain \notin {"server_init", "falhou", "fim"}
  <2>1. CASE t = "main"
    BY <1>2, <2>1 DEF PedidosNoLugar
  <2>2. CASE t = "acceptor"
    BY <1>2, <2>2 DEF PedidosNoLugar, InvFim, ThreadsDeMain, Terminou
  <2> QED  BY <1>0, <2>1, <2>2
<1>4. PedidosNoLugar'
  BY <1>0, <1>2 DEF PedidosNoLugar, Solicitantes
<1>5. Restos'
  BY <1>0 DEF Restos
<1>6. fechos' = IF FechaEscuta(t) THEN [fechos EXCEPT ![Escuta] = @ + 1] ELSE fechos
  BY DEF RequestShutdown, MarcaParada, SinalizaEvento, FechaRequests, FechaResponses,
     TestaEscuta, FechaEscuta, EsqueceEscuta, CortaJogador
<1>7. \/ soquete' = soquete
      \/ FechaEscuta(t) /\ soquete' = [soquete EXCEPT ![Escuta] = "fechado"]
      \/ ~FechaEscuta(t) /\ \E p \in Jogadores :
           /\ playerSockets[p] /\ soquete[p] = "aberto"
           /\ soquete' = [soquete EXCEPT ![p] = "cortado"]
  BY OsSockets DEF RequestShutdown, MarcaParada, SinalizaEvento, FechaRequests, FechaResponses,
     TestaEscuta, FechaEscuta, EsqueceEscuta, CortaJogador
<1>8. Conexoes'
  <2> SUFFICES ASSUME NEW q \in Jogadores PROVE Conexao(q)'
    BY DEF Conexoes
  <2>1. Conexao(q) /\ fechos'[q] = fechos[q]
    BY <1>0, <1>6, OsSockets DEF Conexoes
  <2>2. CASE soquete'[q] = soquete[q]
    BY <1>0, <2>1, <2>2, ConexaoParada
  <2>3. CASE /\ playerSockets[q] /\ soquete[q] = "aberto" /\ soquete'[q] = "cortado"
    BY <1>0, <2>1, <2>3
    DEF Conexao, SemConexao, Aceitando, Ligado, Fechando, Fechado, AntesDe
  <2> QED  BY <1>0, <1>7, <2>2, <2>3, OsSockets
<1>9. soquete'[Escuta] = IF FechaEscuta(t) THEN "fechado" ELSE soquete[Escuta]
  <2>1. CASE FechaEscuta(t)
    BY <1>0, <2>1, OsSockets DEF FechaEscuta
  <2>2. CASE ~FechaEscuta(t)
    BY <1>0, <1>7, <2>2, OsSockets
  <2> QED  BY <2>1, <2>2
<1>10. serverSocket' = (serverSocket /\ ~EsqueceEscuta(t))
  BY DEF RequestShutdown, MarcaParada, SinalizaEvento, FechaRequests, FechaResponses,
     TestaEscuta, FechaEscuta, EsqueceEscuta, CortaJogador, servidorVars, Tipado,
     TiposDoServidor
<1>11. EsqueceEscuta(t) => pedido[t] = "esquece"
  BY DEF EsqueceEscuta
<1>12. EscutaCoerente'
  <2>1. soquete'[Escuta] # "cortado"
    BY <1>9 DEF EscutaCoerente
  <2>2. soquete'[Escuta] = "aberto" => serverSocket'
    BY <1>9, <1>10, <1>11 DEF EscutaCoerente
  <2>3. ASSUME NEW u \in Solicitantes
        PROVE  /\ pedido'[u] = "esquece" => soquete'[Escuta] = "fechado"
               /\ pedido'[u] \in {"corta0", "corta1", "feito"} => ~serverSocket'
    <3>1. CASE u = t
      BY <1>0, <1>2, <1>9, <1>10, <3>1 DEF EscutaCoerente
    <3>2. CASE u # t
      <4>1. pedido'[u] = pedido[u]
        BY <1>0, <1>2, <3>2
      <4> QED  BY <1>9, <1>10, <4>1 DEF EscutaCoerente
    <3> QED  BY <3>1, <3>2
  <2> QED  BY <1>0, <1>3, <2>1, <2>2, <2>3 DEF EscutaCoerente
<1>13. EscutaUmaVez'
  <2>1. Passou("main") \in 0 .. 1 /\ Passou("acceptor") \in 0 .. 1
        /\ Passou("main")' \in 0 .. 1 /\ Passou("acceptor")' \in 0 .. 1
    BY DEF Passou
  <2>2. fechos[Escuta] \in Nat /\ fechos[Escuta] <= Passou("main") + Passou("acceptor")
    BY <1>0, <1>3, OsSockets DEF EscutaUmaVez
  <2>3. \A u \in Solicitantes : u # t => Passou(u)' = Passou(u)
    BY <1>0, <1>2 DEF Passou
  <2>4. pedido'[t] = l
    BY <1>0, <1>2
  <2>5. CASE FechaEscuta(t)
    <3>1. Passou(t) = 0 /\ Passou(t)' = 1
      BY <1>2, <2>4, <2>5 DEF Passou, FechaEscuta
    <3>2. fechos'[Escuta] = fechos[Escuta] + 1
      BY <1>0, <1>6, <2>5, OsSockets
    <3>3. fechos'[Escuta] <= Passou("main")' + Passou("acceptor")'
      BY <1>0, <2>1, <2>2, <2>3, <3>1, <3>2 DEF Solicitantes
    <3> QED  BY <1>0, <1>3, <3>3 DEF EscutaUmaVez
  <2>6. CASE ~FechaEscuta(t)
    <3>1. Passou(t) <= Passou(t)'
      BY <1>2, <2>4, <2>6 DEF Passou
    <3>2. fechos'[Escuta] = fechos[Escuta]
      BY <1>6, <2>6
    <3>3. fechos'[Escuta] <= Passou("main")' + Passou("acceptor")'
      BY <1>0, <2>1, <2>2, <2>3, <3>1, <3>2 DEF Solicitantes
    <3> QED  BY <1>0, <1>3, <3>3 DEF EscutaUmaVez
  <2> QED  BY <2>5, <2>6
<1> QED  BY <1>4, <1>5, <1>8, <1>12, <1>13

LEMMA SocketsServerInit ==
    ASSUME Tipado, InvFim, InvSockets, ServerInit
    PROVE  InvSockets'
<1> USE DEF InvSockets
<1>0. /\ soquete \in [Sockets -> {"nenhum", "aberto", "cortado", "fechado"}]
      /\ fechos \in [Sockets -> Nat]
      /\ UNCHANGED <<playerSockets, pcAcceptor, pcListener, pedido>>
      /\ pcMain = "server_init" /\ pcMain' \in {"falhou", "cria_acceptor"}
  BY DEF ServerInit, Tipado, TiposDaRede
<1>1. \A t \in Solicitantes : pedido[t] = "nenhum"
  BY <1>0 DEF PedidosNoLugar, InvFim, ThreadsDeMain, Solicitantes
<1>2. PedidosNoLugar'
  BY <1>0, <1>1 DEF PedidosNoLugar, Solicitantes
<1>3. Restos'
  BY DEF ServerInit, Restos
<1>4. \/ pcMain' = "falhou" /\ UNCHANGED <<serverSocket, soquete, fechos>>
      \/ /\ pcMain' = "falhou" /\ UNCHANGED serverSocket
         /\ soquete' = [soquete EXCEPT ![Escuta] = "fechado"]
         /\ fechos' = [fechos EXCEPT ![Escuta] = @ + 1]
      \/ /\ pcMain' = "cria_acceptor" /\ serverSocket' /\ UNCHANGED fechos
         /\ soquete' = [soquete EXCEPT ![Escuta] = "aberto"]
  BY DEF ServerInit
<1>5. fechos[Escuta] = 0
  BY <1>0, <1>1, OsSockets DEF EscutaUmaVez, Passou, Solicitantes
<1>6. Conexoes'
  <2> SUFFICES ASSUME NEW p \in Jogadores PROVE Conexao(p)'
    BY DEF Conexoes
  <2>1. soquete'[p] = soquete[p] /\ fechos'[p] = fechos[p]
    BY <1>0, <1>4, OsSockets
  <2> QED  BY <1>0, <2>1, ConexaoParada DEF Conexoes
<1>7. EscutaUmaVez'
  BY <1>0, <1>1, <1>4, <1>5, OsSockets DEF EscutaUmaVez, Passou, Solicitantes
<1>8. EscutaCoerente'
  BY <1>0, <1>1, <1>4, OsSockets DEF EscutaCoerente
<1> QED  BY <1>2, <1>3, <1>6, <1>7, <1>8

LEMMA SocketsServerShutdown ==
    ASSUME Tipado, InvFim, InvSockets, ServerShutdown
    PROVE  InvSockets'
<1> USE DEF InvSockets
<1> DEFINE abertos == {p \in Jogadores : playerSockets[p]}
                          \cup (IF serverSocket THEN {Escuta} ELSE {})
<1>0. /\ fechos \in [Sockets -> Nat]
      /\ soquete' = [s \in Sockets |-> IF s \in abertos THEN "fechado" ELSE soquete[s]]
      /\ fechos' = [s \in Sockets |-> fechos[s] + (IF s \in abertos THEN 1 ELSE 0)]
      /\ playerSockets' = [p \in Jogadores |-> FALSE]
      /\ ~serverSocket' /\ recursos' = {} /\ pcMain = "libera" /\ pcMain' = "fim"
      /\ UNCHANGED <<pcAcceptor, pcListener, pedido>>
  BY DEF ServerShutdown, Tipado, TiposDaRede
<1>1. Terminou(pcAcceptor) /\ \A p \in Jogadores : Terminou(pcListener[p])
  BY <1>0 DEF InvFim, ThreadsDeMain, ListenersDoAcceptor, Terminou
<1>2. \A t \in Solicitantes : pedido[t] \in {"nenhum", "feito"}
  BY <1>0, <1>1 DEF PedidosNoLugar, Solicitantes, Terminou
<1>3. PedidosNoLugar' /\ Restos'
  BY <1>0, <1>2 DEF PedidosNoLugar, Restos, Solicitantes
<1>4. Conexoes'
  <2> SUFFICES ASSUME NEW p \in Jogadores PROVE Conexao(p)'
    BY DEF Conexoes
  <2>1. p \in Sockets /\ (p \in abertos <=> playerSockets[p]) /\ fechos[p] \in Nat
    BY <1>0, OsSockets
  <2>2. /\ soquete'[p] = IF playerSockets[p] THEN "fechado" ELSE soquete[p]
        /\ fechos'[p] = fechos[p] + (IF playerSockets[p] THEN 1 ELSE 0)
        /\ ~playerSockets'[p] /\ pcListener'[p] = pcListener[p]
    BY <1>0, <2>1
  <2>3. Conexao(p) /\ Terminou(pcListener[p])
    BY <1>1 DEF Conexoes
  <2>4. CASE playerSockets[p]
    <3>1. Ligado(p)
      BY <2>3, <2>4 DEF Conexao, SemConexao, Aceitando, Fechando, Fechado, Terminou
    <3>2. Fechado(p)'
      BY <1>0, <2>2, <2>4, <3>1 DEF Ligado, Fechado
    <3> QED
      BY <1>0, <1>1, <2>2, <2>3, <2>4, <3>1, <3>2
      DEF Conexao, Ligado, AntesDe, Guardando, DepoisDe, Terminou
  <2>5. CASE ~playerSockets[p]
    <3>1. SemConexao(p) \/ Fechado(p)
      BY <1>1, <2>3, <2>5 DEF Conexao, Aceitando, Ligado, Fechando, Terminou, Guardando
    <3>2. soquete'[p] = soquete[p] /\ fechos'[p] = fechos[p]
      BY <2>1, <2>2, <2>5
    <3>3. SemConexao(p)' \/ Fechado(p)'
      BY <1>0, <2>2, <3>1, <3>2 DEF SemConexao, Fechado
    <3> QED
      BY <1>0, <1>1, <2>2, <2>3, <2>5, <3>2, <3>3
      DEF Conexao, AntesDe, Guardando, DepoisDe, Terminou
  <2> QED  BY <2>4, <2>5
<1>5. (Escuta \in abertos <=> serverSocket) /\ Escuta \in Sockets /\ fechos[Escuta] \in Nat
  BY <1>0, OsSockets
<1>6. /\ soquete'[Escuta] = IF serverSocket THEN "fechado" ELSE soquete[Escuta]
      /\ fechos'[Escuta] = fechos[Escuta] + (IF serverSocket THEN 1 ELSE 0)
  BY <1>0, <1>5
<1> HIDE DEF abertos
<1>7. EscutaCoerente'
  BY <1>0, <1>2, <1>6 DEF EscutaCoerente
<1>8. fechos[Escuta] <= Passou("main") + Passou("acceptor")
  BY <1>0 DEF EscutaUmaVez
<1>9. EscutaUmaVez'
  <2>1. CASE serverSocket
    <3>1. \A t \in Solicitantes : pedido[t] = "nenhum"
      BY <1>2, <2>1 DEF EscutaCoerente
    <3>2. fechos[Escuta] = 0
      BY <1>5, <1>8, <3>1 DEF Passou, Solicitantes
    <3>3. fechos'[Escuta] = 1
      BY <1>6, <2>1, <3>2
    <3> QED  BY <1>0, <3>3 DEF EscutaUmaVez
  <2>2. CASE ~serverSocket
    <3>1. fechos'[Escuta] = fechos[Escuta]
      BY <1>5, <1>6, <2>2
    <3>2. Passou("main") \in 0 .. 1 /\ Passou("acceptor") \in 0 .. 1
      BY DEF Passou
    <3>3. (\E t \in Solicitantes : pedido[t] = "nenhum") =>
            Passou("main") = 0 \/ Passou("acceptor") = 0
      BY DEF Passou, Solicitantes
    <3>4. /\ fechos[Escuta] <= 2
          /\ Passou("main") = 0 \/ Passou("acceptor") = 0 => fechos[Escuta] <= 1
      BY <1>5, <1>8, <3>2
    <3> QED  BY <1>0, <3>1, <3>3, <3>4 DEF EscutaUmaVez
  <2> QED  BY <2>1, <2>2
<1> QED  BY <1>3, <1>4, <1>7, <1>9

\* A thread that enters server_request_shutdown has not been in it before.
LEMMA SocketsPede ==
    ASSUME Tipado, InvSockets, NEW t \in Solicitantes, pedido[t] = "nenhum",
           pedido' = pedido \/ PedeEncerramento(t),
           UNCHANGED <<serverSocket, soquete, fechos>>,
           pcMain \notin {"falhou", "fim"}, pcMain' \notin {"server_init", "falhou", "fim"}
    PROVE  EscutaUmaVez' /\ EscutaCoerente'
<1> USE DEF InvSockets
<1>1. \A u \in Solicitantes :
        \/ pedido'[u] = pedido[u]
        \/ pedido[u] = "nenhum" /\ pedido'[u] = "running"
  BY DEF PedeEncerramento, Tipado, TiposDosLugares, Lugares
<1>2. Passou("main")' = Passou("main") /\ Passou("acceptor")' = Passou("acceptor")
  BY <1>1 DEF Passou, Solicitantes
<1>3. EscutaUmaVez'
  BY <1>2 DEF EscutaUmaVez
<1>4. EscutaCoerente'
  BY <1>1 DEF EscutaCoerente
<1> QED  BY <1>3, <1>4

LEMMA SocketsMain ==
    ASSUME Tipado, InvFim, InvSockets, Main \/ Tecla
    PROVE  InvSockets'
<1> USE DEF InvSockets
<1> DEFINE resto == UNCHANGED <<servidorVars, filaVars, pcListener, localVars, redeVars>>
<1>1. CASE RequestShutdown("main") \/ ServerInit \/ ServerShutdown
  BY <1>1, SocketsRequestShutdown, SocketsServerInit, SocketsServerShutdown DEF Solicitantes
<1>2. CASE \/ (CriaAcceptor \/ CriaWorker \/ CriaWriter \/ TestaRunning) /\ resto
           \/ Tecla
  <2>1. /\ UNCHANGED <<serverSocket, playerSockets, recursos, pcListener, soquete, fechos>>
        /\ pcMain \in {"cria_acceptor", "cria_worker", "cria_writer", "laco", "getchar"}
        /\ pcMain' \in {"cria_worker", "cria_writer", "laco", "getchar", "pede",
                        "espera_acceptor", "libera"}
        /\ \/ pedido' = pedido
           \/ PedeEncerramento("main") /\ pcMain' = "pede"
        /\ \/ pcAcceptor' = pcAcceptor
           \/ pcMain = "cria_acceptor" /\ pcAcceptor' = "accept0"
    BY <1>2 DEF CriaAcceptor, CriaWorker, CriaWriter, TestaRunning, Tecla, servidorVars, redeVars
  <2>2. pedido["main"] = "nenhum" /\ pedido \in [Solicitantes -> LugaresDoPedido]
    BY <2>1 DEF PedidosNoLugar, Tipado, TiposDosLugares, Lugares
  <2>3. pcMain = "cria_acceptor" => pcAcceptor = "nao_criada"
    BY DEF InvFim, ThreadsDeMain
  <2>4. PedidosNoLugar'
    BY <2>1, <2>2, <2>3 DEF PedidosNoLugar, PedeEncerramento, Solicitantes
  <2>5. EscutaUmaVez' /\ EscutaCoerente'
    BY <2>1, <2>2, SocketsPede DEF Solicitantes
  <2>6. Restos'
    BY <2>1 DEF Restos
  <2>7. Conexoes'
    <3> SUFFICES ASSUME NEW p \in Jogadores PROVE Conexao(p)'
      BY DEF Conexoes
    <3>1. Conexao(p)
      BY DEF Conexoes
    <3>2. CASE pcAcceptor' = pcAcceptor
      BY <2>1, <3>1, <3>2, ConexaoParada
    <3>3. CASE pcAcceptor = "nao_criada" /\ pcAcceptor' = "accept0"
      BY <2>1, <3>1, <3>3 DEF Conexao, SemConexao, Aceitando, Ligado, Fechando, Fechado,
         AntesDe, Guardando, DepoisDe
    <3> QED  BY <2>1, <2>3, <3>2, <3>3
  <2> QED  BY <2>4, <2>5, <2>6, <2>7
<1>3. CASE (Pediu \/ EsperaThreads) /\ resto
  <2>1. /\ UNCHANGED <<serverSocket, playerSockets, recursos, pcListener, soquete, fechos,
                       pedido, pcAcceptor>>
        /\ pcMain = "pede" => pedido["main"] = "feito"
        /\ pcMain \notin {"server_init", "falhou", "fim"}
        /\ pcMain' \in {"espera_acceptor", "espera_worker", "espera_writer", "libera"}
    BY <1>3 DEF Pediu, EsperaThreads, servidorVars, redeVars
  <2>2. PedidosNoLugar' /\ Restos'
    BY <2>1 DEF PedidosNoLugar, Restos
  <2>3. EscutaUmaVez' /\ EscutaCoerente'
    BY <2>1 DEF EscutaUmaVez, EscutaCoerente, Passou
  <2>4. Conexoes'
    BY <2>1, ConexaoParada DEF Conexoes
  <2> QED  BY <2>2, <2>3, <2>4
<1> QED  BY <1>1, <1>2, <1>3 DEF Main

\* The places of the acceptor, one by one.
LEMMA OrdemDoAcceptor ==
    /\ AntesDe(0) = {"nao_criada", "accept0"}
    /\ AntesDe(1) = {"nao_criada", "accept0", "guarda0", "testa", "accept1"}
    /\ Guardando(0) = "guarda0" /\ Guardando(1) = "guarda1"
    /\ DepoisDe(0) = {"listener0", "testa", "accept1", "guarda1"}
    /\ DepoisDe(1) = {"listener0", "listener1"}
BY DEF AntesDe, Guardando, DepoisDe

LEMMA SocketsAceita ==
    ASSUME Tipado, InvFim, InvSockets, NEW p \in Jogadores, NEW a, NEW d,
           Aceita(p, a, d),
           \/ p = 0 /\ a = "accept0" /\ d = "guarda0"
           \/ p = 1 /\ a = "accept1" /\ d = "guarda1"
    PROVE  InvSockets'
<1> USE DEF InvSockets
<1>0. /\ soquete \in [Sockets -> {"nenhum", "aberto", "cortado", "fechado"}]
      /\ UNCHANGED <<serverSocket, playerSockets, recursos, pcMain, pcListener, pedido, fechos>>
      /\ pcAcceptor = a
      /\ \/ soquete' = [soquete EXCEPT ![p] = "aberto"] /\ pcAcceptor' = d
         \/ pcAcceptor' = "fim" /\ UNCHANGED soquete
  BY DEF Aceita, Tipado, TiposDaRede, servidorVars
<1>1. soquete'[Escuta] = soquete[Escuta]
  BY <1>0, OsSockets
<1>2. PedidosNoLugar' /\ Restos'
  BY <1>0 DEF PedidosNoLugar, Restos
<1>3. EscutaUmaVez' /\ EscutaCoerente'
  BY <1>0, <1>1 DEF EscutaUmaVez, EscutaCoerente, Passou
<1>4. ASSUME NEW q \in Jogadores
      PROVE  Conexao(q)'
  <2>1. Conexao(q) /\ (q = 0 \/ q = 1) /\ q \in Sockets
    BY OsSockets DEF Conexoes
  <2>2. CASE q = p
    <3>1. SemConexao(q)
      BY <1>0, <2>1, <2>2, OrdemDoAcceptor
      DEF Conexao, SemConexao, Aceitando, Ligado, Fechando, Fechado
    <3>2. SemConexao(q)' \/ (Aceitando(q)' /\ pcAcceptor' = d)
      BY <1>0, <2>1, <2>2, <3>1, OrdemDoAcceptor DEF SemConexao, Aceitando
    <3> QED
      BY <1>0, <2>1, <2>2, <3>1, <3>2, OrdemDoAcceptor DEF Conexao, SemConexao, Aceitando
  <2>3. CASE q # p
    <3>1. soquete'[q] = soquete[q]
      BY <1>0, <2>1, <2>3
    <3> QED
      BY <1>0, <2>1, <2>3, <3>1, OrdemDoAcceptor
      DEF Conexao, SemConexao, Aceitando, Ligado, Fechando, Fechado
  <2> QED  BY <2>2, <2>3
<1> QED  BY <1>2, <1>3, <1>4 DEF Conexoes

LEMMA SocketsGuarda ==
    ASSUME Tipado, InvFim, InvSockets, NEW p \in Jogadores, NEW a, NEW d,
           Guarda(p, a, d),
           \/ p = 0 /\ a = "guarda0" /\ d = "testa"
           \/ p = 1 /\ a = "guarda1" /\ d = "listener0"
    PROVE  InvSockets'
<1> USE DEF InvSockets
<1>0. /\ playerSockets \in [Jogadores -> BOOLEAN]
      /\ UNCHANGED <<serverSocket, recursos, pcMain, pcListener, pedido, soquete, fechos>>
      /\ pcAcceptor = a /\ pcAcceptor' = d
      /\ playerSockets' = [playerSockets EXCEPT ![p] = TRUE]
  BY DEF Guarda, Tipado, TiposDoServidor, redeVars
<1>1. pcMain # "fim"
  BY <1>0 DEF InvFim, ThreadsDeMain, Terminou
<1>2. PedidosNoLugar' /\ Restos'
  BY <1>0 DEF PedidosNoLugar, Restos
<1>3. EscutaUmaVez' /\ EscutaCoerente'
  BY <1>0 DEF EscutaUmaVez, EscutaCoerente, Passou
<1>4. ASSUME NEW q \in Jogadores
      PROVE  Conexao(q)'
  <2>1. Conexao(q) /\ (q = 0 \/ q = 1)
    BY OsSockets DEF Conexoes
  <2>2. CASE q = p
    <3>1. Aceitando(q)
      BY <1>0, <1>1, <2>1, <2>2, OrdemDoAcceptor
      DEF Conexao, SemConexao, Aceitando, Ligado, Fechando, Fechado, InvFim, ListenersDoAcceptor
    <3>2. Ligado(q)'
      BY <1>0, <2>2, <3>1 DEF Aceitando, Ligado
    <3>3. pcAcceptor' # Guardando(q) /\ pcAcceptor' \notin AntesDe(q)
      BY <1>0, <2>1, <2>2, OrdemDoAcceptor
    <3>4. playerSockets'[q] /\ pcListener'[q] = "nao_criada"
      BY <1>0, <2>2, <3>1 DEF Aceitando
    <3> QED  BY <1>0, <1>1, <3>2, <3>3, <3>4 DEF Conexao
  <2>3. CASE q # p
    <3>1. playerSockets'[q] = playerSockets[q]
      BY <1>0, <2>1, <2>3
    <3>2. pcAcceptor' \in DepoisDe(q) => pcAcceptor \in DepoisDe(q)
      BY <1>0, <2>1, <2>3, OrdemDoAcceptor
    <3>3. pcAcceptor' \in AntesDe(q) => pcAcceptor \in AntesDe(q)
      BY <1>0, <2>1, <2>3, OrdemDoAcceptor
    <3>4. pcAcceptor # Guardando(q) /\ pcAcceptor' # Guardando(q)
      BY <1>0, <2>1, <2>3, OrdemDoAcceptor
    <3> QED
      BY <1>0, <1>1, <2>1, <3>1, <3>2, <3>3, <3>4
      DEF Conexao, SemConexao, Aceitando, Ligado, Fechando, Fechado
  <2> QED  BY <2>2, <2>3
<1> QED  BY <1>2, <1>3, <1>4 DEF Conexoes

LEMMA SocketsCriaListener ==
    ASSUME Tipado, InvFim, InvSockets, NEW p \in Jogadores,
           \/ p = 0 /\ pcAcceptor = "listener0" /\ pcAcceptor' = "listener1"
           \/ p = 1 /\ pcAcceptor = "listener1" /\ pcAcceptor' = "sinaliza",
           pcListener' = [pcListener EXCEPT ![p] = "recv"],
           UNCHANGED <<serverSocket, playerSockets, recursos, pcMain, pedido, soquete, fechos>>
    PROVE  InvSockets'
<1> USE DEF InvSockets
<1>0. pcListener \in [Jogadores -> LugaresDoListener]
  BY DEF Tipado, TiposDosLugares, Lugares
<1>1. PedidosNoLugar' /\ Restos'
  BY DEF PedidosNoLugar, Restos
<1>2. EscutaUmaVez' /\ EscutaCoerente'
  BY DEF EscutaUmaVez, EscutaCoerente, Passou
<1>3. ASSUME NEW q \in Jogadores
      PROVE  Conexao(q)'
  <2>1. Conexao(q) /\ (q = 0 \/ q = 1)
    BY OsSockets DEF Conexoes
  <2>2. CASE q = p
    <3>1. Ligado(q)
      BY <2>1, <2>2, OrdemDoAcceptor
      DEF Conexao, SemConexao, Aceitando, Ligado, Fechando, Fechado
    <3>2. Ligado(q)'
      BY <1>0, <2>2, <3>1 DEF Ligado
    <3> QED  BY <2>1, <2>2, <3>1, <3>2, OrdemDoAcceptor DEF Conexao, Ligado
  <2>3. CASE q # p
    <3>1. pcListener'[q] = pcListener[q]
      BY <1>0, <2>1, <2>3
    <3> QED
      BY <2>1, <2>3, <3>1, OrdemDoAcceptor
      DEF Conexao, SemConexao, Aceitando, Ligado, Fechando, Fechado
  <2> QED  BY <2>2, <2>3
<1> QED  BY <1>1, <1>2, <1>3 DEF Conexoes

LEMMA SocketsAcceptor ==
    ASSUME Tipado, InvFim, InvSockets, Acceptor
    PROVE  InvSockets'
<1> USE DEF InvSockets
<1> DEFINE resto == UNCHANGED <<servidorVars, filaVars, pcMain, pcWorker, pcWriter,
                                localVars, redeVars>>
<1>1. CASE RequestShutdown("acceptor")
  BY <1>1, SocketsRequestShutdown DEF Solicitantes
<1>0. 0 \in Jogadores /\ 1 \in Jogadores
  BY OsSockets
<1>2. CASE Aceita(0, "accept0", "guarda0")
  BY <1>0, <1>2, SocketsAceita
<1>3. CASE Aceita(1, "accept1", "guarda1")
  BY <1>0, <1>3, SocketsAceita
<1>4. CASE Guarda(0, "guarda0", "testa")
  BY <1>0, <1>4, SocketsGuarda
<1>5. CASE Guarda(1, "guarda1", "listener0")
  BY <1>0, <1>5, SocketsGuarda
<1>6. CASE CriaListener0 /\ resto /\ pcAcceptor' = "listener1"
  <2>1. /\ pcAcceptor = "listener0" /\ pcListener' = [pcListener EXCEPT ![0] = "recv"]
        /\ UNCHANGED <<serverSocket, playerSockets, recursos, pcMain, pedido, soquete, fechos>>
    BY <1>6 DEF CriaListener0, servidorVars, redeVars
  <2> QED  BY <1>0, <1>6, <2>1, SocketsCriaListener
<1>7. CASE CriaListener1 /\ resto /\ pcAcceptor' = "sinaliza"
  <2>1. /\ pcAcceptor = "listener1" /\ pcListener' = [pcListener EXCEPT ![1] = "recv"]
        /\ UNCHANGED <<serverSocket, playerSockets, recursos, pcMain, pedido, soquete, fechos>>
    BY <1>7 DEF CriaListener1, servidorVars, redeVars
  <2> QED  BY <1>0, <1>7, <2>1, SocketsCriaListener
\* What is left changes the place of the acceptor, and asks for a shutdown at most.
<1>8. CASE \/ /\ TestaAceitacao \/ EsperaListeners \/ CriaListener0 \/ CriaListener1
              /\ resto /\ pcAcceptor' \notin {"listener1", "sinaliza"}
           \/ SinalizaInicio
  <2>1. /\ UNCHANGED <<serverSocket, playerSockets, recursos, pcMain, pcListener, soquete,
                       fechos>>
        /\ \/ UNCHANGED pedido /\ pcAcceptor = "testa" /\ pcAcceptor' = "accept1"
           \/ /\ UNCHANGED pedido /\ pcAcceptor' = "fim"
              /\ pcAcceptor \in {"testa", "listener0", "pede", "espera_listeners"}
              /\ pcAcceptor = "pede" => pedido["acceptor"] = "feito"
           \/ UNCHANGED pedido /\ pcAcceptor = "sinaliza" /\ pcAcceptor' = "espera_listeners"
           \/ /\ PedeEncerramento("acceptor")
              /\ pcAcceptor = "listener1" /\ pcAcceptor' = "pede"
    BY <1>8 DEF TestaAceitacao, EsperaListeners, CriaListener0, CriaListener1, SinalizaInicio,
       servidorVars, redeVars
  <2>2. pcMain \notin {"server_init", "falhou", "fim"}
    BY <2>1 DEF InvFim, ThreadsDeMain, Terminou
  <2>3. pedido \in [Solicitantes -> LugaresDoPedido]
    BY DEF Tipado, TiposDosLugares, Lugares
  <2>4. PedidosNoLugar'
    BY <2>1, <2>3 DEF PedidosNoLugar, PedeEncerramento, Solicitantes
  <2>5. Restos'
    BY <2>1 DEF Restos
  <2>6. EscutaUmaVez' /\ EscutaCoerente'
    <3>1. CASE UNCHANGED pedido
      BY <2>1, <3>1 DEF EscutaUmaVez, EscutaCoerente, Passou
    <3>2. CASE PedeEncerramento("acceptor") /\ pcAcceptor = "listener1"
      <4>1. pedido["acceptor"] = "nenhum"
        BY <3>2 DEF PedidosNoLugar
      <4> QED  BY <2>1, <2>2, <3>2, <4>1, SocketsPede DEF Solicitantes
    <3> QED  BY <2>1, <3>1, <3>2
  <2>7. ASSUME NEW q \in Jogadores
        PROVE  Conexao(q)'
    <3>1. Conexao(q) /\ (q = 0 \/ q = 1)
      BY OsSockets DEF Conexoes
    <3> QED
      BY <2>1, <3>1, OrdemDoAcceptor
      DEF Conexao, SemConexao, Aceitando, Ligado, Fechando, Fechado
  <2> QED  BY <2>4, <2>5, <2>6, <2>7 DEF Conexoes
<1>9. CASE (TestaAceitacao \/ CriaListener0 \/ CriaListener1 \/ EsperaListeners) /\ resto
  <2>1. CASE pcAcceptor' = "listener1"
    BY <1>6, <1>9, <2>1 DEF TestaAceitacao, CriaListener1, EsperaListeners
  <2>2. CASE pcAcceptor' = "sinaliza"
    BY <1>7, <1>9, <2>2 DEF TestaAceitacao, CriaListener0, EsperaListeners
  <2>3. CASE pcAcceptor' \notin {"listener1", "sinaliza"}
    BY <1>8, <1>9, <2>3
  <2> QED  BY <1>9, <2>1, <2>2, <2>3
<1> QED  BY <1>1, <1>2, <1>3, <1>4, <1>5, <1>8, <1>9 DEF Acceptor

LEMMA SocketsListener ==
    ASSUME Tipado, InvFim, InvSockets, NEW p \in Jogadores, Listener(p)
    PROVE  InvSockets'
<1> USE DEF InvSockets
<1>0. /\ soquete \in [Sockets -> {"nenhum", "aberto", "cortado", "fechado"}]
      /\ fechos \in [Sockets -> Nat] /\ playerSockets \in [Jogadores -> BOOLEAN]
      /\ pcListener \in [Jogadores -> LugaresDoListener]
      /\ UNCHANGED <<pcMain, pcAcceptor, pedido>>
  BY DEF Listener, Tipado, TiposDoServidor, TiposDosLugares, Lugares, TiposDaRede
<1>1. /\ UNCHANGED <<serverSocket, recursos>> /\ pcListener[p] # "nao_criada"
      /\ \/ /\ UNCHANGED <<playerSockets, soquete, fechos>>
            /\ pcListener[p] \in {"recv", "push"}
            /\ \E l \in {"recv", "push", "fecha"} : pcListener' = [pcListener EXCEPT ![p] = l]
         \/ /\ UNCHANGED playerSockets /\ pcListener[p] = "fecha"
            /\ soquete' = [soquete EXCEPT ![p] = "fechado"]
            /\ fechos' = [fechos EXCEPT ![p] = @ + 1]
            /\ pcListener' = [pcListener EXCEPT ![p] = "esquece"]
         \/ /\ UNCHANGED <<soquete, fechos>> /\ pcListener[p] = "esquece"
            /\ playerSockets' = [playerSockets EXCEPT ![p] = FALSE]
            /\ pcListener' = [pcListener EXCEPT ![p] = "fim"]
  BY DEF Listener, Recebe, RecvTermina, PushRequest, FechaConexao, EsqueceConexao, servidorVars
<1>2. pcMain # "fim"
  <2>1. ~Terminou(pcListener[p])
    BY <1>1 DEF Terminou
  <2> QED  BY <2>1 DEF InvFim, ThreadsDeMain, ListenersDoAcceptor, Terminou
<1>3. pcAcceptor \notin AntesDe(p) /\ pcAcceptor # Guardando(p) /\ pcAcceptor \notin DepoisDe(p)
  <2>1. CASE p = 0
    BY <1>1, <2>1, OrdemDoAcceptor DEF Conexoes, Conexao, InvFim, ListenersDoAcceptor
  <2>2. CASE p = 1
    BY <1>1, <2>2, OrdemDoAcceptor DEF Conexoes, Conexao, InvFim, ListenersDoAcceptor
  <2> QED  BY <2>1, <2>2, OsSockets
<1>4. soquete'[Escuta] = soquete[Escuta] /\ fechos'[Escuta] = fechos[Escuta]
  BY <1>0, <1>1, OsSockets
<1>5. PedidosNoLugar' /\ Restos'
  BY <1>0, <1>1 DEF PedidosNoLugar, Restos
<1>6. EscutaUmaVez' /\ EscutaCoerente'
  BY <1>0, <1>1, <1>4 DEF EscutaUmaVez, EscutaCoerente, Passou
<1>7. ASSUME NEW q \in Jogadores
      PROVE  Conexao(q)'
  <2>1. Conexao(q) /\ q \in Sockets
    BY OsSockets DEF Conexoes
  <2>2. CASE q # p
    <3>1. /\ soquete'[q] = soquete[q] /\ fechos'[q] = fechos[q]
          /\ playerSockets'[q] = playerSockets[q] /\ pcListener'[q] = pcListener[q]
      BY <1>0, <1>1, <2>1, <2>2
    <3> QED  BY <1>0, <2>1, <3>1, ConexaoParada
  <2>3. CASE q = p /\ pcListener[p] \in {"recv", "push"}
    <3>1. Ligado(q)
      BY <1>2, <2>1, <2>3 DEF Conexao, SemConexao, Aceitando, Ligado, Fechando, Fechado
    <3>2. Ligado(q)'
      BY <1>0, <1>1, <2>3, <3>1 DEF Ligado
    <3> QED  BY <1>0, <1>2, <1>3, <2>3, <3>2 DEF Conexao
  <2>4. CASE q = p /\ pcListener[p] = "fecha"
    <3>1. Ligado(q)
      BY <1>2, <2>1, <2>4 DEF Conexao, SemConexao, Aceitando, Ligado, Fechando, Fechado
    <3>2. Fechando(q)'
      BY <1>0, <1>1, <2>1, <2>4, <3>1 DEF Ligado, Fechando
    <3> QED  BY <1>0, <1>2, <1>3, <2>4, <3>2 DEF Conexao
  <2>5. CASE q = p /\ pcListener[p] = "esquece"
    <3>1. Fechando(q)
      BY <1>2, <2>1, <2>5 DEF Conexao, SemConexao, Aceitando, Ligado, Fechando, Fechado
    <3>2. Fechado(q)'
      BY <1>0, <1>1, <2>5, <3>1 DEF Fechando, Fechado
    <3> QED  BY <1>0, <1>2, <1>3, <2>5, <3>2 DEF Conexao
  <2> QED  BY <1>1, <2>2, <2>3, <2>4, <2>5
<1> QED  BY <1>5, <1>6, <1>7 DEF Conexoes

LEMMA SocketsPasso == Tipado /\ InvFim /\ InvSockets /\ [Next]_vars => InvSockets'
<1> SUFFICES ASSUME Tipado, InvFim, InvSockets, [Next]_vars PROVE InvSockets'
  OBVIOUS
<1>1. CASE Worker \/ Writer \/ Entrega
  BY <1>1, SocketsParados DEF Worker, Writer, Entrega, OutrosDoWriter, servidorVars, redeVars
<1>2. ASSUME NEW p \in Jogadores, Cliente(p) PROVE InvSockets'
  BY <1>2, SocketsParados DEF Cliente, servidorVars, pcVars
<1>3. CASE UNCHANGED vars
  BY <1>3, SocketsParados DEF vars, servidorVars, pcVars, redeVars
<1> QED
  BY <1>1, <1>2, <1>3, SocketsMain, SocketsAcceptor, SocketsListener DEF Next

-----------------------------------------------------------------------------
(* All of it together is inductive.                                           *)

InvServidor == InvInicio /\ InvFim /\ Tipado /\ InvSockets

LEMMA Invariancia == Spec => []InvServidor
<1>1. Init => InvServidor
  BY InicioInicial, FimInicial, TipadoNoInicio, SocketsNoInicio DEF InvServidor
<1>2. InvServidor /\ [Next]_vars => InvServidor'
  <2>1. InvInicio' => Lugares'
    BY DEF InvInicio
  <2> QED  BY <2>1, InicioPasso, FimPasso, TipadoPasso, SocketsPasso DEF InvServidor
<1> QED  BY <1>1, <1>2, PTL DEF Spec

\* The bounds on the closings of a socket.
LEMMA FechosContados ==
    ASSUME InvServidor
    PROVE  /\ \A p \in Jogadores : fechos[p] \in 0 .. 1
           /\ fechos[Escuta] \in 0 .. 2
           /\ (\E t \in Solicitantes : pedido[t] = "nenhum") => fechos[Escuta] <= 1
<1>1. \A p \in Jogadores : fechos[p] \in 0 .. 1
  BY DEF InvServidor, InvSockets, Conexoes, Conexao, SemConexao, Aceitando, Ligado, Fechando,
     Fechado
<1>2. fechos[Escuta] \in Nat
  BY OsSockets DEF InvServidor, Tipado, TiposDaRede
<1>3. Passou("main") \in 0 .. 1 /\ Passou("acceptor") \in 0 .. 1
  BY DEF Passou
<1>4. (\E t \in Solicitantes : pedido[t] = "nenhum") =>
        Passou("main") = 0 \/ Passou("acceptor") = 0
  BY DEF Passou, Solicitantes
<1>5. CASE pcMain \in {"falhou", "fim"}
  BY <1>1, <1>2, <1>5 DEF InvServidor, InvSockets, EscutaUmaVez
<1>6. CASE pcMain \notin {"falhou", "fim"}
  <2>1. fechos[Escuta] <= Passou("main") + Passou("acceptor")
    BY <1>6 DEF InvServidor, InvSockets, EscutaUmaVez
  <2>2. /\ fechos[Escuta] <= 2
        /\ Passou("main") = 0 \/ Passou("acceptor") = 0 => fechos[Escuta] <= 1
    BY <1>2, <1>3, <2>1
  <2> QED  BY <1>1, <1>2, <1>4, <2>2
<1> QED  BY <1>5, <1>6

(* Every variable of the server has its type: no index, queue or place of a   *)
(* thread leaves its range, for every capacity and number of requests.        *)
THEOREM TiposDoProcesso == Spec => []TypeOK
<1>1. ASSUME InvServidor
      PROVE  TypeOK
  <2>1. fechos \in [Sockets -> Nat] /\ \A s \in Sockets : fechos[s] \in 0 .. 2
    <3>1. \A p \in Jogadores : fechos[p] \in 0 .. 2
      BY <1>1, FechosContados
    <3>2. \A s \in Sockets : s \in Jogadores \/ s = Escuta
      BY OsSockets
    <3>3. fechos \in [Sockets -> Nat]
      BY <1>1 DEF InvServidor, Tipado, TiposDaRede
    <3> QED  BY <1>1, <3>1, <3>2, <3>3, FechosContados
  <2>2. fechos \in [Sockets -> 0 .. 2]
    BY <2>1
  <2> QED
    BY <1>1, <2>2
    DEF InvServidor, Tipado, TiposDoServidor, TiposDasFilas, TiposDoWorker, TiposDosLugares,
        TiposDaRede, Lugares, LugaresDoListener, LugaresDoPedido, TypeOK
<1>2. InvServidor => TypeOK
  BY <1>1
<1> QED  BY <1>2, Invariancia, PTL

(* However main ends no socket is open and none is remembered, and what is    *)
(* left of the queues and the event is what a failed start leaves: the exits  *)
(* of server_init, the threads that could not be created, the acceptor that   *)
(* ended between accept and its listeners, and the two at once.               *)
THEOREM NadaFicaAberto == Spec => []SemVazamento
<1>1. ASSUME InvServidor, pcMain \in {"fim", "falhou"}
      PROVE  /\ \A s \in Sockets : soquete[s] \in {"nenhum", "fechado"}
             /\ ~serverSocket /\ \A p \in Jogadores : ~playerSockets[p]
  <2>0. Terminou(pcAcceptor)
        /\ \A p \in Jogadores : Terminou(pcListener[p]) /\ Conexao(p)
    BY <1>1 DEF InvServidor, InvFim, InvSockets, ListenersDoAcceptor, ThreadsDeMain, Terminou,
       Conexoes
  <2>1. ~serverSocket
    BY <1>1 DEF InvServidor, InvSockets, EscutaCoerente
  <2>2. soquete[Escuta] \in {"nenhum", "fechado"}
    BY <1>1, <2>1, OsSockets DEF InvServidor, InvSockets, EscutaCoerente, Tipado, TiposDaRede
  <2>3. ASSUME NEW p \in Jogadores
        PROVE  ~playerSockets[p] /\ soquete[p] \in {"nenhum", "fechado"}
    <3>1. CASE pcMain = "fim"
      BY <2>0, <3>1 DEF Conexao, SemConexao, Aceitando, Ligado, Fechando, Fechado, Terminou,
         Guardando
    <3>2. CASE pcMain = "falhou"
      <4>1. pcAcceptor \in AntesDe(p)
        BY <1>1, <3>2 DEF InvServidor, InvFim, ThreadsDeMain, AntesDe
      <4> QED
        BY <2>0, <4>1 DEF Conexao, SemConexao, Aceitando, Ligado, Fechando, Fechado
    <3> QED  BY <1>1, <3>1, <3>2
  <2> QED  BY <2>1, <2>2, <2>3, OsSockets
<1>2. InvServidor => SemVazamento
  BY <1>1 DEF SemVazamento, InvServidor, InvSockets, Restos
<1> QED  BY <1>2, Invariancia, PTL

(* No socket is closed twice, but for the listening socket when main and the  *)
(* acceptor are both in server_request_shutdown (server.c:134-138 tests it    *)
(* and closes it without a lock); and once a player's socket has been closed  *)
(* the acceptor opens no other, so that the handle the writer has read is not *)
(* somebody else's.                                                           *)
THEOREM CadaUmUmaVez == Spec => []FechadoUmaVez
<1>1. ASSUME InvServidor, NEW p \in Jogadores, fechos[p] > 0
      PROVE  pcAcceptor \notin {"accept0", "guarda0", "testa", "accept1", "guarda1"}
  <2>1. pcListener[p] # "nao_criada" \/ pcMain = "fim"
    BY <1>1 DEF InvServidor, InvSockets, Conexoes, Conexao, SemConexao, Aceitando, Ligado,
       Fechando, Fechado
  <2> QED
    BY <1>1, <2>1 DEF InvServidor, InvFim, ListenersDoAcceptor, ThreadsDeMain, Terminou
<1>2. ASSUME InvServidor
      PROVE  FechadoUmaVez
  <2>1. \A p \in Jogadores : fechos[p] <= 1
    BY <1>2, FechosContados
  <2>2. (\E t \in Solicitantes : pedido[t] = "nenhum") => fechos[Escuta] <= 1
    BY <1>2, FechosContados
  <2> QED  BY <1>1, <1>2, <2>1, <2>2 DEF FechadoUmaVez
<1>3. InvServidor => FechadoUmaVez
  BY <1>2
<1> QED  BY <1>3, Invariancia, PTL

-----------------------------------------------------------------------------
(* After a shutdown nothing is waited for.  The parts of InvEspera: what a    *)
(* caller of server_request_shutdown has closed behind it, where responses    *)
(* can come from, and what a connection is that it has left open.             *)

NaPartida == {"laco", "pop", "envia_um", "envia_todos"}
SemRespostas == pcWorker \notin NaPartida /\ filaRes = << >> /\ destino = Ninguem

FechosNaOrdem ==
    /\ reqFechada => ~running
    /\ \A t \in Solicitantes :
         /\ pedido[t] \notin {"nenhum", "running", "evento"} => evento
         /\ pedido[t] \notin {"nenhum", "running", "evento", "requests"} => reqFechada
         /\ pedido[t] \notin {"nenhum", "running", "evento", "requests", "responses"} =>
              resFechada

DestinoDoWriter == pcWriter \in {"le", "send"} => destino \in Jogadores

RespostasDaPartida == AmbosCriados \/ SemRespostas

\* The acceptor calls it only when it could not create the second listener.
AcceptorPediu == pedido["acceptor"] # "nenhum" => pcListener[1] = "nao_criada"

(* A connection still open behind a caller had not been stored: the first one *)
(* gets no listener, and with the second one no match has begun.              *)
Cortes ==
    \A t \in Solicitantes :
        /\ pedido[t] \in {"corta1", "feito"} /\ soquete[0] = "aberto" =>
             pcListener[0] = "nao_criada" /\ pcAcceptor \in {"guarda0", "testa", "fim"}
        /\ pedido[t] = "feito" /\ soquete[1] = "aberto" => SemRespostas

InvEspera == FechosNaOrdem /\ DestinoDoWriter /\ RespostasDaPartida /\ AcceptorPediu /\ Cortes

LEMMA EsperaNoInicio == Init => InvEspera
BY OsSockets
DEF Init, InvEspera, FechosNaOrdem, DestinoDoWriter, RespostasDaPartida, SemRespostas,
    NaPartida, AcceptorPediu, Cortes, Solicitantes

LEMMA FechosPasso == InvInicio /\ FechosNaOrdem /\ [Next]_vars => FechosNaOrdem'
<1> SUFFICES ASSUME InvInicio, FechosNaOrdem, [Next]_vars PROVE FechosNaOrdem'
  OBVIOUS
<1>0. /\ pedido \in [Solicitantes -> LugaresDoPedido]
      /\ \A t \in Solicitantes : pedido[t] \notin {"nenhum", "running"} => ~running
  BY DEF InvInicio, Lugares, ParadaPrimeiro
<1>1. ASSUME NEW t \in Solicitantes, RequestShutdown(t) PROVE FechosNaOrdem'
  <2>1. CASE MarcaParada(t)
    BY <1>0, <2>1 DEF MarcaParada, filaVars, FechosNaOrdem
  <2>2. CASE SinalizaEvento(t)
    BY <1>0, <2>2 DEF SinalizaEvento, filaVars, FechosNaOrdem
  <2>3. CASE FechaRequests(t)
    BY <1>0, <2>3 DEF FechaRequests, servidorVars, FechosNaOrdem
  <2>4. CASE FechaResponses(t)
    BY <1>0, <2>4 DEF FechaResponses, servidorVars, FechosNaOrdem
  <2>5. CASE TestaEscuta(t)
    BY <1>0, <2>5 DEF TestaEscuta, servidorVars, filaVars, FechosNaOrdem
  <2>6. CASE FechaEscuta(t) \/ EsqueceEscuta(t)
    BY <1>0, <2>6 DEF FechaEscuta, EsqueceEscuta, servidorVars, filaVars, FechosNaOrdem
  <2>7. CASE CortaJogador(t, 0, "corta0", "corta1") \/ CortaJogador(t, 1, "corta1", "feito")
    BY <1>0, <2>7 DEF CortaJogador, servidorVars, filaVars, FechosNaOrdem
  <2> QED  BY <1>1, <2>1, <2>2, <2>3, <2>4, <2>5, <2>6, <2>7 DEF RequestShutdown
<1>2. ASSUME /\ UNCHANGED <<running, reqFechada, resFechada>> /\ (evento => evento')
             /\ \/ UNCHANGED pedido
                \/ \E t \in Solicitantes : PedeEncerramento(t)
      PROVE  FechosNaOrdem'
  BY <1>0, <1>2 DEF PedeEncerramento, FechosNaOrdem
<1>3. CASE ServerInit \/ ServerShutdown \/ Tecla
  BY <1>2, <1>3 DEF ServerInit, ServerShutdown, Tecla, servidorVars, filaVars, Solicitantes
<1>4. CASE /\ CriaAcceptor \/ CriaWorker \/ CriaWriter \/ TestaRunning \/ Pediu \/ EsperaThreads
           /\ UNCHANGED <<servidorVars, filaVars>>
  BY <1>2, <1>4 DEF CriaAcceptor, CriaWorker, CriaWriter, TestaRunning, Pediu, EsperaThreads,
     servidorVars, filaVars, Solicitantes
<1>5. CASE \/ Aceita(0, "accept0", "guarda0") \/ Aceita(1, "accept1", "guarda1")
           \/ Guarda(0, "guarda0", "testa") \/ Guarda(1, "guarda1", "listener0")
           \/ SinalizaInicio
  BY <1>2, <1>5 DEF Aceita, Guarda, SinalizaInicio, servidorVars, filaVars
<1>6. CASE /\ TestaAceitacao \/ CriaListener0 \/ CriaListener1 \/ EsperaListeners
           /\ UNCHANGED <<servidorVars, filaVars>>
  BY <1>2, <1>6 DEF TestaAceitacao, CriaListener0, CriaListener1, EsperaListeners,
     servidorVars, filaVars, Solicitantes
<1>7. ASSUME NEW p \in Jogadores, Listener(p) PROVE FechosNaOrdem'
  BY <1>2, <1>7 DEF Listener, Recebe, RecvTermina, PushRequest, FechaConexao, EsqueceConexao,
     servidorVars, filaVars
<1>8. CASE Worker \/ Writer \/ Entrega
  BY <1>2, <1>8 DEF Worker, Writer, Entrega, OutrosDoWriter, servidorVars
<1>9. CASE (\E p \in Jogadores : Cliente(p)) \/ UNCHANGED vars
  BY <1>2, <1>9 DEF Cliente, vars, servidorVars, filaVars, pcVars
<1> QED
  BY <1>1, <1>3, <1>4, <1>5, <1>6, <1>7, <1>8, <1>9 DEF Next, Main, Acceptor, Solicitantes

LEMMA DestinoPasso == Tipado /\ DestinoDoWriter /\ [Next]_vars => DestinoDoWriter'
<1> SUFFICES ASSUME Tipado, DestinoDoWriter, [Next]_vars PROVE DestinoDoWriter'
  OBVIOUS
<1>1. CASE Writer \/ Entrega
  <2>1. CASE PopResponse
    <3>1. filaRes # << >> => Head(filaRes) \in Jogadores
      BY HeadTailProperties DEF Tipado, TiposDasFilas
    <3> QED  BY <2>1, <3>1 DEF PopResponse, DestinoDoWriter
  <2>2. CASE TestaWriter \/ LeSocket \/ EnvioFalha \/ EnvioChega
    BY <2>2 DEF TestaWriter, LeSocket, EnvioFalha, EnvioChega, Enviou, DestinoDoWriter
  <2> QED  BY <1>1, <2>1, <2>2 DEF Writer, Entrega
<1>2. CASE CriaWriter /\ UNCHANGED <<servidorVars, filaVars, pcListener, localVars, redeVars>>
  BY <1>2 DEF CriaWriter, localVars, DestinoDoWriter
<1>3. ASSUME UNCHANGED <<pcWriter, destino>> PROVE DestinoDoWriter'
  BY <1>3 DEF DestinoDoWriter
<1>4. CASE Main \/ Tecla
  BY <1>2, <1>3, <1>4 DEF Main, Tecla, ServerInit, ServerShutdown, RequestShutdown, CriaAcceptor,
     CriaWorker, TestaRunning, Pediu, EsperaThreads, localVars
<1>5. CASE Acceptor
  BY <1>3, <1>5 DEF Acceptor, Aceita, Guarda, SinalizaInicio, RequestShutdown, localVars
<1>6. CASE Worker
  BY <1>3, <1>6 DEF Worker
<1>7. CASE \E p \in Jogadores : Listener(p) \/ Cliente(p)
  BY <1>3, <1>7 DEF Listener, Cliente, localVars, pcVars
<1>8. CASE UNCHANGED vars
  BY <1>3, <1>8 DEF vars, localVars, pcVars
<1> QED  BY <1>1, <1>4, <1>5, <1>6, <1>7, <1>8 DEF Next

(* Who changes a listener: the acceptor creates it, and then it is its own.   *)
LEMMA ListenersNoPasso ==
    ASSUME Lugares, [Next]_vars
    PROVE  \/ UNCHANGED pcListener
           \/ pcAcceptor = "listener0" /\ pcListener' = [pcListener EXCEPT ![0] = "recv"]
           \/ pcAcceptor = "listener1" /\ pcListener' = [pcListener EXCEPT ![1] = "recv"]
                /\ UNCHANGED pedido
           \/ \E p \in Jogadores : /\ pcListener[p] # "nao_criada"
                                   /\ \E l \in LugaresDoListener \ {"nao_criada"} :
                                        pcListener' = [pcListener EXCEPT ![p] = l]
<1>1. CASE Main \/ Tecla
  BY <1>1 DEF Main, Tecla, ServerInit, ServerShutdown, RequestShutdown
<1>2. CASE Acceptor
  BY <1>2 DEF Acceptor, Aceita, Guarda, SinalizaInicio, RequestShutdown, TestaAceitacao,
     CriaListener0, CriaListener1, EsperaListeners
<1>3. CASE Worker \/ Writer \/ Entrega
  BY <1>3 DEF Worker, Writer, Entrega, OutrosDoWriter
<1>4. ASSUME NEW p \in Jogadores, Listener(p)
      PROVE  /\ pcListener[p] # "nao_criada"
             /\ \E l \in LugaresDoListener \ {"nao_criada"} :
                  pcListener' = [pcListener EXCEPT ![p] = l]
  BY <1>4 DEF Listener, Recebe, RecvTermina, PushRequest, FechaConexao, EsqueceConexao,
     LugaresDoListener
<1>5. CASE (\E p \in Jogadores : Cliente(p)) \/ UNCHANGED vars
  BY <1>5 DEF Cliente, vars, pcVars
<1> QED  BY <1>1, <1>2, <1>3, <1>4, <1>5 DEF Next

\* A listener that exists never again does not.
LEMMA ListenersFicam ==
    ASSUME Lugares, [Next]_vars, NEW p \in Jogadores, pcListener[p] # "nao_criada"
    PROVE  pcListener'[p] # "nao_criada"
BY ListenersNoPasso, OsSockets DEF Lugares

\* There are no responses before the match, and none begins after a stop.
LEMMA SemRespostasFica ==
    ASSUME SemRespostas, [Next]_vars, pcWorker = "testa" => ~running
    PROVE  SemRespostas'
<1> USE DEF SemRespostas, NaPartida
<1>1. CASE Main \/ Tecla
  BY <1>1 DEF Main, Tecla, ServerInit, ServerShutdown, RequestShutdown, CriaAcceptor,
     CriaWorker, CriaWriter, TestaRunning, Pediu, EsperaThreads, localVars, filaVars,
     MarcaParada, SinalizaEvento, FechaRequests, FechaResponses, TestaEscuta, FechaEscuta,
     EsqueceEscuta, CortaJogador
<1>2. CASE Acceptor
  BY <1>2 DEF Acceptor, Aceita, Guarda, SinalizaInicio, RequestShutdown, localVars, filaVars,
     MarcaParada, SinalizaEvento, FechaRequests, FechaResponses, TestaEscuta, FechaEscuta,
     EsqueceEscuta, CortaJogador
<1>3. CASE Worker
  BY <1>3 DEF Worker, EsperaEvento, IniciaPartida, TestaLaco, AtendeRequest, FimDosRequests,
     PushResponse, PushRecusado
<1>4. CASE Writer \/ Entrega
  BY <1>4 DEF Writer, Entrega, TestaWriter, PopResponse, LeSocket, EnvioFalha, EnvioChega,
     Enviou, OutrosDoWriter
<1>5. CASE \E p \in Jogadores : Listener(p)
  BY <1>5 DEF Listener, Recebe, RecvTermina, PushRequest, FechaConexao, EsqueceConexao,
     localVars, filaVars
<1>6. CASE (\E p \in Jogadores : Cliente(p)) \/ UNCHANGED vars
  BY <1>6 DEF Cliente, vars, pcVars, localVars, filaVars
<1> QED  BY <1>1, <1>2, <1>3, <1>4, <1>5, <1>6 DEF Next

LEMMA RespostasPasso == InvInicio /\ RespostasDaPartida /\ [Next]_vars => RespostasDaPartida'
<1> SUFFICES ASSUME InvInicio, RespostasDaPartida, [Next]_vars PROVE RespostasDaPartida'
  OBVIOUS
<1>1. CASE AmbosCriados
  BY <1>1, ListenersFicam DEF InvInicio, AmbosCriados, RespostasDaPartida
<1>2. CASE ~AmbosCriados
  <2>1. SemRespostas /\ (pcWorker = "testa" => ~running)
    BY <1>2 DEF InvInicio, RespostasDaPartida, WorkerViu, EventoJusto
  <2> QED  BY <2>1, SemRespostasFica DEF RespostasDaPartida
<1> QED  BY <1>1, <1>2

\* Who moves a caller of server_request_shutdown, and how it starts.
LEMMA PedidosNoPasso ==
    ASSUME Lugares, [Next]_vars, NEW t \in Solicitantes
    PROVE  \/ pedido'[t] = pedido[t]
           \/ RequestShutdown(t)
           \/ t = "main" /\ pedido'[t] = "running"
           \/ t = "acceptor" /\ pedido'[t] = "running" /\ pcAcceptor = "listener1"
                /\ UNCHANGED pcListener
<1> USE DEF Lugares, Solicitantes, PedeEncerramento
<1>1. ASSUME NEW u \in Solicitantes, RequestShutdown(u), u # t PROVE pedido'[t] = pedido[t]
  BY <1>1 DEF RequestShutdown, MarcaParada, SinalizaEvento, FechaRequests, FechaResponses,
     TestaEscuta, FechaEscuta, EsqueceEscuta, CortaJogador
<1>2. CASE (Main /\ ~RequestShutdown("main")) \/ Tecla
  BY <1>2 DEF Main, Tecla, ServerInit, ServerShutdown, CriaAcceptor, CriaWorker, CriaWriter,
     TestaRunning, Pediu, EsperaThreads
<1>3. CASE Acceptor /\ ~RequestShutdown("acceptor")
  BY <1>3 DEF Acceptor, Aceita, Guarda, SinalizaInicio, TestaAceitacao, CriaListener0,
     CriaListener1, EsperaListeners
<1>4. CASE Worker \/ Writer \/ Entrega
  BY <1>4 DEF Worker, Writer, Entrega, OutrosDoWriter
<1>5. CASE (\E p \in Jogadores : Listener(p) \/ Cliente(p)) \/ UNCHANGED vars
  BY <1>5 DEF Listener, Cliente, vars, pcVars
<1> QED  BY <1>1, <1>2, <1>3, <1>4, <1>5 DEF Next, Main, Acceptor

LEMMA AcceptorPediuPasso ==
    ASSUME Lugares, PedidosNoLugar, Conexoes, AcceptorPediu, [Next]_vars
    PROVE  AcceptorPediu'
<1>1. pedido'["acceptor"] # "nenhum" => pcListener[1] = "nao_criada"
  <2>1. CASE pedido["acceptor"] # "nenhum"
    BY <2>1 DEF AcceptorPediu
  <2>2. CASE pedido["acceptor"] = "nenhum"
    <3>1. ~RequestShutdown("acceptor")
      BY <2>2 DEF RequestShutdown, MarcaParada, SinalizaEvento, FechaRequests, FechaResponses,
         TestaEscuta, FechaEscuta, EsqueceEscuta, CortaJogador
    <3>2. pcAcceptor = "listener1" => pcListener[1] = "nao_criada"
      BY OsSockets DEF Conexoes, Conexao, DepoisDe
    <3> QED  BY <2>2, <3>1, <3>2, PedidosNoPasso DEF Solicitantes
  <2> QED  BY <2>1, <2>2
<1>2. pedido'["acceptor"] # "nenhum" => pcListener'[1] = pcListener[1]
  BY <1>1, ListenersNoPasso, OsSockets DEF PedidosNoLugar, Lugares
<1> QED  BY <1>1, <1>2 DEF AcceptorPediu

\* Only accept opens a connection, and only while the listening socket is open.
LEMMA AbertosNoPasso ==
    ASSUME Tipado, [Next]_vars, soquete[Escuta] # "aberto", NEW p \in Jogadores,
           soquete'[p] = "aberto"
    PROVE  soquete[p] = "aberto"
<1>0. /\ soquete \in [Sockets -> {"nenhum", "aberto", "cortado", "fechado"}]
      /\ p \in Sockets /\ p # Escuta
  BY OsSockets DEF Tipado, TiposDaRede
<1>1. CASE Main \/ Tecla
  BY <1>0, <1>1, OsSockets DEF Main, Tecla, ServerInit, ServerShutdown, RequestShutdown,
     MarcaParada, SinalizaEvento, FechaRequests, FechaResponses, TestaEscuta, FechaEscuta,
     EsqueceEscuta, CortaJogador, redeVars
<1>2. CASE Acceptor
  BY <1>0, <1>2, OsSockets DEF Acceptor, Aceita, Guarda, SinalizaInicio, RequestShutdown,
     MarcaParada, SinalizaEvento, FechaRequests, FechaResponses, TestaEscuta, FechaEscuta,
     EsqueceEscuta, CortaJogador, redeVars
<1>3. CASE Worker \/ Writer \/ Entrega
  BY <1>3 DEF Worker, Writer, Entrega, OutrosDoWriter, redeVars
<1>4. CASE \E q \in Jogadores : Listener(q)
  BY <1>0, <1>4, OsSockets DEF Listener, Recebe, RecvTermina, PushRequest, FechaConexao,
     EsqueceConexao
<1>5. CASE (\E q \in Jogadores : Cliente(q)) \/ UNCHANGED vars
  BY <1>5 DEF Cliente, vars, redeVars
<1> QED  BY <1>1, <1>2, <1>3, <1>4, <1>5 DEF Next

\* Who gets past the loop over playerSockets, and what it leaves open.
LEMMA CorteDeixa ==
    ASSUME Tipado, Conexoes, NEW t \in Solicitantes, RequestShutdown(t)
    PROVE  /\ pedido'[t] = "corta1" /\ pedido[t] # "corta1" /\ soquete'[0] = "aberto" =>
                pcAcceptor = "guarda0" /\ pcListener[0] = "nao_criada"
           /\ pedido'[t] = "feito" => pedido[t] = "corta1"
           /\ pedido'[t] = "feito" /\ soquete'[1] = "aberto" =>
                pcAcceptor = "guarda1" /\ pcListener[1] = "nao_criada"
<1>0. /\ soquete \in [Sockets -> {"nenhum", "aberto", "cortado", "fechado"}]
      /\ pedido \in [Solicitantes -> LugaresDoPedido]
  BY DEF Tipado, TiposDaRede, TiposDosLugares, Lugares
<1>1. ASSUME NEW p \in Jogadores, soquete[p] = "aberto", ~playerSockets[p]
      PROVE  pcAcceptor = Guardando(p) /\ pcListener[p] = "nao_criada"
  BY <1>1 DEF Conexoes, Conexao, SemConexao, Aceitando, Ligado, Fechando, Fechado
<1>2. Guardando(0) = "guarda0" /\ Guardando(1) = "guarda1"
  BY DEF Guardando
<1>3. CASE CortaJogador(t, 0, "corta0", "corta1")
  <2>1. soquete'[0] = "aberto" => soquete[0] = "aberto" /\ ~playerSockets[0]
    BY <1>0, <1>3, OsSockets DEF CortaJogador
  <2> QED  BY <1>0, <1>1, <1>2, <1>3, <2>1, OsSockets DEF CortaJogador
<1>4. CASE CortaJogador(t, 1, "corta1", "feito")
  <2>1. soquete'[1] = "aberto" => soquete[1] = "aberto" /\ ~playerSockets[1]
    BY <1>0, <1>4, OsSockets DEF CortaJogador
  <2> QED  BY <1>0, <1>1, <1>2, <1>4, <2>1, OsSockets DEF CortaJogador
<1>5. CASE pedido'[t] \notin {"corta1", "feito"}
  BY <1>5
<1>6. ~CortaJogador(t, 0, "corta0", "corta1") /\ ~CortaJogador(t, 1, "corta1", "feito") =>
        pedido'[t] \notin {"corta1", "feito"}
  <2>1. MarcaParada(t) \/ SinalizaEvento(t) => pedido'[t] \notin {"corta1", "feito"}
    BY <1>0 DEF MarcaParada, SinalizaEvento
  <2>2. FechaRequests(t) \/ FechaResponses(t) => pedido'[t] \notin {"corta1", "feito"}
    BY <1>0 DEF FechaRequests, FechaResponses
  <2>3. TestaEscuta(t) => pedido'[t] \notin {"corta1", "feito"}
    BY <1>0 DEF TestaEscuta
  <2>4. FechaEscuta(t) \/ EsqueceEscuta(t) => pedido'[t] \notin {"corta1", "feito"}
    BY <1>0 DEF FechaEscuta, EsqueceEscuta
  <2> QED  BY <2>1, <2>2, <2>3, <2>4 DEF RequestShutdown
<1> QED  BY <1>3, <1>4, <1>5, <1>6

\* The acceptor on its way from the first connection, once running is clear.
LEMMA AcceptorDesiste ==
    ASSUME ThreadsDeMain, [Next]_vars, ~running, pcAcceptor \in {"guarda0", "testa", "fim"}
    PROVE  pcAcceptor' \in {"guarda0", "testa", "fim"}
<1>1. CASE Main \/ Tecla
  BY <1>1 DEF Main, Tecla, ServerInit, ServerShutdown, RequestShutdown, CriaAcceptor,
     CriaWorker, CriaWriter, TestaRunning, Pediu, EsperaThreads, ThreadsDeMain
<1>2. CASE Acceptor
  BY <1>2 DEF Acceptor, Aceita, Guarda, SinalizaInicio, RequestShutdown, TestaAceitacao,
     CriaListener0, CriaListener1, EsperaListeners
<1>3. CASE Worker \/ Writer \/ Entrega
  BY <1>3 DEF Worker, Writer, Entrega, OutrosDoWriter
<1>4. CASE (\E p \in Jogadores : Listener(p) \/ Cliente(p)) \/ UNCHANGED vars
  BY <1>4 DEF Listener, Cliente, vars, pcVars
<1> QED  BY <1>1, <1>2, <1>3, <1>4 DEF Next

LEMMA CortesPasso ==
    ASSUME Tipado, InvInicio, InvFim, InvSockets, RespostasDaPartida, Cortes, [Next]_vars
    PROVE  Cortes'
<1>0. /\ Lugares /\ Conexoes /\ 0 \in Jogadores /\ 1 \in Jogadores
      /\ \A t \in Solicitantes : pedido[t] \notin {"nenhum", "running"} => ~running
  BY OsSockets DEF InvInicio, InvSockets, ParadaPrimeiro
<1> SUFFICES ASSUME NEW t \in Solicitantes
             PROVE  /\ pedido'[t] \in {"corta1", "feito"} /\ soquete'[0] = "aberto" =>
                         /\ pcListener'[0] = "nao_criada"
                         /\ pcAcceptor' \in {"guarda0", "testa", "fim"}
                    /\ pedido'[t] = "feito" /\ soquete'[1] = "aberto" => SemRespostas'
  BY DEF Cortes
<1>1. pedido[t] \in {"corta1", "feito"} => soquete[Escuta] # "aberto" /\ ~running
  BY <1>0 DEF InvSockets, EscutaCoerente
<1>2. \/ pedido'[t] = pedido[t] \/ pedido'[t] = "running" \/ RequestShutdown(t)
  BY <1>0, PedidosNoPasso
\* The first connection.
<1>3. ASSUME pedido'[t] \in {"corta1", "feito"}, soquete'[0] = "aberto"
      PROVE  pcListener'[0] = "nao_criada" /\ pcAcceptor' \in {"guarda0", "testa", "fim"}
  <2>1. CASE pedido[t] \in {"corta1", "feito"}
    <3>1. soquete[0] = "aberto"
      BY <1>0, <1>1, <1>3, <2>1, AbertosNoPasso
    <3>2. pcListener[0] = "nao_criada" /\ pcAcceptor \in {"guarda0", "testa", "fim"}
      BY <2>1, <3>1 DEF Cortes
    <3>3. pcListener'[0] = "nao_criada"
      BY <1>0, <3>2, ListenersNoPasso, OsSockets DEF Lugares
    <3> QED  BY <1>1, <2>1, <3>2, <3>3, AcceptorDesiste DEF InvFim
  <2>2. CASE pedido[t] \notin {"corta1", "feito"}
    <3>1. RequestShutdown(t) /\ pedido'[t] = "corta1"
      BY <1>0, <1>2, <1>3, <2>2, CorteDeixa
    <3>2. pcAcceptor = "guarda0" /\ pcListener[0] = "nao_criada"
      BY <1>0, <1>3, <2>2, <3>1, CorteDeixa
    <3> QED  BY <3>1, <3>2 DEF RequestShutdown, CortaJogador, Solicitantes
  <2> QED  BY <2>1, <2>2
\* The second connection.
<1>4. ASSUME pedido'[t] = "feito", soquete'[1] = "aberto"
      PROVE  SemRespostas'
  <2>1. pedido[t] \in {"corta1", "feito"} /\ ~running
    BY <1>0, <1>1, <1>2, <1>4, CorteDeixa
  <2>2. CASE pedido[t] = "feito"
    <3>1. soquete[1] = "aberto"
      BY <1>0, <1>1, <1>4, <2>2, AbertosNoPasso
    <3> QED  BY <2>1, <2>2, <3>1, SemRespostasFica DEF Cortes
  <2>3. CASE pedido[t] = "corta1"
    <3>1. pcListener[1] = "nao_criada"
      BY <1>0, <1>2, <1>4, <2>3, CorteDeixa
    <3> QED
      BY <1>0, <2>1, <3>1, SemRespostasFica DEF RespostasDaPartida, AmbosCriados
  <2> QED  BY <2>1, <2>2, <2>3
<1> QED  BY <1>3, <1>4

LEMMA InvEsperaSempre == Spec => []InvEspera
<1>1. InvServidor /\ InvEspera /\ [Next]_vars => InvEspera'
  BY FechosPasso, DestinoPasso, RespostasPasso, AcceptorPediuPasso, CortesPasso
  DEF InvServidor, InvEspera, InvInicio, InvSockets
<1> QED  BY <1>1, EsperaNoInicio, Invariancia, PTL DEF Spec

(* When either caller of server_request_shutdown (server.c:112-155) has come  *)
(* to its end, no thread waits for a connection, a request, a place in a      *)
(* queue, a response, the event or a client any more, but for the listener of *)
(* a second player accepted behind main's back; only joins are left.          *)
THEOREM SoRestamJoins == Spec => []NadaMaisSeEspera
<1>1. ASSUME InvServidor, InvEspera, NEW t \in Solicitantes, pedido[t] = "feito"
      PROVE  /\ ~EsperaConexao /\ ~EsperaInicio /\ ~EsperaRequest
             /\ ~EsperaLugarNasRespostas /\ ~EsperaResponse /\ ~EsperaClienteNoSend
             /\ \A p \in Jogadores :
                   /\ ~EsperaLugarNaFila(p)
                   /\ EsperaClienteNoRecv(p) => p = 1 /\ pedido["acceptor"] = "nenhum"
  <2>1. evento /\ reqFechada /\ resFechada
    BY <1>1 DEF InvEspera, FechosNaOrdem
  <2>2. soquete[Escuta] # "aberto"
    BY <1>1 DEF InvServidor, InvSockets, EscutaCoerente
  <2>3. soquete[0] = "aberto" => pcListener[0] = "nao_criada" /\ SemRespostas
    BY <1>1, OsSockets DEF InvEspera, Cortes, RespostasDaPartida, AmbosCriados
  <2>4. soquete[1] = "aberto" => SemRespostas
    BY <1>1 DEF InvEspera, Cortes
  <2>5. ~EsperaClienteNoSend
    BY <1>1, <2>3, <2>4, OsSockets
    DEF InvEspera, DestinoDoWriter, SemRespostas, EsperaClienteNoSend, Ninguem
  <2>6. ASSUME NEW p \in Jogadores, EsperaClienteNoRecv(p)
        PROVE  p = 1 /\ pedido["acceptor"] = "nenhum"
    BY <1>1, <2>3, <2>6, OsSockets DEF EsperaClienteNoRecv, InvEspera, AcceptorPediu
  <2> QED
    BY <2>1, <2>2, <2>5, <2>6
    DEF EsperaConexao, EsperaInicio, EsperaRequest, EsperaLugarNasRespostas, EsperaResponse,
        EsperaLugarNaFila
<1>2. InvServidor /\ InvEspera => NadaMaisSeEspera
  BY <1>1 DEF NadaMaisSeEspera
<1> QED  BY <1>2, Invariancia, InvEsperaSempre, PTL

-----------------------------------------------------------------------------
(* After the request queue is shut down every step leads on: of the ten terms *)
(* of Falta none grows and one falls.                                         *)

FaltasTipadas ==
    /\ FaltaMain \in 0 .. 11 /\ FaltaAcceptor \in 0 .. 10
    /\ FaltaListener(0) \in 0 .. 5 /\ FaltaListener(1) \in 0 .. 5
    /\ FaltaWorker \in 0 .. 10 /\ FaltaWriter \in 0 .. 5
    /\ FaltaPedido("main") \in 0 .. 10 /\ FaltaPedido("acceptor") \in 0 .. 10
    /\ FaltaCliente(0) \in 0 .. 2 /\ FaltaCliente(1) \in 0 .. 2

LEMMA FaltasNosLimites == Tipado => FaltasTipadas
<1> SUFFICES ASSUME Tipado PROVE FaltasTipadas
  OBVIOUS
<1>1. FaltaMain \in 0 .. 11 /\ FaltaAcceptor \in 0 .. 10 /\ FaltaWriter \in 0 .. 5
  BY DEF Tipado, TiposDosLugares, FaltaMain, FaltaAcceptor, FaltaWriter
<1>2. \A p \in Jogadores : FaltaListener(p) \in 0 .. 5
  BY DEF Tipado, TiposDosLugares, Lugares, LugaresDoListener, FaltaListener
<1>3. \A t \in Solicitantes : FaltaPedido(t) \in 0 .. 10
  BY DEF Tipado, TiposDosLugares, Lugares, LugaresDoPedido, FaltaPedido
<1>4. \A p \in Jogadores : FaltaCliente(p) \in 0 .. 2
  BY DEF Tipado, TiposDaRede, FaltaCliente
<1>5. FaltaWorker \in 0 .. 10
  <2>1. PostoDoWorker \in 0 .. 8
    BY DEF Tipado, TiposDosLugares, PostoDoWorker
  <2>2. pendentes \in Seq(Jogadores) /\ Len(pendentes) <= 2
    BY DEF Tipado, TiposDoWorker, MAX_PLAYERS
  <2>3. Len(pendentes) \in Nat
    BY <2>2, LenProperties
  <2>4. FaltaWorker = PostoDoWorker + Len(pendentes)
    BY Zenon DEF FaltaWorker
  <2>5. ASSUME NEW n \in Nat, n <= 2, NEW m \in 0 .. 8 PROVE m + n \in 0 .. 10
    BY <2>5
  <2> QED  BY <2>1, <2>2, <2>3, <2>4, <2>5
<1> QED  BY <1>1, <1>2, <1>3, <1>4, <1>5, OsSockets DEF Solicitantes, FaltasTipadas

\* The terms that a step leaves alone, and the one in which it falls.
Mantem ==
    /\ FaltaMain' <= FaltaMain /\ FaltaAcceptor' <= FaltaAcceptor
    /\ FaltaListener(0)' <= FaltaListener(0) /\ FaltaListener(1)' <= FaltaListener(1)
    /\ FaltaWorker' <= FaltaWorker /\ FaltaWriter' <= FaltaWriter
    /\ FaltaPedido("main")' <= FaltaPedido("main")
    /\ FaltaPedido("acceptor")' <= FaltaPedido("acceptor")
    /\ FaltaCliente(0)' <= FaltaCliente(0) /\ FaltaCliente(1)' <= FaltaCliente(1)
Desce ==
    \/ FaltaMain' < FaltaMain \/ FaltaAcceptor' < FaltaAcceptor
    \/ FaltaListener(0)' < FaltaListener(0) \/ FaltaListener(1)' < FaltaListener(1)
    \/ FaltaWorker' < FaltaWorker \/ FaltaWriter' < FaltaWriter
    \/ FaltaPedido("main")' < FaltaPedido("main")
    \/ FaltaPedido("acceptor")' < FaltaPedido("acceptor")
    \/ FaltaCliente(0)' < FaltaCliente(0) \/ FaltaCliente(1)' < FaltaCliente(1)

LEMMA FaltaDesce ==
    ASSUME Tipado, Tipado', Mantem, Desce
    PROVE  Falta' \in 0 .. Falta - 1
<1>1. /\ FaltaMain \in Nat /\ FaltaAcceptor \in Nat
      /\ FaltaListener(0) \in Nat /\ FaltaListener(1) \in Nat
      /\ FaltaWorker \in Nat /\ FaltaWriter \in Nat
      /\ FaltaPedido("main") \in Nat /\ FaltaPedido("acceptor") \in Nat
      /\ FaltaCliente(0) \in Nat /\ FaltaCliente(1) \in Nat
  BY FaltasNosLimites DEF FaltasTipadas
<1>2. /\ FaltaMain' \in Nat /\ FaltaAcceptor' \in Nat
      /\ FaltaListener(0)' \in Nat /\ FaltaListener(1)' \in Nat
      /\ FaltaWorker' \in Nat /\ FaltaWriter' \in Nat
      /\ FaltaPedido("main")' \in Nat /\ FaltaPedido("acceptor")' \in Nat
      /\ FaltaCliente(0)' \in Nat /\ FaltaCliente(1)' \in Nat
  <2>1. FaltasTipadas'
    BY FaltasNosLimites, PTL
  <2> QED  BY <2>1 DEF FaltasTipadas
<1>3. /\ FaltaMain' <= FaltaMain /\ FaltaAcceptor' <= FaltaAcceptor
      /\ FaltaListener(0)' <= FaltaListener(0) /\ FaltaListener(1)' <= FaltaListener(1)
      /\ FaltaWorker' <= FaltaWorker /\ FaltaWriter' <= FaltaWriter
      /\ FaltaPedido("main")' <= FaltaPedido("main")
      /\ FaltaPedido("acceptor")' <= FaltaPedido("acceptor")
      /\ FaltaCliente(0)' <= FaltaCliente(0) /\ FaltaCliente(1)' <= FaltaCliente(1)
  BY Zenon DEF Mantem
<1>4. \/ FaltaMain' < FaltaMain \/ FaltaAcceptor' < FaltaAcceptor
      \/ FaltaListener(0)' < FaltaListener(0) \/ FaltaListener(1)' < FaltaListener(1)
      \/ FaltaWorker' < FaltaWorker \/ FaltaWriter' < FaltaWriter
      \/ FaltaPedido("main")' < FaltaPedido("main")
      \/ FaltaPedido("acceptor")' < FaltaPedido("acceptor")
      \/ FaltaCliente(0)' < FaltaCliente(0) \/ FaltaCliente(1)' < FaltaCliente(1)
  BY Zenon DEF Desce
<1> QED  BY <1>1, <1>2, <1>3, <1>4 DEF Falta

LEMMA FaltasParadas ==
    ASSUME Tipado
    PROVE  /\ UNCHANGED pcMain => FaltaMain' <= FaltaMain
           /\ UNCHANGED pcAcceptor => FaltaAcceptor' <= FaltaAcceptor
           /\ UNCHANGED pcListener =>
                FaltaListener(0)' <= FaltaListener(0) /\ FaltaListener(1)' <= FaltaListener(1)
           /\ UNCHANGED <<pcWorker, pendentes>> => FaltaWorker' <= FaltaWorker
           /\ UNCHANGED pcWriter => FaltaWriter' <= FaltaWriter
           /\ UNCHANGED pedido => /\ FaltaPedido("main")' <= FaltaPedido("main")
                                  /\ FaltaPedido("acceptor")' <= FaltaPedido("acceptor")
           /\ UNCHANGED cliente =>
                FaltaCliente(0)' <= FaltaCliente(0) /\ FaltaCliente(1)' <= FaltaCliente(1)
<1>1. FaltasTipadas
  BY FaltasNosLimites
<1>2. UNCHANGED pcMain => FaltaMain' = FaltaMain
  BY Zenon DEF FaltaMain
<1>3. UNCHANGED pcAcceptor => FaltaAcceptor' = FaltaAcceptor
  BY Zenon DEF FaltaAcceptor
<1>4. UNCHANGED pcListener =>
        FaltaListener(0)' = FaltaListener(0) /\ FaltaListener(1)' = FaltaListener(1)
  BY Zenon DEF FaltaListener
<1>5. UNCHANGED <<pcWorker, pendentes>> => FaltaWorker' = FaltaWorker
  BY Zenon DEF FaltaWorker, PostoDoWorker
<1>6. UNCHANGED pcWriter => FaltaWriter' = FaltaWriter
  BY Zenon DEF FaltaWriter
<1>7. UNCHANGED pedido => /\ FaltaPedido("main")' = FaltaPedido("main")
                          /\ FaltaPedido("acceptor")' = FaltaPedido("acceptor")
  BY Zenon DEF FaltaPedido
<1>8. UNCHANGED cliente =>
        FaltaCliente(0)' = FaltaCliente(0) /\ FaltaCliente(1)' = FaltaCliente(1)
  BY Zenon DEF FaltaCliente
<1> QED  BY <1>1, <1>2, <1>3, <1>4, <1>5, <1>6, <1>7, <1>8 DEF FaltasTipadas

LEMMA DescePedido ==
    ASSUME Tipado, FaltasTipadas', NEW t \in Solicitantes, RequestShutdown(t)
    PROVE  Mantem /\ Desce
<1>0. pedido \in [Solicitantes -> LugaresDoPedido]
  BY DEF Tipado, TiposDosLugares, Lugares
<1>1. \E a, b \in LugaresDoPedido :
        /\ pedido[t] = a /\ pedido' = [pedido EXCEPT ![t] = b]
        /\ <<a, b>> \in {<<"running", "evento">>, <<"evento", "requests">>,
                         <<"requests", "responses">>, <<"responses", "escuta">>,
                         <<"escuta", "fecha">>, <<"escuta", "corta0">>, <<"fecha", "esquece">>,
                         <<"esquece", "corta0">>, <<"corta0", "corta1">>, <<"corta1", "feito">>}
  <2>1. CASE MarcaParada(t) \/ SinalizaEvento(t)
    BY <2>1 DEF MarcaParada, SinalizaEvento, LugaresDoPedido
  <2>2. CASE FechaRequests(t) \/ FechaResponses(t)
    BY <2>2 DEF FechaRequests, FechaResponses, LugaresDoPedido
  <2>3. CASE TestaEscuta(t)
    BY <2>3 DEF TestaEscuta, LugaresDoPedido
  <2>4. CASE FechaEscuta(t) \/ EsqueceEscuta(t)
    BY <2>4 DEF FechaEscuta, EsqueceEscuta, LugaresDoPedido
  <2>5. CASE CortaJogador(t, 0, "corta0", "corta1") \/ CortaJogador(t, 1, "corta1", "feito")
    BY <2>5 DEF CortaJogador, LugaresDoPedido
  <2> QED  BY <2>1, <2>2, <2>3, <2>4, <2>5 DEF RequestShutdown
<1>2. t = "main" => /\ FaltaPedido("main")' < FaltaPedido("main")
                     /\ FaltaPedido("acceptor")' = FaltaPedido("acceptor")
  BY <1>0, <1>1 DEF FaltaPedido, Solicitantes
<1>3. t = "acceptor" => /\ FaltaPedido("acceptor")' < FaltaPedido("acceptor")
                         /\ FaltaPedido("main")' = FaltaPedido("main")
  BY <1>0, <1>1 DEF FaltaPedido, Solicitantes
<1>4. UNCHANGED <<pcMain, pcAcceptor, pcListener, pcWorker, pcWriter, pendentes, cliente>>
  BY DEF RequestShutdown, localVars
<1>5. FaltasTipadas
  BY FaltasNosLimites
<1>6. /\ FaltaPedido("main")' <= FaltaPedido("main")
      /\ FaltaPedido("acceptor")' <= FaltaPedido("acceptor")
      /\ \/ FaltaPedido("main")' < FaltaPedido("main")
         \/ FaltaPedido("acceptor")' < FaltaPedido("acceptor")
  BY <1>2, <1>3, <1>5 DEF FaltasTipadas, Solicitantes
<1> QED  BY <1>4, <1>6, FaltasParadas DEF Mantem, Desce

LEMMA DesceMain ==
    ASSUME Tipado, FaltasTipadas', PedidosNoLugar, ThreadsDeMain,
           (Main /\ ~RequestShutdown("main")) \/ Tecla
    PROVE  Mantem /\ Desce
<1> DEFINE resto == UNCHANGED <<servidorVars, filaVars, pcListener, localVars, redeVars>>
<1>0. pedido \in [Solicitantes -> LugaresDoPedido] /\ FaltasTipadas
  BY FaltasNosLimites DEF Tipado, TiposDosLugares, Lugares
<1>1. FaltaMain' < FaltaMain
  BY DEF Main, Tecla, ServerInit, ServerShutdown, CriaAcceptor, CriaWorker, CriaWriter,
     TestaRunning, Pediu, EsperaThreads, FaltaMain
<1>2. FaltaAcceptor' <= FaltaAcceptor
  <2>1. CASE CriaAcceptor
    BY <2>1, FaltasParadas DEF CriaAcceptor, ThreadsDeMain, FaltaAcceptor
  <2>2. CASE ~CriaAcceptor
    BY <2>2, FaltasParadas DEF Main, Tecla, ServerInit, ServerShutdown, CriaWorker, CriaWriter,
       TestaRunning, Pediu, EsperaThreads
  <2> QED  BY <2>1, <2>2
<1>3. FaltaWorker' <= FaltaWorker
  <2>1. CASE CriaWorker /\ pcWorker' # pcWorker /\ UNCHANGED localVars
    <3>1. PostoDoWorker = 8 /\ PostoDoWorker' = 7 /\ UNCHANGED pendentes
      BY <2>1 DEF CriaWorker, ThreadsDeMain, PostoDoWorker, localVars
    <3>2. Len(pendentes) \in Nat
      BY LenProperties DEF Tipado, TiposDoWorker
    <3>3. FaltaWorker = PostoDoWorker + Len(pendentes)
      BY Zenon DEF FaltaWorker
    <3>4. FaltaWorker' = PostoDoWorker' + Len(pendentes)
      BY <3>1, Zenon DEF FaltaWorker
    <3> QED  BY <3>1, <3>2, <3>3, <3>4
  <2>2. (CriaWorker /\ pcWorker' # pcWorker /\ UNCHANGED localVars)
          \/ UNCHANGED <<pcWorker, pendentes>>
    BY DEF Main, Tecla, ServerInit, ServerShutdown, CriaAcceptor, CriaWorker, CriaWriter,
       TestaRunning, Pediu, EsperaThreads, localVars
  <2> QED  BY <2>1, <2>2, FaltasParadas
<1>4. FaltaWriter' <= FaltaWriter
  <2>1. CASE CriaWriter
    BY <2>1, FaltasParadas DEF CriaWriter, ThreadsDeMain, FaltaWriter
  <2>2. CASE ~CriaWriter
    BY <2>2, FaltasParadas DEF Main, Tecla, ServerInit, ServerShutdown, CriaAcceptor,
       CriaWorker, TestaRunning, Pediu, EsperaThreads
  <2> QED  BY <2>1, <2>2
<1>5. /\ FaltaPedido("main")' <= FaltaPedido("main")
      /\ FaltaPedido("acceptor")' <= FaltaPedido("acceptor")
  <2>1. \/ UNCHANGED pedido
        \/ /\ pedido["main"] = "nenhum"
           /\ pedido' = [pedido EXCEPT !["main"] = "running"]
    <3>1. CASE CriaWorker \/ CriaWriter \/ Tecla
      BY <3>1 DEF CriaWorker, CriaWriter, Tecla, PedeEncerramento, PedidosNoLugar
    <3>2. CASE ~(CriaWorker \/ CriaWriter \/ Tecla)
      BY <3>2 DEF Main, ServerInit, ServerShutdown, CriaAcceptor, TestaRunning, Pediu,
         EsperaThreads
    <3> QED  BY <3>1, <3>2
  <2>2. ASSUME pedido["main"] = "nenhum", pedido' = [pedido EXCEPT !["main"] = "running"]
        PROVE  /\ FaltaPedido("main")' <= FaltaPedido("main")
               /\ FaltaPedido("acceptor")' = FaltaPedido("acceptor")
    BY <1>0, <2>2 DEF FaltaPedido, Solicitantes
  <2> QED  BY <1>0, <2>1, <2>2, FaltasParadas DEF FaltasTipadas
<1>6. /\ FaltaListener(0)' <= FaltaListener(0) /\ FaltaListener(1)' <= FaltaListener(1)
      /\ FaltaCliente(0)' <= FaltaCliente(0) /\ FaltaCliente(1)' <= FaltaCliente(1)
  <2>1. UNCHANGED <<pcListener, cliente>>
    BY DEF Main, Tecla, ServerInit, ServerShutdown, redeVars
  <2> QED  BY <2>1, FaltasParadas
<1>7. FaltaMain' <= FaltaMain
  BY <1>0, <1>1 DEF FaltasTipadas
<1> QED  BY <1>1, <1>2, <1>3, <1>4, <1>5, <1>6, <1>7 DEF Mantem, Desce

LEMMA DesceAcceptor ==
    ASSUME Tipado, FaltasTipadas', PedidosNoLugar, ListenersDoAcceptor, Conexoes,
           Acceptor, ~RequestShutdown("acceptor")
    PROVE  Mantem /\ Desce
<1>0. /\ pedido \in [Solicitantes -> LugaresDoPedido]
      /\ pcListener \in [Jogadores -> LugaresDoListener]
      /\ FaltasTipadas
  BY FaltasNosLimites DEF Tipado, TiposDosLugares, Lugares
<1>1. FaltaAcceptor' < FaltaAcceptor
  BY DEF Acceptor, Aceita, Guarda, TestaAceitacao, CriaListener0, CriaListener1,
     EsperaListeners, SinalizaInicio, FaltaAcceptor
<1>2. /\ FaltaListener(0)' <= FaltaListener(0)
      /\ FaltaListener(1)' <= FaltaListener(1)
  <2>1. CASE UNCHANGED pcListener
    BY <2>1, FaltasParadas
  <2>2. CASE pcAcceptor = "listener0" /\ pcListener' = [pcListener EXCEPT ![0] = "recv"]
    <3>1. pcListener[0] = "nao_criada"
      BY <2>2, OsSockets DEF ListenersDoAcceptor
    <3>2. FaltaListener(0)' = 4 /\ FaltaListener(0) = 5
      BY <1>0, <2>2, <3>1, OsSockets DEF FaltaListener
    <3>3. FaltaListener(1)' = FaltaListener(1)
      BY <1>0, <2>2, OsSockets DEF FaltaListener
    <3> QED  BY <1>0, <3>2, <3>3 DEF FaltasTipadas
  <2>3. CASE pcAcceptor = "listener1" /\ pcListener' = [pcListener EXCEPT ![1] = "recv"]
    <3>1. pcListener[1] = "nao_criada"
      BY <2>3, OsSockets DEF Conexoes, Conexao, DepoisDe
    <3>2. FaltaListener(1)' = 4 /\ FaltaListener(1) = 5
      BY <1>0, <2>3, <3>1, OsSockets DEF FaltaListener
    <3>3. FaltaListener(0)' = FaltaListener(0)
      BY <1>0, <2>3, OsSockets DEF FaltaListener
    <3> QED  BY <1>0, <3>2, <3>3 DEF FaltasTipadas
  <2> QED
    BY <2>1, <2>2, <2>3 DEF Acceptor, Aceita, Guarda, TestaAceitacao, CriaListener0,
       CriaListener1, EsperaListeners, SinalizaInicio
<1>3. /\ FaltaPedido("main")' <= FaltaPedido("main")
      /\ FaltaPedido("acceptor")' <= FaltaPedido("acceptor")
  <2>1. CASE UNCHANGED pedido
    BY <2>1, FaltasParadas
  <2>2. CASE CriaListener1 /\ PedeEncerramento("acceptor")
    <3>1. /\ pedido["acceptor"] = "nenhum"
          /\ pedido' = [pedido EXCEPT !["acceptor"] = "running"]
      BY <2>2 DEF CriaListener1, PedeEncerramento, PedidosNoLugar
    <3>2. /\ FaltaPedido("acceptor")' <= FaltaPedido("acceptor")
          /\ FaltaPedido("main")' = FaltaPedido("main")
      BY <1>0, <3>1 DEF FaltaPedido, Solicitantes
    <3> QED  BY <1>0, <3>2 DEF FaltasTipadas
  <2> QED
    BY <2>1, <2>2 DEF Acceptor, Aceita, Guarda, TestaAceitacao, CriaListener0,
       CriaListener1, EsperaListeners, SinalizaInicio
<1>4. UNCHANGED <<pcMain, pcWorker, pcWriter, pendentes, cliente>>
  BY DEF Acceptor, Aceita, Guarda, SinalizaInicio, localVars, redeVars
<1>5. /\ FaltaMain' <= FaltaMain /\ FaltaWorker' <= FaltaWorker /\ FaltaWriter' <= FaltaWriter
      /\ FaltaCliente(0)' <= FaltaCliente(0) /\ FaltaCliente(1)' <= FaltaCliente(1)
  BY <1>4, FaltasParadas
<1>6. FaltaAcceptor' <= FaltaAcceptor
  BY <1>0, <1>1 DEF FaltasTipadas
<1> QED  BY <1>1, <1>2, <1>3, <1>5, <1>6 DEF Mantem, Desce

LEMMA DesceListener ==
    ASSUME Tipado, FaltasTipadas', reqFechada, NEW p \in Jogadores, Listener(p)
    PROVE  Mantem /\ Desce
<1>0. pcListener \in [Jogadores -> LugaresDoListener] /\ FaltasTipadas
  BY FaltasNosLimites DEF Tipado, TiposDosLugares, Lugares
<1>1. \E a, b \in LugaresDoListener :
        /\ pcListener[p] = a /\ pcListener' = [pcListener EXCEPT ![p] = b]
        /\ <<a, b>> \in {<<"recv", "push">>, <<"recv", "fecha">>, <<"push", "fecha">>,
                         <<"fecha", "esquece">>, <<"esquece", "fim">>}
  BY DEF Listener, Recebe, RecvTermina, PushRequest, FechaConexao, EsqueceConexao,
     LugaresDoListener
<1>2. p = 0 => FaltaListener(0)' < FaltaListener(0) /\ FaltaListener(1)' = FaltaListener(1)
  BY <1>0, <1>1, OsSockets DEF FaltaListener
<1>3. p = 1 => FaltaListener(1)' < FaltaListener(1) /\ FaltaListener(0)' = FaltaListener(0)
  BY <1>0, <1>1, OsSockets DEF FaltaListener
<1>4. /\ FaltaListener(0)' <= FaltaListener(0) /\ FaltaListener(1)' <= FaltaListener(1)
      /\ FaltaListener(0)' < FaltaListener(0) \/ FaltaListener(1)' < FaltaListener(1)
  BY <1>0, <1>2, <1>3, OsSockets DEF FaltasTipadas
<1>5. UNCHANGED <<pcMain, pcAcceptor, pcWorker, pcWriter, pedido, pendentes, cliente>>
  BY DEF Listener, localVars
<1>6. /\ FaltaMain' <= FaltaMain /\ FaltaAcceptor' <= FaltaAcceptor
      /\ FaltaWorker' <= FaltaWorker /\ FaltaWriter' <= FaltaWriter
      /\ FaltaPedido("main")' <= FaltaPedido("main")
      /\ FaltaPedido("acceptor")' <= FaltaPedido("acceptor")
      /\ FaltaCliente(0)' <= FaltaCliente(0) /\ FaltaCliente(1)' <= FaltaCliente(1)
  BY <1>5, FaltasParadas
<1> QED  BY <1>4, <1>6 DEF Mantem, Desce

LEMMA DesceCliente ==
    ASSUME Tipado, FaltasTipadas', NEW p \in Jogadores, Cliente(p)
    PROVE  Mantem /\ Desce
<1>0. cliente \in [Jogadores -> {"fora", "conectado", "saiu"}] /\ FaltasTipadas
  BY FaltasNosLimites DEF Tipado, TiposDaRede
<1>1. \/ cliente[p] = "fora" /\ cliente' = [cliente EXCEPT ![p] = "conectado"]
      \/ cliente[p] = "conectado" /\ cliente' = [cliente EXCEPT ![p] = "saiu"]
  BY DEF Cliente, ClienteConecta, ClienteSai
<1>2. p = 0 => FaltaCliente(0)' < FaltaCliente(0) /\ FaltaCliente(1)' = FaltaCliente(1)
  BY <1>0, <1>1, OsSockets DEF FaltaCliente
<1>3. p = 1 => FaltaCliente(1)' < FaltaCliente(1) /\ FaltaCliente(0)' = FaltaCliente(0)
  BY <1>0, <1>1, OsSockets DEF FaltaCliente
<1>4. /\ FaltaCliente(0)' <= FaltaCliente(0) /\ FaltaCliente(1)' <= FaltaCliente(1)
      /\ FaltaCliente(0)' < FaltaCliente(0) \/ FaltaCliente(1)' < FaltaCliente(1)
  BY <1>0, <1>2, <1>3, OsSockets DEF FaltasTipadas
<1>5. UNCHANGED <<pcMain, pcAcceptor, pcListener, pcWorker, pcWriter, pedido, pendentes>>
  BY DEF Cliente, pcVars, localVars
<1>6. /\ FaltaMain' <= FaltaMain /\ FaltaAcceptor' <= FaltaAcceptor
      /\ FaltaListener(0)' <= FaltaListener(0) /\ FaltaListener(1)' <= FaltaListener(1)
      /\ FaltaWorker' <= FaltaWorker /\ FaltaWriter' <= FaltaWriter
      /\ FaltaPedido("main")' <= FaltaPedido("main")
      /\ FaltaPedido("acceptor")' <= FaltaPedido("acceptor")
  BY <1>5, FaltasParadas
<1> QED  BY <1>4, <1>6 DEF Mantem, Desce

LEMMA DesceWriter ==
    ASSUME Tipado, FaltasTipadas', ~running, Writer \/ Entrega
    PROVE  Mantem /\ Desce
<1>1. FaltaWriter' < FaltaWriter
  BY DEF Writer, Entrega, TestaWriter, PopResponse, LeSocket, EnvioFalha, EnvioChega, Enviou,
     FaltaWriter
<1>2. FaltaWriter' <= FaltaWriter
  BY <1>1, FaltasNosLimites DEF FaltasTipadas
<1>3. UNCHANGED <<pcMain, pcAcceptor, pcListener, pcWorker, pedido, pendentes, cliente>>
  BY DEF Writer, Entrega, OutrosDoWriter, redeVars
<1>4. /\ FaltaMain' <= FaltaMain /\ FaltaAcceptor' <= FaltaAcceptor
      /\ FaltaListener(0)' <= FaltaListener(0) /\ FaltaListener(1)' <= FaltaListener(1)
      /\ FaltaWorker' <= FaltaWorker
      /\ FaltaPedido("main")' <= FaltaPedido("main")
      /\ FaltaPedido("acceptor")' <= FaltaPedido("acceptor")
      /\ FaltaCliente(0)' <= FaltaCliente(0) /\ FaltaCliente(1)' <= FaltaCliente(1)
  BY <1>3, FaltasParadas
<1> QED  BY <1>1, <1>2, <1>4 DEF Mantem, Desce

LEMMA DesceWorker ==
    ASSUME Tipado, Tipado', FaltasTipadas', ~running, Worker
    PROVE  Mantem /\ Desce
<1>1. pendentes \in Seq(Jogadores) /\ pendentes' \in Seq(Jogadores)
  BY DEF Tipado, TiposDoWorker
<1>2. Len(pendentes) \in Nat /\ Len(pendentes') \in 0 .. 2
  <2>1. Len(pendentes) \in Nat /\ Len(pendentes') \in Nat
    BY <1>1, LenProperties
  <2>2. Len(pendentes') <= 2
    BY DEF Tipado, TiposDoWorker, MAX_PLAYERS
  <2>3. \A n \in Nat : n <= 2 => n \in 0 .. 2
    OBVIOUS
  <2> QED  BY <2>1, <2>2, <2>3
<1>3. FaltaWorker = PostoDoWorker + Len(pendentes)
  BY Zenon DEF FaltaWorker
<1>4. FaltaWorker' = PostoDoWorker' + Len(pendentes')
  BY Zenon DEF FaltaWorker
<1>5. FaltaWorker' < FaltaWorker
  <2>1. CASE EsperaEvento \/ IniciaPartida \/ TestaLaco \/ FimDosRequests
    <3>1. UNCHANGED pendentes
      BY <2>1 DEF EsperaEvento, IniciaPartida, TestaLaco, FimDosRequests
    <3>2. PostoDoWorker' \in Nat /\ PostoDoWorker \in Nat /\ PostoDoWorker' < PostoDoWorker
      BY <2>1 DEF EsperaEvento, IniciaPartida, TestaLaco, FimDosRequests, PostoDoWorker
    <3>3. FaltaWorker' = PostoDoWorker' + Len(pendentes)
      BY <3>1, Zenon DEF FaltaWorker
    <3> QED  BY <1>2, <1>3, <3>2, <3>3
  <2>2. CASE AtendeRequest
    <3>1. PostoDoWorker = 5 /\ PostoDoWorker' \in {1, 2}
      BY <2>2 DEF AtendeRequest, PostoDoWorker
    <3>2. \A n \in 0 .. 2, m \in Nat, k \in {1, 2} : k + n < 5 + m
      OBVIOUS
    <3> QED  BY <1>2, <1>3, <1>4, <3>1, <3>2
  <2>3. CASE PushResponse
    <3>1. PostoDoWorker = 2 /\ PostoDoWorker' \in {1, 2}
      BY <2>3 DEF PushResponse, PostoDoWorker
    <3>2. pendentes # << >> /\ pendentes' = Tail(pendentes)
      BY <2>3 DEF PushResponse
    <3>3. Len(pendentes') = Len(pendentes) - 1
      BY <1>1, <3>2, HeadTailProperties
    <3> QED  BY <1>2, <1>3, <1>4, <3>1, <3>3
  <2>4. CASE PushRecusado
    <3>1. PostoDoWorker = 2 /\ PostoDoWorker' \in {0, 1}
      BY <2>4 DEF PushRecusado, PostoDoWorker
    <3>2. Len(pendentes') = 0
      BY <2>4, EmptySeq DEF PushRecusado
    <3> QED  BY <1>2, <1>3, <1>4, <3>1, <3>2
  <2> QED  BY <2>1, <2>2, <2>3, <2>4 DEF Worker
<1>6. FaltaWorker' <= FaltaWorker
  BY <1>5, FaltasNosLimites DEF FaltasTipadas
<1>7. UNCHANGED <<pcMain, pcAcceptor, pcListener, pcWriter, pedido, cliente>>
  BY DEF Worker, redeVars
<1>8. /\ FaltaMain' <= FaltaMain /\ FaltaAcceptor' <= FaltaAcceptor
      /\ FaltaListener(0)' <= FaltaListener(0) /\ FaltaListener(1)' <= FaltaListener(1)
      /\ FaltaWriter' <= FaltaWriter
      /\ FaltaPedido("main")' <= FaltaPedido("main")
      /\ FaltaPedido("acceptor")' <= FaltaPedido("acceptor")
      /\ FaltaCliente(0)' <= FaltaCliente(0) /\ FaltaCliente(1)' <= FaltaCliente(1)
  BY <1>7, FaltasParadas
<1> QED  BY <1>5, <1>6, <1>8 DEF Mantem, Desce

(* Once the request queue is shut down nobody goes round a loop again: each   *)
(* step of a thread, of a caller of server_request_shutdown or of a client    *)
(* lowers a number of at most 70, whatever the order of the steps and         *)
(* whatever fails (worker.c:187, writer.c:39, listener.c:151, main.c:178).    *)
THEOREM SempreAvanca == Spec => [](Falta \in 0 .. 70) /\ EncerramentoAvanca
<1>1. InvServidor => Falta \in 0 .. 70
  <2> SUFFICES ASSUME InvServidor PROVE Falta \in 0 .. 70
    OBVIOUS
  <2>1. FaltasTipadas
    BY FaltasNosLimites DEF InvServidor
  <2>2. /\ FaltaMain \in Nat /\ FaltaAcceptor \in Nat
        /\ FaltaListener(0) \in Nat /\ FaltaListener(1) \in Nat
        /\ FaltaWorker \in Nat /\ FaltaWriter \in Nat
        /\ FaltaPedido("main") \in Nat /\ FaltaPedido("acceptor") \in Nat
        /\ FaltaCliente(0) \in Nat /\ FaltaCliente(1) \in Nat
    BY <2>1 DEF FaltasTipadas
  <2>3. /\ FaltaMain <= 11 /\ FaltaAcceptor <= 10
        /\ FaltaListener(0) <= 5 /\ FaltaListener(1) <= 5
        /\ FaltaWorker <= 10 /\ FaltaWriter <= 5
        /\ FaltaPedido("main") <= 10 /\ FaltaPedido("acceptor") <= 10
        /\ FaltaCliente(0) <= 2 /\ FaltaCliente(1) <= 2
    BY <2>1 DEF FaltasTipadas
  <2>4. Falta \in Nat
    BY <2>2 DEF Falta
  <2>5. Falta <= 70
    BY <2>2, <2>3 DEF Falta
  <2> QED  BY <2>4, <2>5
<1>2. ASSUME InvServidor, InvServidor', InvEspera, Next, reqFechada
      PROVE  Falta' \in 0 .. Falta - 1
  <2>1. Tipado /\ Tipado' /\ PedidosNoLugar /\ ThreadsDeMain /\ ListenersDoAcceptor /\ Conexoes
    BY <1>2 DEF InvServidor, InvFim, InvSockets
  <2>2. ~running
    BY <1>2 DEF InvEspera, FechosNaOrdem
  <2>3. FaltasTipadas'
    BY <2>1, FaltasNosLimites, PTL
  <2>4. CASE RequestShutdown("main") \/ RequestShutdown("acceptor")
    BY <2>1, <2>3, <2>4, DescePedido, FaltaDesce DEF Solicitantes
  <2>5. CASE (Main /\ ~RequestShutdown("main")) \/ Tecla
    BY <2>1, <2>3, <2>5, DesceMain, FaltaDesce
  <2>6. CASE Acceptor /\ ~RequestShutdown("acceptor")
    BY <2>1, <2>3, <2>6, DesceAcceptor, FaltaDesce
  <2>7. CASE Worker
    BY <2>1, <2>2, <2>3, <2>7, DesceWorker, FaltaDesce
  <2>8. CASE Writer \/ Entrega
    BY <2>1, <2>2, <2>3, <2>8, DesceWriter, FaltaDesce
  <2>9. ASSUME NEW p \in Jogadores, Listener(p) \/ Cliente(p)
        PROVE  Falta' \in 0 .. Falta - 1
    BY <1>2, <2>1, <2>3, <2>9, DesceListener, DesceCliente, FaltaDesce
  <2> QED  BY <1>2, <2>4, <2>5, <2>6, <2>7, <2>8, <2>9 DEF Next
<1>3. InvServidor /\ InvServidor' /\ InvEspera /\ [Next]_vars =>
        [reqFechada => Falta' \in 0 .. Falta - 1]_vars
  BY <1>2
<1> QED  BY <1>1, <1>3, Invariancia, InvEsperaSempre, PTL DEF Spec, EncerramentoAvanca

-----------------------------------------------------------------------------
(* The threads carry out the service of Atendimento.                          *)

Respondendo == {"envia_um", "envia_todos"}

\* The queues are closed in order, and an answer is in hand while it is pushed.
InvServico ==
    /\ resFechada => reqFechada
    /\ pendentes # << >> <=> pcWorker \in Respondendo

LEMMA DoisJogadores == Servico!Todos = <<0, 1>>
BY DEF Servico!Todos, MAX_PLAYERS

LEMMA ServicoInvNoInicio == Init => InvServico
BY DEF Init, InvServico, Respondendo

\* A step that does not touch the service: threads may be created in it.
Fora ==
    /\ UNCHANGED <<running, reqFechada, resFechada, filaReq, filaRes, pendentes, finalizada>>
    /\ \/ UNCHANGED <<pcWorker, pcWriter>>
       \/ pcWorker = "nao_criada" /\ pcWorker' = "espera" /\ UNCHANGED pcWriter
       \/ pcWriter = "nao_criada" /\ pcWriter' = "laco" /\ UNCHANGED pcWorker

LEMMA PassosDoServico ==
    ASSUME ThreadsDeMain, [Next]_vars
    PROVE  \/ Fora
           \/ \E t \in Solicitantes : RequestShutdown(t)
           \/ \E p \in Jogadores : Listener(p) /\ PushRequest(p)
           \/ Worker
           \/ Writer \/ Entrega
<1>1. CASE Main
  <2>1. CASE ServerInit \/ ServerShutdown
    BY <2>1 DEF ServerInit, ServerShutdown, Fora, filaVars, localVars
  <2>2. CASE RequestShutdown("main")
    BY <2>2 DEF Solicitantes
  <2>3. CASE /\ \/ CriaAcceptor \/ CriaWorker \/ CriaWriter
                \/ TestaRunning \/ Pediu \/ EsperaThreads
             /\ UNCHANGED <<servidorVars, filaVars, pcListener, localVars, redeVars>>
    BY <2>3
    DEF CriaAcceptor, CriaWorker, CriaWriter, TestaRunning, Pediu, EsperaThreads, ThreadsDeMain,
        Fora, servidorVars, filaVars, localVars
  <2> QED  BY <1>1, <2>1, <2>2, <2>3 DEF Main
<1>2. CASE Tecla
  BY <1>2 DEF Tecla, Fora, servidorVars, filaVars, localVars
<1>3. CASE Acceptor
  <2>1. CASE RequestShutdown("acceptor")
    BY <2>1 DEF Solicitantes
  <2>2. CASE ~RequestShutdown("acceptor")
    BY <1>3, <2>2
    DEF Acceptor, Aceita, Guarda, SinalizaInicio, Fora, servidorVars, filaVars, localVars
  <2> QED  BY <2>1, <2>2
<1>4. ASSUME NEW p \in Jogadores, Cliente(p) PROVE Fora
  BY <1>4 DEF Cliente, Fora, servidorVars, filaVars, pcVars, localVars
<1>5. ASSUME NEW p \in Jogadores, Listener(p), ~PushRequest(p) PROVE Fora
  BY <1>5
  DEF Listener, Recebe, RecvTermina, FechaConexao, EsqueceConexao, Fora, servidorVars, filaVars,
      localVars
<1>6. CASE UNCHANGED vars
  BY <1>6 DEF vars, Fora, servidorVars, filaVars, pcVars, localVars
<1> QED  BY <1>1, <1>2, <1>3, <1>4, <1>5, <1>6 DEF Next

LEMMA ServicoInvPasso ==
    ASSUME InvServidor, InvEspera, InvServico, [Next]_vars
    PROVE  InvServico'
<1>0. /\ pedido \in [Solicitantes -> LugaresDoPedido]
      /\ \A t \in Solicitantes : pedido[t] = "responses" => reqFechada
      /\ ThreadsDeMain
  BY DEF InvServidor, InvFim, InvEspera, FechosNaOrdem, Tipado, TiposDosLugares, Lugares
<1>1. CASE Fora
  BY <1>1 DEF Fora, InvServico, Respondendo
<1>2. ASSUME NEW t \in Solicitantes, RequestShutdown(t) PROVE InvServico'
  <2>1. UNCHANGED <<pendentes, pcWorker>>
    BY <1>2 DEF RequestShutdown, localVars
  <2>2. (resFechada => reqFechada)'
    BY <1>0, <1>2
    DEF InvServico, RequestShutdown, MarcaParada, SinalizaEvento, FechaRequests, FechaResponses,
        TestaEscuta, FechaEscuta, EsqueceEscuta, CortaJogador, filaVars
  <2> QED  BY <2>1, <2>2 DEF InvServico
<1>3. ASSUME NEW p \in Jogadores, Listener(p), PushRequest(p) PROVE InvServico'
  BY <1>3 DEF Listener, PushRequest, InvServico, localVars
<1>4. CASE Worker
  <2>1. UNCHANGED <<reqFechada, resFechada>>
    BY <1>4 DEF Worker
  <2>2. (pendentes # << >> <=> pcWorker \in Respondendo)'
    <3>1. CASE EsperaEvento \/ IniciaPartida \/ TestaLaco \/ FimDosRequests
      BY <3>1
      DEF InvServico, EsperaEvento, IniciaPartida, TestaLaco, FimDosRequests, Respondendo
    <3>2. CASE AtendeRequest
      <4>1. \/ pcWorker' = "laco" /\ pendentes' = pendentes
            \/ pcWorker' = "envia_um" /\ pendentes' = <<Head(filaReq)>>
            \/ pcWorker' = "envia_todos" /\ pendentes' = <<0, 1>>
        BY <3>2 DEF AtendeRequest
      <4>2. pendentes = << >>
        BY <3>2 DEF InvServico, AtendeRequest, Respondendo
      <4>3. <<Head(filaReq)>> # << >> /\ <<0, 1>> # << >>
        OBVIOUS
      <4> QED  BY <4>1, <4>2, <4>3 DEF Respondendo
    <3>3. CASE PushResponse
      BY <3>3 DEF InvServico, PushResponse, Respondendo
    <3>4. CASE PushRecusado
      BY <3>4 DEF PushRecusado, Respondendo
    <3> QED  BY <1>4, <3>1, <3>2, <3>3, <3>4 DEF Worker
  <2> QED  BY <2>1, <2>2 DEF InvServico
<1>5. CASE Writer \/ Entrega
  BY <1>5 DEF Writer, Entrega, OutrosDoWriter, InvServico
<1> QED  BY <1>0, <1>1, <1>2, <1>3, <1>4, <1>5, PassosDoServico

LEMMA ServicoNoInicio == Init => Servico!Init
<1> SUFFICES ASSUME Init PROVE Servico!Init
  OBVIOUS
<1> QED  BY DEF Init, Servico!Init

LEMMA ServicoPasso ==
    ASSUME InvServidor, InvServidor', InvEspera, InvServico, InvServico', [Next]_vars
    PROVE  [Servico!Next]_(Servico!atendimentoVars)
<1> DEFINE antes == {"nao_criada", "espera", "testa"}
           fase == IF pcWorker \in antes THEN "antes"
                   ELSE IF pcWorker = "fim" THEN "fim" ELSE "partida"
           ainda == {t \in {"worker", "writer"} :
                        running \/ (IF t = "worker" THEN pcWorker ELSE pcWriter) = "pop"}
           filas == <<filaReq, reqFechada, filaRes, resFechada>>
           resto == <<pendentes, finalizada>>
<1>0. /\ running \in BOOLEAN /\ running' \in BOOLEAN
      /\ \A t \in Solicitantes :
           /\ pedido[t] \in {"requests", "responses"} => ~running
           /\ pedido[t] = "responses" => reqFechada
      /\ reqFechada => ~running
      /\ resFechada => reqFechada
      /\ finalizada \in BOOLEAN /\ finalizada' \in BOOLEAN
      /\ pendentes # << >> <=> pcWorker \in Respondendo
      /\ ThreadsDeMain
  BY DEF InvServidor, InvInicio, InvFim, InvEspera, InvServico, ParadaPrimeiro, FechosNaOrdem,
         Tipado, TiposDoServidor, TiposDoWorker
<1>p. ASSUME UNCHANGED <<filas, resto, running, fase, ainda>>
      PROVE  UNCHANGED Servico!atendimentoVars
  BY <1>p DEF Servico!atendimentoVars
<1>1. CASE Fora
  <2>1. UNCHANGED <<filas, resto, running, fase, ainda>>
    BY <1>1 DEF Fora
  <2> QED  BY <1>p, <2>1
<1>2. ASSUME NEW t \in Solicitantes, RequestShutdown(t)
      PROVE  [Servico!Next]_(Servico!atendimentoVars)
  <2>1. UNCHANGED <<filaReq, filaRes, resto, pcWorker, pcWriter>> /\ UNCHANGED fase
    BY <1>2
    DEF RequestShutdown, MarcaParada, SinalizaEvento, FechaRequests, FechaResponses, TestaEscuta,
        FechaEscuta, EsqueceEscuta, CortaJogador, filaVars, localVars
  <2>2. CASE MarcaParada(t) /\ running
    <3>1. UNCHANGED filas /\ ~running'
      BY <2>1, <2>2 DEF MarcaParada, filaVars
    <3>2. ainda' \in SUBSET {"worker", "writer"} /\ ("worker" \in ainda' => pendentes = << >>)
      BY <1>0, <2>1, <3>1 DEF Respondendo
    <3>3. Servico!Para
      BY <2>1, <2>2, <3>1, <3>2 DEF Servico!Para
    <3> QED  BY <3>3 DEF Servico!Next
  <2>3. CASE MarcaParada(t) /\ ~running
    <3>1. UNCHANGED <<filas, running, ainda>>
      BY <1>0, <2>1, <2>3 DEF MarcaParada, filaVars
    <3> QED  BY <1>p, <2>1, <3>1
  <2>4. CASE FechaRequests(t) \/ FechaResponses(t)
    <3>1. ~running /\ UNCHANGED <<running, ainda>>
      BY <1>0, <2>1, <2>4 DEF FechaRequests, FechaResponses, servidorVars
    <3>2. Servico!Fecha
      BY <1>0, <2>1, <2>4, <3>1 DEF Servico!Fecha, FechaRequests, FechaResponses
    <3> QED  BY <3>2 DEF Servico!Next
  <2>5. CASE UNCHANGED <<running, filas>>
    BY <1>p, <2>1, <2>5
  <2> QED
    BY <1>2, <2>2, <2>3, <2>4, <2>5
    DEF RequestShutdown, SinalizaEvento, TestaEscuta, FechaEscuta, EsqueceEscuta, CortaJogador,
        servidorVars, filaVars
<1>3. ASSUME NEW p \in Jogadores, Listener(p), PushRequest(p)
      PROVE  [Servico!Next]_(Servico!atendimentoVars)
  <2>1. UNCHANGED <<reqFechada, filaRes, resFechada, resto, running, fase, ainda>>
    BY <1>3 DEF Listener, PushRequest, servidorVars, localVars
  <2>2. CASE UNCHANGED filaReq
    BY <1>p, <2>1, <2>2
  <2>3. CASE ~reqFechada /\ Len(filaReq) < QUEUE_CAPACITY /\ filaReq' = Append(filaReq, p)
    <3>1. Servico!Chega(p)
      BY <2>1, <2>3 DEF Servico!Chega
    <3> QED  BY <3>1 DEF Servico!Next, Jogadores
  <2> QED  BY <1>3, <2>2, <2>3 DEF PushRequest
<1>4. CASE Worker
  <2>1. UNCHANGED <<reqFechada, resFechada, running, pcWriter>>
    BY <1>4 DEF Worker, servidorVars
  <2>2. CASE EsperaEvento
    <3>1. UNCHANGED <<filaReq, filaRes, resto, fase, ainda>>
      BY <2>1, <2>2 DEF EsperaEvento
    <3> QED  BY <1>p, <2>1, <3>1
  <2>3. CASE IniciaPartida /\ running
    <3>1. UNCHANGED <<filaReq, filaRes, finalizada, ainda>> /\ fase = "antes" /\ fase' = "partida"
      BY <2>1, <2>3 DEF IniciaPartida
    <3>2. pendentes' = <<0, 1>>
      BY <2>3 DEF IniciaPartida
    <3>3. Servico!Comeca
      BY <2>1, <2>3, <3>1, <3>2, DoisJogadores DEF Servico!Comeca
    <3> QED  BY <3>3 DEF Servico!Next
  <2>4. CASE (IniciaPartida \/ TestaLaco \/ FimDosRequests) /\ ~running /\ pcWorker' = "fim"
    <3>1. UNCHANGED <<filaReq, filaRes, resto>> /\ pendentes = << >>
      BY <1>0, <2>4 DEF IniciaPartida, TestaLaco, FimDosRequests, Respondendo
    <3>2. fase' = "fim" /\ ainda' = ainda \ {"worker"}
      BY <2>1, <2>4
    <3>3. Servico!Termina
      BY <2>1, <2>4, <3>1, <3>2 DEF Servico!Termina
    <3> QED  BY <3>3 DEF Servico!Next
  <2>5. CASE TestaLaco /\ running
    <3>1. UNCHANGED <<filaReq, filaRes, resto, fase, ainda>>
      BY <1>0, <2>1, <2>5 DEF TestaLaco
    <3> QED  BY <1>p, <2>1, <3>1
  <2>6. CASE AtendeRequest
    <3>1. /\ fase = "partida" /\ fase' = "partida" /\ pendentes = << >> /\ UNCHANGED filaRes
          /\ filaReq # << >> /\ filaReq' = Tail(filaReq)
      BY <1>0, <2>6 DEF AtendeRequest, Respondendo
    <3>2. "worker" \in ainda /\ ainda' = IF ~running THEN ainda \ {"worker"} ELSE ainda
      BY <2>1, <2>6 DEF AtendeRequest
    <3>3. \/ finalizada /\ UNCHANGED <<pendentes, finalizada>>
          \/ ~finalizada /\ pendentes' = <<Head(filaReq)>> /\ UNCHANGED finalizada
          \/ ~finalizada /\ pendentes' = <<0, 1>> /\ finalizada' \in BOOLEAN
      BY <2>6 DEF AtendeRequest
    <3>4. Servico!Atende
      BY <2>1, <3>1, <3>2, <3>3, DoisJogadores DEF Servico!Atende, Servico!Toma
    <3> QED  BY <3>4 DEF Servico!Next
  <2>7. CASE PushResponse
    <3>1. UNCHANGED <<filaReq, finalizada, fase, ainda>>
      BY <2>1, <2>7 DEF PushResponse
    <3>2. Servico!Responde
      BY <2>1, <2>7, <3>1 DEF Servico!Responde, PushResponse
    <3> QED  BY <3>2 DEF Servico!Next
  <2>8. CASE PushRecusado
    <3>1. /\ UNCHANGED <<filaReq, filaRes, finalizada, ainda>> /\ fase' \in {fase, "fim"}
          /\ resFechada /\ pendentes # << >> /\ pendentes' = << >>
      BY <1>0, <2>1, <2>8 DEF PushRecusado, Respondendo
    <3>2. Servico!Desiste
      BY <2>1, <3>1 DEF Servico!Desiste
    <3> QED  BY <3>2 DEF Servico!Next
  <2> QED
    BY <1>0, <1>4, <2>2, <2>3, <2>4, <2>5, <2>6, <2>7, <2>8
    DEF Worker, IniciaPartida, TestaLaco, FimDosRequests
<1>5. CASE Writer \/ Entrega
  <2>1. UNCHANGED <<filaReq, reqFechada, resFechada, resto, running, pcWorker>> /\ UNCHANGED fase
    BY <1>5 DEF Writer, Entrega, OutrosDoWriter, servidorVars
  <2>2. CASE PopResponse /\ filaRes # << >>
    <3>1. filaRes' = Tail(filaRes) /\ pcWriter = "pop" /\ pcWriter' = "le"
      BY <2>2 DEF PopResponse
    <3>2. "writer" \in ainda /\ ainda' = IF ~running THEN ainda \ {"writer"} ELSE ainda
      BY <2>1, <3>1
    <3>3. Servico!Envia
      BY <2>1, <2>2, <3>1, <3>2 DEF Servico!Envia, Servico!Toma
    <3> QED  BY <3>3 DEF Servico!Next
  <2>3. CASE PopResponse /\ filaRes = << >>
    <3>1. UNCHANGED filaRes /\ ~running /\ pcWriter' = "fim"
      BY <1>0, <2>3 DEF PopResponse
    <3>2. ainda' = ainda \ {"writer"}
      BY <2>1, <3>1
    <3>3. Servico!Termina
      BY <2>1, <2>3, <3>1, <3>2 DEF Servico!Termina
    <3> QED  BY <3>3 DEF Servico!Next
  <2>4. CASE TestaWriter \/ LeSocket \/ EnvioFalha \/ EnvioChega
    <3>1. UNCHANGED filaRes /\ pcWriter # "pop" /\ (running \/ pcWriter' # "pop")
      BY <2>4 DEF TestaWriter, LeSocket, EnvioFalha, EnvioChega, Enviou
    <3>2. UNCHANGED ainda
      BY <1>0, <2>1, <3>1
    <3> QED  BY <1>p, <2>1, <3>1, <3>2
  <2> QED  BY <1>5, <2>2, <2>3, <2>4 DEF Writer, Entrega
<1> QED  BY <1>0, <1>1, <1>2, <1>3, <1>4, <1>5, PassosDoServico

(* However the threads start, fail and end, they carry out the service of     *)
(* Atendimento, from whose point of view a run from the start of the program  *)
(* and a match of UnoMatch are the same thing (worker.c:159-292,              *)
(* writer.c:39-97, queue.c, server.c:106-125).                                *)
THEOREM ServicoDoProcesso == Spec => ImplementaAtendimento
<1>1. InvServidor /\ InvServidor' /\ InvEspera /\ InvServico /\ [Next]_vars => InvServico'
  BY ServicoInvPasso
<1>2. InvServidor /\ InvServidor' /\ InvEspera /\ InvServico /\ InvServico' /\ [Next]_vars =>
        [Servico!Next]_(Servico!atendimentoVars)
  BY ServicoPasso
<1> QED
  BY <1>1, <1>2, Invariancia, InvEsperaSempre, ServicoInvNoInicio, ServicoNoInicio, PTL
  DEF Spec, ImplementaAtendimento, Servico!Spec

=============================================================================
