----------------------------- MODULE MCUnoServer -----------------------------
(* UnoServer with queues of one place and clients that need not read: the     *)
(* pipeline fills up from the writer back to the listeners.                   *)
EXTENDS UnoServer

(* A state that Spec reaches in the middle of a match, with the pipeline full *)
(* behind a client 0 that does not read: the writer is in send to it, the     *)
(* response queue, the worker and the request queue are full behind the       *)
(* writer, the listener of player 1 waits in requestQueuePush, and neither    *)
(* client sends any more.                                                     *)
MCCongestionado ==
    /\ running = TRUE /\ evento = TRUE /\ serverSocket = TRUE
    /\ recursos = Filas \cup {"gameStartedEvent"}
    /\ playerSockets = [p \in Jogadores |-> TRUE]
    /\ filaReq = <<0>> /\ reqFechada = FALSE
    /\ filaRes = <<1>> /\ resFechada = FALSE
    /\ pcMain = "getchar" /\ pcAcceptor = "espera_listeners"
    /\ pcListener = [p \in Jogadores |-> IF p = 0 THEN "recv" ELSE "push"]
    /\ pcWorker = "envia_todos" /\ pcWriter = "send"
    /\ pedido = [t \in Solicitantes |-> "nenhum"]
    /\ pendentes = <<0, 1>> /\ finalizada = FALSE /\ destino = 0
    /\ soquete = [s \in Sockets |-> "aberto"]
    /\ fechos = [s \in Sockets |-> 0]
    /\ cliente = [p \in Jogadores |-> "conectado"]
    /\ recebidos = [p \in Jogadores |-> MaxPedidos]

\* A shutdown from the start of the program on, and one of the congested pipeline.
MCFimSpec == (Init \/ MCCongestionado) /\ [][Next]_vars /\ Justica
=============================================================================
