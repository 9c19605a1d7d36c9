# Terminal UNO: TLA+ specifications and proofs

A TLA+ model of the repository's two programs, the UNO server (`src/UnoServer`)
and its terminal client (`src/UnoClient`), with TLC configurations that check it
on small instances and proofs that TLAPS checks for every size. All paths below
are relative to the repository, as `src/...`; names in `code` are those of the
source, and the modules keep them.

Contents: 1 the system, 2 what is hard in it, 3 the modules, 4 the runs, 5 bounds
and fairness, 6 the proofs, 7 what the checks found, 8 what is not modelled and
the plan.

## 1. The system

Two people play a simplified UNO, each in a terminal client connected by TCP to
one server process, which runs one match and is then stopped with `q`.

```
 client 0 --TCP--> listener 0 --\                            /--TCP--> client 0
                                 > requestQueue -> worker -> responseQueue -> writer
 client 1 --TCP--> listener 1 --/      (rules: game.c)       \--TCP--> client 1

 main: creates acceptor, worker, writer; waits for q; asks for the shutdown; joins
 acceptor: accepts two players, creates the listeners, sets gameStartedEvent, joins them
```

| Component | Code | State | Operations | Correct when |
|---|---|---|---|---|
| Rules engine | `game.c`, `protocol.h` | `Jogo`: deck, hands, table card, turn, round, end | deal, draw, play, next player, playable cards, state for a player | every card in one place; one winner; what is announced is accepted; play follows the rules |
| Queues | `queue.c` | ring buffer, `front`, `rear`, `count`, `shutdown`, a critical section, two condition variables | push, pop, shutdown | bounded FIFO, nothing lost or doubled, no lost wake-up, shutdown frees everybody |
| Worker | `worker.c` | the `Jogo`, the responses still to push | waits for the event, starts the match, answers requests one by one | answers reach both players in order, ends at shutdown |
| Listeners (2) | `listener.c` | one socket each | receive a request, mark it with the player of the connection, push | end when their player leaves or the server stops |
| Writer | `writer.c` | the response in hand | pop, look the socket up, send | order kept, ends at shutdown, survives a closed socket |
| Acceptor | `acceptor.c` | the handles of the listeners | two accepts, two threads, `SetEvent`, join | no match without its listeners, failures taken down |
| Server structure | `server.c`, server `main.c` | `running`, event, sockets, queues | `server_init`, `server_request_shutdown` (by two threads), `server_shutdown`, start, join | nothing freed early, no leak, no double close, the program ends |
| Client | client `main.c`, `network.c` | `g_shared` under a lock, the copy the main loop acts on | first message, receiving thread, loop: copy, draw, one key; shutdown, join, release, result | view converges to the match and never goes back; the result told is true; the program ends and releases nothing too early |
| Streams | `sendAll`, `recvAll`, `enviarTudo` in `writer.c`, `listener.c`, `network.c` | bytes sent and received of one message | loops around `send` and `recv` | whole messages, in order, whatever the pieces |
| Terminal UI | `ui.c` | screen buffer | layout, drawing, `renderScreen`, `readInput` | everything fits; the terminal shows what was drawn |
| Test client | `test/client.c` | | a menu-driven client for manual tests | |

Interaction. The threads of the server share the structure `Server`: the two
queues under their critical sections, and `running`, the sockets and the event
without any lock. `Jogo` belongs to the worker alone. The clients share nothing;
each has two threads that share `g_shared` under its lock.

## 2. What is hard to test

`PROJECT.json` lists every hazard at its line with the property that covers it or
the reason why none does. In groups:

- *Stale decisions.* A client acts on a copy of a state that is being replaced,
  without request numbers; the server alone judges (`UnoMatch`).
- *Wake-ups.* `WakeConditionVariable` wakes one sleeper and does not hand the
  critical section over (`RingQueue`).
- *Unlocked shared state in the shutdown.* `server_request_shutdown` goes through
  shared fields one by one while the acceptor stores sockets, the listeners close
  theirs, the writer reads them, and possibly a second thread does the same
  (`UnoServer`).
- *One event, two meanings.* `gameStartedEvent` is "begin" and "stop waiting".
- *Failure in the middle.* The second listener that cannot be created, a broadcast
  whose second message is refused, a client that does not read, a server stopped in
  the middle of a match, a start that fails half-way (`UnoServer`, `UnoMatch`).
- *A flag with two causes.* `connectionLost` is set when the server goes and when the
  client itself shuts the socket down (`UnoClient`).
- *Pieces.* A message arrives in any number of pieces, or ends in one (`FluxoTcp`).
- *Remembered state.* The selected index outlives the hand it was chosen in; the
  colours that `renderScreen` remembers must not outlive a reset (`UnoClient`,
  `UnoTela`).
- *Limits.* An empty deck, a hand of 16, a full queue, ring indices after many laps,
  the smallest window.
- *Liveness.* The end of a match has to pass full queues; every thread has to end.

## 3. The modules

| Module | Models | State and actions |
|---|---|---|
| `UnoCartas` | the cards (`game_criarBaralho`) and the two seats | constant operators: a card is its id, `Cor` and `Simbolo` are functions of it |
| `UnoGame` | `game.c` and `prepararEstadoInicial` | the fields of `Jogo`; hands and deck are sequences, the top of the deck last; `ComprarCarta`, `JogarCarta` are the whole C functions with `ProximoJogador` inside |
| `RegrasUno` | abstract: what a match promises | the place of every card, the turn, the winner; implemented by `UnoGame` (`SegueAsRegras`) |
| `RingQueue` | `queue.c`, one access to the structure per step | `items`, `front`, `rear`, `count`, `shutdown`, the owner of the critical section, a program counter per thread; `Entra`, `Dorme`, `EscreveItem`, `AvancaRear`, ... |
| `Canal` | abstract: a bounded FIFO channel that can be closed | implemented by `RingQueue` (`ImplementaCanal`) |
| `UnoServer` | `main.c`, `server.c`, `acceptor.c`, `listener.c`, `worker.c`, `writer.c` without the rules | one program counter per thread and one for each caller of `server_request_shutdown`, the shared fields, the sockets as the system sees them, how often each was closed |
| `UnoMatch` | two clients, listeners, queues, worker with `INSTANCE UnoGame`, writer, TCP streams, and main stopping the server | `entrada` → `filaReq` → worker → `pendentes` → `filaRes` → `saida` → `vista` → `tela`; `parada` is how far `server_request_shutdown` has come |
| `UnoPartida` | abstract: one course of a match on two screens | the move the match has come to, the one each screen shows, the winner, what is announced; implemented by `UnoMatch` (`ImplementaPartida`) |
| `Atendimento` | abstract: the service of requests and responses | who waits in which queue, to whom the worker still owes the answer in hand, how far the service has been stopped; implemented by `UnoServer` and by `UnoMatch` (`ImplementaAtendimento`) |
| `FluxoTcp` | `recvAll`, `sendAll`, `enviarTudo` over one direction of a connection | each byte knows its message and place; `Send(n)`, `Recv(n)` move any number of bytes, `Termina(n)` ends the connection with n bytes still to come |
| `Conexao` | abstract: whole messages in order up to the end | implemented by `FluxoTcp` (`ImplementaConexao`) |
| `UnoTela` | geometry of the board and `renderScreen`, `ui.c` | constant operators: a drawing is a sequence of rectangles, a screen the rows of its cells, the text sent a sequence of characters and escape sequences |
| `UnoClient` | one client: `main` and `recvThreadProc`, with `FluxoTcp` and `UnoTela` | a program counter per thread, `g_shared`, the copy on the screen, `selectedCard`, what is still to be released (`recursos`), the result told |
| `MC*` | the instances TLC checks | three shuffles in `MCUnoMatch`, a congested start in `MCUnoServer`, windows, states and cells in `MCUnoClient` |
| `UnoGameProofs`, `RingQueueProofs`, `UnoServerProofs`, `UnoMatchProofs`, `FluxoTcpProofs`, `UnoTelaProofs`, `UnoRenderProofs`, `UnoClientProofs` | | the theorems (section 6) |

How they fit: `RingQueue` shows once, with every step of the critical sections,
that a queue is the channel `Canal`; `UnoServer` and `UnoMatch` then use a
sequence with a capacity for each queue, as `Canal` says. `UnoMatch` composes the rules engine with
everything between it and the screens. `UnoServer` has the threads' lives, where
the content of requests does not matter: its worker answers to one player, to
both, or not at all, whichever it likes (`AtendeRequest`).

`UnoServer` and `UnoMatch` are two views of one server, the first with its threads
and the second with its messages. What they have in common is stated once, in
`Atendimento`, and both implement it: requests are taken one by one in the order of
their queue, and none before the last one is answered; an answer goes to the sender
or to every player and is given whole unless the response queue is shut down under
it; nothing is answered after the last move; the queues are shut down in order; and
once `running` is cleared worker and writer take one thing more at most. A service is
watched from its start (`UnoServer`) or from the start of the match (`UnoMatch`).

The same holds for the streams: `FluxoTcp` shows that the loops carry whole
messages, as `Conexao` says, and `UnoServer` and `UnoMatch` move whole messages.
`UnoClient` has its incoming stream byte by byte (`Fluxo == INSTANCE FluxoTcp`): its
two threads use `recvAll` one after the other, and its own `shutdown` may end the
stream in the middle of a message. To it the server is any program that starts with
one message, then sends what it likes up to a last one, and may be gone at any
byte; `UnoMatch` has the real one.

`UnoServer` and `UnoMatch` share the shutdown: the first has every access of
`server_request_shutdown` by two callers and what becomes of the threads, the second
what becomes of the messages. In `UnoMatch` the threads have no program counters;
`resta` says which of worker and writer were past their test of `running` when it
was cleared, for those still do the round they are in.

Choices a reader should know:

- A worker's request is atomic on `Jogo` because no other thread sees `Jogo`.
- `JogarCarta` keeps the turn when the match ends and `ComprarCarta` does not look
  at the turn: both are what the code does.
- In `UnoServer` a step is one access to shared state: `accept` and the assignment
  of its result (`Aceita`, `Guarda`), reading a socket and using it (`LeSocket`,
  `EnvioChega`), closing it and forgetting it (`FechaConexao`, `EsqueceConexao`)
  are steps of their own. The unlocked `int running` is read and written in one
  step, as on the platform the program is for.
- Creating a thread, a socket, an event or a queue, or accepting, may fail; a send
  succeeds or fails according to the socket and the client; a client may never read.
- In `UnoMatch` a player may press ENTER on any card of the hand on the screen,
  or the arrow down, if the *screen* says it is his turn, or the arrow up. The
  selection of a card is not state. `tela` is empty outside of one round of the
  loop, for it is copied afresh each time.
- A client that leaves closes its connection: what was on its way to it is lost,
  and any tail of what it had sent may be.
- When a connection is ended by either side, any tail of the bytes on their way may
  be lost (`Termina`, `Corta`), and `recv` fails once the rest has been received.
- An error of `send` means that the connection has ended. The code does not rely on
  more, except in one place: the writer goes on after a failed `sendAll`
  (`writer.c:82-94`), and if that connection still lived its next message would be
  read from the middle of the last.
- The client's requests are one step: a request that cannot be sent is forgotten
  (`enviarSolicitacao`'s result is not looked at), and one that can is assumed not to
  wait for a server that has stopped reading.
- The status line of the client ("Jogada invalida!") is a flag that the main loop may
  clear in any round: the two times it compares are GetTickCount's, which wraps.
- In `UnoTela` a drawing is the rectangles it fills; which characters and colours are
  in them is left out. `renderScreen` is the other way round: its cells have a
  character and two colours, among them the terminal's own (0), and `Terminal` reads
  the text back as a console does.
- Definitions preceded by a comment "Mutant:" are not part of the system: each is
  a plausible slip in the definition that follows it, and shows that a property
  can fail. `PROJECT.json` pairs them.

## 4. The runs

| Run | Configuration | Shows | Distinct states |
|---|---|---|---|
| `game` | `MCUnoGame.cfg` | `CartasUnicas`, `VitoriaCoerente`, `ContagemDeJogadas`, `AnunciadasSaoAceitas`, refinement of `RegrasUno` | 11 010 states |
| `game_stuck` | `MCUnoGameTravada.cfg` | **violated**: `SempreHaJogada` | |
| `queue` | `MCRingQueue.cfg` | `ExclusaoMutua`, `AnelCoerente`, `SemDespertarPerdido`, `EncerradaAvanca`, refinement of `Canal`, `EncerramentoLiberta`, `PopAtendido`; no deadlock | 120 163 |
| `server` | `MCUnoServer.cfg` | `LiberaPorUltimo`, `PartidaComDoisListeners`, `SemVazamento`, `FechadoUmaVez`, `NadaMaisSeEspera`, `EncerramentoAvanca`, refinement of `Atendimento` | 673 953 |
| `server_end` | `MCUnoServerFim.cfg` | `WorkerEWriterParam`, `EncerramentoTermina`, from the start and from a full pipeline | 237 146 |
| `server_listeners` | `MCUnoServerListeners.cfg` | **violated**: `ListenersTerminam` | |
| `match` | `MCUnoMatch.cfg` | `PrimeiraMensagem`, `VisoesConvergem`, `VisoesIrmas`, refinement of `UnoPartida` | 321 793 |
| `match_end` | `MCUnoMatchVivacidade.cfg` | `FimChegaATodos`, `ClienteAcompanha`, refinement of `Atendimento`, with a server that may be stopped | 231 553 |
| `match_draw` | `MCUnoMatchCompra.cfg` | **violated**: `AposComprarVezDoOutro` | |
| `match_leave` | `MCUnoMatchSaida.cfg` | **violated**: `AdversarioAvisado` | |
| `client` | `MCUnoClient.cfg` | `SelecaoMostrada`, `FechaPorUltimo`, `ResultadoVerdadeiro`, `DesenhoCabe`, `RenderFiel`, refinement of `Conexao`, `ClienteTermina` | 167 032 |
| `client_screen` | `MCUnoClientTela.cfg` | **violated**: `TelaDoReadmeBasta` | |

Each property is stated in words above its definition. The less obvious ones:

- `ContagemDeJogadas`: the turn counters count the accepted requests exactly, and
  so do the cards. A match therefore accepts at most `MedidaInicial` requests (64
  with the program's constants), also with draws out of turn.
- `SemDespertarPerdido`: while a consumer sleeps there are no more items than
  consumers on their way back, and the same for producers and free places.
- `EncerradaAvanca`: after the shutdown of a queue the steps left to each thread, also
  if it goes on calling, are a number that no step raises and every step lowers for
  somebody: a consumer takes out what is left, all others return.
- `VisoesConvergem`: whenever nothing is on its way to a client, its view is the
  server's state.
- `VisoesIrmas`: round and turn number the moves of a match, for each accepted
  request adds one. Two screens at the same move agree on the table and the turn, and
  each gives the number of cards the other one holds.
- `ImplementaPartida`: no screen ever shows a move before one it has shown, and a
  client that comes to the end announces the winner, though it works the winner out
  from the numbers of cards in its last state.
- `WorkerEWriterParam`: the writer is stuck in a send, and everything behind it
  full, when the shutdown comes. It ends because the sockets are shut down after
  the queues.
- `FimChegaATodos`: when the match is over or the server is being stopped every
  client comes to its end. Messages left in a queue, or half a broadcast, do no
  harm because the connections are ended after the queues.
- `SemVazamento`: no way to the end of the server leaves a socket; a start that
  fails leaves the event, or both queues, behind (`server_init` gives back only some
  of what it has).
- `FechadoUmaVez`: besides the double close, that no socket of a player is closed
  while the acceptor may still be given a new one, so that a handle the writer holds
  cannot come to mean another connection.
- `NadaMaisSeEspera`: once a call of `server_request_shutdown` has returned no thread
  of the server waits for a player, an item, a free place or the event. Only joins
  are left, and the `recv` of a second connection that slipped past main
  (`server_listeners`).
- `EncerramentoAvanca`: from the moment the request queue is shut down each step of
  anybody lowers `Falta`, the sum of how many steps each thread, caller and client
  has before it at most. Nothing in the way to the end is a loop.
- `ImplementaAtendimento`: the server with its threads and the server with its
  messages carry out the same service (section 3).
- `ResultadoVerdadeiro`: the flags are read before the client's own shutdown, which
  would set `connectionLost`. What is told is what happened, "perdida" included.
- `DesenhoCabe`: in every window that `validarTela` accepts nothing is cut off or
  drawn over something else, with a hand of up to 16 cards; the one exception is
  that the status line lies on the line under the top zone.
- `RenderFiel`: a screen is shown as drawn although the escape sequences of repeated
  colours are left out. The run has all screens of two by two cells and all pairs of
  colours that `renderScreen` tells apart; the theorem has every screen.

## 5. Bounds and fairness

- *Deck.* 2 colours × 3 symbols, one card dealt to each, hands of at most 3, all
  720 orders (`game`). It has plays by colour and by symbol, wins of both players,
  an empty deck, full hands and stuck matches; the theorems cover every other size.
  `UnoMatch` takes three orders of the same deck: only player 1 can play at first,
  only player 0 (who then wins), and nobody.
- *Requests.* `MaxPedidos` per client: 2 in `match` (two requests ahead of an
  answer, of both players), 1 in the liveness runs of the match (where `ComParada`
  adds the stop of the server), 1 in `server`, 0 where only the ways out matter (the
  congested start has its own requests in the queue).
- *Streams.* `client` has messages of two bytes, so that a message can be broken up,
  two messages can meet in the stream and a connection can end inside one; three
  messages (`MaxMensagens`): a first one, one in the middle, and a last one.
- *Windows.* The smallest that passes, a larger odd one, one row too few, one that is
  too narrow and none. States: a hand of three and one of one (the hand shrinks
  under the selection), and two ends, one with the largest hand of 16. The sizes of
  `ui.c` are its own, not scaled down.
- *Cells.* One character; foreground 0, white and one more, background 0 and one
  more: all that `renderScreen` compares.
- *Queues.* Capacity 1 in the composed modules, so that every queue is full often;
  2 in `queue`, where both ends wrap around. The theorems cover every capacity.
- *Spurious wake-ups.* At most `MaxEspurios` = 1 in `queue`; any number in the
  theorems.
- `CHECK_DEADLOCK FALSE` wherever the system may really stop: a match over or
  stuck, a program that ended, clients without requests left.

`server_end` starts from `Init` and also from a state of `Spec` in the middle of a match
(`MCCongestionado`), because the liveness check of full queues from `Init` alone is
too large. That this state is reachable was checked by giving its negation to TLC as
an invariant of `Spec`.

Fairness is weak fairness of each thread's steps: the scheduler runs a thread that
can go on. Nothing is assumed of people and networks: no key is owed, no client
need send, read or leave, and a send to an open connection may wait for ever
(`Entrega` and `Tecla` carry no fairness). In `UnoMatch` the client's main loop
comes round again whatever the user does, because `readInput` returns at once
when no key is there, and the writer's round is fair: its liveness properties are
about clients that do read, as the receiving thread of the client does. It has one
condition for each thread, over all that the thread can do next: worker, writer, main
in its shutdown, the listener of each player, and the two threads of each client. The steps of
`server_request_shutdown` follow one another once it was called (`WF_vars(Para)`). In
`UnoClient` the two threads are fair and the server owes nothing: `ClienteTermina`
starts from what the client has noticed, or from the end of the connection. In
`RingQueue` a thread in a call is fair and nobody has to call; `PopAtendido` is
about consumers only, of which each queue has one. Producers have no such
property: the two listeners can overtake one another.

## 6. The proofs

Every safety invariant the runs check is a theorem for all values of the constants,
and so are the action properties `EncerradaAvanca` and `EncerramentoAvanca` and the
refinements of all five abstract modules. The inductive invariants `InvServidor`,
`InvEspera`, `InvPartida` and `InvCliente` were also given to TLC on the instances of
section 4, where they hold.

**The rules.** For every number of colours and symbols, deal and size of a hand
(`BaralhoAssumption`, `DistribuicaoAssumption`), `UnoGameProofs` proves:

| Theorem | Statement | Argument |
|---|---|---|
| `TiposCorretos` | `Spec => []TypeOK` | `TypeOK` is inductive; lemmas on the three array moves (top of the deck, end of a hand, shift) |
| `CustodiaDasCartas` | `Spec => []CartasUnicas` | inductive with `TypeOK`; the same lemmas say what each move does to the content of an array; for the deal, that its indices are distinct (`Distribuicao` of an injection) |
| `UmVencedor` | `Spec => []VitoriaCoerente` | inductive with `TypeOK`: a player who empties his hand is the one on turn |
| `PartidaLimitada` | `Spec => []ContagemDeJogadas` | each request adds one to `Jogadas` and takes one from `Medida` |
| `UmaSoRegra` | `Spec => []AnunciadasSaoAceitas` | follows from `TypeOK` |
| `ImplementaAsRegras` | `Spec => SegueAsRegras` | step simulation under `TypeOK`, `CartasUnicas` and `VitoriaCoerente`; without the second a card would have no single place |

**The queues.** For every capacity, set of items and finite set of threads
(`FilaAssumption`), `RingQueueProofs` proves:

| Theorem | Statement | Argument |
|---|---|---|
| `TiposDaFila`, `UmPorVez`, `AnelSempreCoerente` | the three invariants | the inductive invariant `IInv`, which adds `ItemNoLugar`: what a thread found out in the loop still holds when it moves the index (the queue is not full, the item is in its slot, there is one to take). Without it `count` could leave its range in the step from `conta` |
| `FilaImplementaCanal` | `Spec => ImplementaCanal` | under `IInv`: a push takes effect when it increments `count`, a pop when it copies the item; every other step stutters, because a free slot is written |
| `NenhumDespertarPerdido` | `Spec => []SemDespertarPerdido` | inductive with `IInv`, stated once about a group of threads and a number of things to be had (`SemPerda`) and used for both groups; cardinalities of finite sets |
| `EncerradaSempreAvanca` | `Spec => EncerradaAvanca` | the two invariants above (`InvariantesDaFila`): after the shutdown nobody sleeps and no producer is past its test, so whoever ends a pop wakes nobody up, and it has taken one from `count`, which pays for its next call |

**The life of the server.** For every capacity and number of requests
(`ServidorAssumption`), `UnoServerProofs` proves the following. `InvServidor` is
inductive; its parts are the start (`InvInicio`), the end (`InvFim`), the types
(`Tipado`) and the sockets (`InvSockets`).

| Theorem | Statement | Argument |
|---|---|---|
| `InicioComDoisListeners` | `Spec => []PartidaComDoisListeners` | the event means that both listeners exist or that `running` is clear (`EventoJusto`), because a shutdown clears `running` before it sets the event (`ParadaPrimeiro`) and nothing sets it again |
| `LiberaDepoisDeTodos` | `Spec => []LiberaPorUltimo` | main joins three threads in order (`ThreadsDeMain`), and the acceptor has ended only when its listeners have (`ListenersDoAcceptor`) |
| `TiposDoProcesso` | `Spec => []TypeOK` | the types of the variables, and from `InvSockets` the bound on how often a socket is closed, which no step keeps by itself |
| `NadaFicaAberto` | `Spec => []SemVazamento` | a player's connection goes through five situations (`SemConexao`, `Aceitando`, `Ligado`, `Fechando`, `Fechado`), tied to the place of the acceptor before, at and after its assignment; for the listening socket, that it is open only while `serverSocket` knows it and that whoever is past it in `server_request_shutdown` has left it forgotten (`EscutaCoerente`) |
| `CadaUmUmaVez` | `Spec => []FechadoUmaVez` | the same situations, each with its number of closes; the listening socket is closed at most as often as there are callers past the test of `serverSocket` (`EscutaUmaVez`, `Passou`), each of whom calls once (`PedidosNoLugar`). That `server_init` and `server_shutdown` add no further close needs `EscutaCoerente` |
| `SoRestamJoins` | `Spec => []NadaMaisSeEspera` | `InvEspera`, inductive with `InvServidor`: the queues and the event are set in the order of `server_request_shutdown` (`FechosNaOrdem`); the writer knows of a response only from a match that has begun, hence with both players connected (`DestinoDoWriter`, `RespostasDaPartida`); and a connection that a caller has left open behind it was not stored yet: the first gets no listener, because the acceptor looks at `running` after it, and with the second no match has begun (`Cortes`); the acceptor's own call comes when there is no second listener (`AcceptorPediu`) |
| `SempreAvanca` | `Spec => [](Falta \in 0 .. 70) /\ EncerramentoAvanca` | each summand of `Falta` is a rank of one thread's places; a step lowers that of its own actor and raises no other, because the loops of main, worker, writer and listeners are left or not gone round again (`running` is clear when the request queue is shut down, a pop from the empty queue and a push fail). The lemmas say this actor by actor (`Mantem`, `Desce`) |
| `ServicoDoProcesso` | `Spec => ImplementaAtendimento` | step simulation under `InvServidor` and `InvServico`: the response queue is shut down after the request queue, and the worker owes an answer exactly when it is in one of the two loops that push responses |

**The match.** For every deck, deal, hand size, capacity and number of requests,
with and without a stop of the server (`PartidaAssumption`), `UnoMatchProofs` proves
the following, through the lemmas of `UnoGameProofs` about the engine
(`Provas == INSTANCE UnoGameProofs`, `PassoDoJogo`).

| Theorem | Statement | Argument |
|---|---|---|
| `TiposDaPartida` | `Spec => []TypeOK` | types with the bounds of the queues; that a broadcast fits `pendentes` and every state is one of the engine's (`FatosDoJogo`) |
| `PrimeiraCerta` | `Spec => []PrimeiraMensagem` | `Primeira`: for a client that waits, the first message for it in the connection, else in the response queue, else with the worker, is the first message of the match, or it has been lost with the connection |
| `Convergencia` | `Spec => []VisoesConvergem` | `Atual`: while nothing is being stopped a client that is there shows the present state, or that state is in a message on its way to it, or the worker has yet to take it |
| `MesmaPartida` | `Spec => []VisoesIrmas` | `Passado` and `TodasIrmas`: all that a client knows or will be told is a past state of the match, or its present one if the move is the present one; the two clients' states of the same move are the two sides of one |
| `Implementacao` | `Spec => ImplementaPartida` | step simulation under `InvPartida`: an accepted request is `Partida`'s move, a message taken is a screen that goes forward, because messages reach a client in the order of the match (`Ordem`) and the last is the present state (`FimJusto`) |
| `ServicoDaPartida` | `Spec => ImplementaAtendimento` | step simulation under `Tipada`, through lemmas on what `Remetentes` and `Destinos` make of the head, the tail and one element more (`NomesSemPrimeiro`, `NomesComMaisUm`); an accepted request is one step of the engine, so none is accepted after the last move (`PassoDoJogo`) |

`InvPartida` is the conjunction `Tipada /\ Passado /\ TodasIrmas /\ Ordem /\ Situacao /\
FimJusto /\ Primeira /\ Atual`. None of the properties is inductive, for each is
about what a screen shows, and what it will show is in messages: the invariants
speak of all the messages on their way to a client (`ACaminho`), through the response
queue and its connection, and of the order of any two of them (`Antes`). `Lance`
numbers the moves; `Relogio` says that in a step either the match stands still or it
makes one move and the messages stand still.

**The client and its stream.** For every size of a message and number of messages
(`TamanhoValido`), and for any windows and states (`ClienteAssumption`), `FluxoTcpProofs`,
`UnoTelaProofs`, `UnoRenderProofs` and `UnoClientProofs` prove:

| Theorem | Statement | Argument |
|---|---|---|
| `FluxoImplementaConexao` | `Spec => ImplementaConexao` of `FluxoTcp` | byte k of message m has number `m * Tamanho + k`; the bytes received, those in `canal` and those still to be sent are consecutive (`Corrente`, `Emenda`), and the filled part of the buffer is the start of one message (`Cheio`). Without `Cheio` a full buffer need not be a message. `Enviada` is then the last message whose bytes all lie at or below `Topo`, which a step moves past at most one message boundary |
| `MensagensInteiras` | `Spec => ImplementaConexao` of `UnoClient` | each step of the client is one of the stream: main and the thread use `recvAll` one after the other, and the thread is created when main's call has returned (`Chegou`, `UsaFluxo`); then the theorem above, through an instance of its module |
| `LiberaDepoisDaThread` | `Spec => []FechaPorUltimo` | what main holds at each point (`Posse`), and that the thread exists only after its creation and has ended before the release (`VidaDaThread`) |
| `TiposDoCliente` | `Spec => []TypeOK` | `InvCliente`, with `Recebidas`: no message is counted as received that has not been sent, from `Contada` of the stream (no byte is ahead of the sender) |
| `SelecaoNaMao` | `Spec => []SelecaoMostrada` | each key moves the index by one inside the hand of the copy, and each new copy brings it back; a card asked for is one of the copy's |
| `ResultadoCerto` | `Spec => []ResultadoVerdadeiro` | `Flags`: a flag is the last thing the receiving thread sets, at most one of them is set, and with `partidaFinalizada` the shared state is that of the last message; `Corte`: before main's own shutdown only the other side can have ended the connection; `Dito`: what has been told cannot become false |
| `DesenhoSempreCabe` | `TudoCabe(tela, n)` for every `tela` that `ValidarTela` accepts and every `n` up to 16 | every piece of the drawing is a rectangle whose place is linear in width and height; the fixed ones lie in bands of rows (`Faixa`), the cards of the hand in columns 7 apart, and 16 of them fit from the quotient `(width - 2) \div 10` on |
| `TelaSempreCabe` | `Spec => []DesenhoCabe` | the loop runs only on screens that `validarTela` has let pass (`TelaValida`), then the theorem above |
| `TerminalSempreFiel` | `MostraFielmente(linhas)` for every buffer: any number of rows of any number of cells, any characters and colours | the functions of `RenderCells`, `RenderRows` and `Terminal` are shown to exist and to unfold (`CelulasPasso`, `AtePasso`, `LidoPasso`). `Segue` relates the two programs after each cell and each row: the terminal shows what has been written, and has the colours that `renderScreen` remembers, if it remembers any. The inductions go by the smallest number outside of a set (`TodosOsNaturais`, from `WFMin`) |
| `TelaSempreFiel` | `Spec => []RenderFiel` | the theorem above, for any set of buffers |

`ClienteAssumption` asks four things of the constants: the sizes of a window are
integers; the buffers to be rendered are rows of cells; a hand in a message is a
sequence of at most 16 integers, the array of the message; and in the last state of a match not both hands are empty. The last is
`UmVencedor` of the engine: the server sends no other, and with one the client would
announce "venceu" while the opponent has won too.

Only model-checked is liveness: `EncerramentoLiberta`, `PopAtendido`, `WorkerEWriterParam`,
`EncerramentoTermina`, `FimChegaATodos`, `ClienteAcompanha` and `ClienteTermina`. The prover
handles neither liveness under fairness nor ENABLED. For the end of the server the
safety half is proved: `SempreAvanca` leaves at most 70 steps after the request queue is
shut down, and `SoRestamJoins` says that a thread which has no step then waits for the
end of another thread, but for the one known case; `EncerradaSempreAvanca` is the same for
a queue, step by step. What only TLC checks is that weak
fairness turns this into `EncerramentoTermina`.

The library's induction theorems are beyond the provers too, for they take an operator
as a parameter; where induction is needed `TodosOsNaturais` states it of a set. No module
uses RECURSIVE operators.

To check: `tlc -config MCUnoGame.cfg MCUnoGame`, and likewise each row of section 4;
`tlapm UnoGameProofs.tla`, and likewise `RingQueueProofs`, `UnoServerProofs`,
`UnoMatchProofs`, `FluxoTcpProofs`, `UnoTelaProofs`, `UnoRenderProofs` and `UnoClientProofs`.

## 7. What the checks found

1. **A draw out of turn** (`match_draw`). `game_comprarCarta` (`game.c:157`) does
   not ask whose turn it is, against `README.md:233` and `spec.md:432`. Pressing the
   arrow down twice before the answer arrives is enough; the turn comes back to the
   player who drew. The engine stays consistent all the same, as `game` shows.
2. **A stuck match** (`game_stuck`). With an empty deck or a full hand and no
   matching card there is nothing left to do, though `spec.md:506-508` says that a
   player on turn can draw.
3. **A shutdown that does not end** (`server_listeners`). The acceptor looks at
   `running` after the first accept and not after the second (`acceptor.c:66`), so a
   second client that comes in just then keeps a listener, and the program, alive
   until it leaves. `server_end` shows that this is the only such case.
4. **A player who left** (`match_leave`). `README.md:259-270` lists `MSG_JOGADOR_SAIU`
   among the messages the server sends (`spec.md:673-676`: it "poderá", may, send it)
   and the client handles it, but no code sends it (`listener.c:109`).
5. **The size of the window** (`client_screen`). `README.md:105-110` asks for
   approximately ("aproximadamente") 150 columns and 40 rows. `getScreenSize` takes ten
   rows off (`ui.c:119`) before `validarTela` asks for 40 (`main.c:278`), so the client
   needs 50: ten more than the README leads one to expect.

Found on the way and true of the code, without a claim in the repository to set it
against: a start of the server that fails leaves the event or the queues
(`server.c:30`, `SemVazamento`); `connectionLost` is true at the end of every client
that left by itself, and harmless only because it is read before (`main.c:538-548`);
the status line is drawn on the line under the top zone (`UnoTela`).

## 8. Not modelled, and the plan

Left out for good: the characters and colours of the drawings, the debug log, the
test client, build files, names and texts; `enableAnsiConsole`; the time at which the
status line expires (any time, in the model); `StrBuf`, the growing buffer of
`renderScreen`, which without memory drops pieces of a frame that is drawn again 30
ms later. `prepararResposta` in `worker.c`, `drawWaitingMessage` and `g_shared.vencedor`
have no effect, and `drawGameOver` is declared and not defined. A `send` that fails on
a connection that stays open, and an end-of-file on the server's console (the loop in
`main.c:178` would spin), are not modelled.

The order of work was the rules and the queues first, since all else rests on
them, then the life of the server, the match from end to end, and the client with its
stream and its screen; then the proofs, in the same order; last `Atendimento`, which
joins the two views of the server. What is left is the step from `RingQueue` to the
queues of `UnoServer` and `UnoMatch`: these are sequences with a capacity, as `Canal`
allows, which is argued in section 3 and not proved.
