------------------------------ MODULE RingQueue ------------------------------
(* The blocking ring buffer of UnoServer/src/queue.c: RequestQueue and        *)
(* ResponseQueue are the same code over another item type.  Each thread       *)
(* follows the code of one call; between EnterCriticalSection and             *)
(* LeaveCriticalSection every access to the structure is a step of its own,   *)
(* so that what the critical section protects is visible.                     *)
EXTENDS Integers, Sequences, FiniteSets

CONSTANTS QUEUE_CAPACITY,
          Valores,         \* the items pushed
          Produtores,      \* threads that push: listeners, or the worker
          Consumidores,    \* threads that pop: the worker, or the writer
          Encerradores,    \* threads that call ...QueueShutdown
          Nada,            \* no thread, and the content of a slot never written
          MaxEspurios      \* bound on spurious wake-ups

Threads == Produtores \cup Consumidores \cup Encerradores

ASSUME FilaAssumption ==
    /\ QUEUE_CAPACITY \in Nat \ {0}
    /\ MaxEspurios \in Nat
    /\ IsFiniteSet(Threads)
    /\ Nada \notin Threads \cup Valores
    /\ Produtores \cap Consumidores = {}
    /\ Encerradores \cap (Produtores \cup Consumidores) = {}

VARIABLES items, front, rear, count, shutdown,
          mutex,       \* the owner of the critical section, or Nada
          pc,          \* where each thread is in its call
          valor,       \* the argument of a push, or the result of a pop
          espurios     \* spurious wake-ups so far

vars == <<items, front, rear, count, shutdown, mutex, pc, valor, espurios>>

(* The places of a call.  "fora": not in a call.  "entra": waiting for the    *)
(* critical section.  "testa": inside, about to test the loop condition.      *)
(* "dorme": asleep on its condition variable, notFull for a producer and      *)
(* notEmpty for a consumer.  "acordado": woken, waiting for the critical      *)
(* section again.  "avanca", "conta": the item is copied, then the index is   *)
(* moved.  "fim": the call returned -1, after which every caller leaves its   *)
(* loop.                                                                      *)
Lugares == {"fora", "entra", "testa", "dorme", "acordado", "avanca", "conta", "fim"}

Indices == 0 .. QUEUE_CAPACITY - 1

Init ==
    /\ items = [i \in Indices |-> Nada]
    /\ front = 0 /\ rear = 0 /\ count = 0
    /\ shutdown = FALSE
    /\ mutex = Nada
    /\ pc = [t \in Threads |-> "fora"]
    /\ valor = [t \in Threads |-> Nada]
    /\ espurios = 0

-----------------------------------------------------------------------------
(* Calling, and the critical section.                                         *)

Chama(t) ==
    /\ pc[t] = "fora"
    /\ pc' = [pc EXCEPT ![t] = "entra"]
    /\ IF t \in Produtores
         THEN \E v \in Valores : valor' = [valor EXCEPT ![t] = v]
         ELSE UNCHANGED valor
    /\ UNCHANGED <<items, front, rear, count, shutdown, mutex, espurios>>

\* Mutant: the critical section does not exclude.
EntraSemEsperar(t) ==
    /\ pc[t] \in {"entra", "acordado"}
    /\ mutex' = t
    /\ pc' = [pc EXCEPT ![t] = "testa"]
    /\ UNCHANGED <<items, front, rear, count, shutdown, valor, espurios>>

(* EnterCriticalSection, and the end of SleepConditionVariableCS, which takes *)
(* the critical section again before it returns to the loop.                  *)
Entra(t) ==
    /\ pc[t] \in {"entra", "acordado"}
    /\ mutex = Nada
    /\ mutex' = t
    /\ pc' = [pc EXCEPT ![t] = "testa"]
    /\ UNCHANGED <<items, front, rear, count, shutdown, valor, espurios>>

\* SleepConditionVariableCS releases the critical section as it falls asleep.
Dorme(t) ==
    /\ pc[t] = "testa"
    /\ ~shutdown
    /\ \/ t \in Produtores /\ count = QUEUE_CAPACITY
       \/ t \in Consumidores /\ count = 0
    /\ pc' = [pc EXCEPT ![t] = "dorme"]
    /\ mutex' = Nada
    /\ UNCHANGED <<items, front, rear, count, shutdown, valor, espurios>>

\* A condition variable may wake a sleeper for no reason.
DespertaEspurio(t) ==
    /\ pc[t] = "dorme"
    /\ espurios < MaxEspurios
    /\ espurios' = espurios + 1
    /\ pc' = [pc EXCEPT ![t] = "acordado"]
    /\ UNCHANGED <<items, front, rear, count, shutdown, mutex, valor>>

\* Mutant: a pop gives up at the shutdown although items are left.
RecusaComItens(t) ==
    /\ pc[t] = "testa"
    /\ shutdown
    /\ t \in Produtores \cup Consumidores
    /\ pc' = [pc EXCEPT ![t] = "fim"]
    /\ mutex' = Nada
    /\ UNCHANGED <<items, front, rear, count, shutdown, valor, espurios>>

Recusa(t) ==
    /\ pc[t] = "testa"
    /\ shutdown
    /\ t \in Produtores \/ (t \in Consumidores /\ count = 0)
    /\ pc' = [pc EXCEPT ![t] = "fim"]
    /\ mutex' = Nada
    /\ UNCHANGED <<items, front, rear, count, shutdown, valor, espurios>>

\* Mutant: WakeConditionVariable is forgotten.
SaiSemAcordar(t, grupo) ==
    /\ pc' = [pc EXCEPT ![t] = "fora"]
    /\ mutex' = Nada

(* WakeConditionVariable followed by LeaveCriticalSection and the return of   *)
(* t: one of the sleepers in the set, if there is any, is on its way back.    *)
AcordaUmESai(t, grupo) ==
    LET dormindo == {u \in grupo : pc[u] = "dorme"}
    IN  /\ IF dormindo = {}
             THEN pc' = [pc EXCEPT ![t] = "fora"]
             ELSE \E u \in dormindo :
                    pc' = [pc EXCEPT ![t] = "fora", ![u] = "acordado"]
        /\ mutex' = Nada

-----------------------------------------------------------------------------
(* requestQueuePush and responseQueuePush.                                    *)

\* Mutant: the test of shutdown after the wait is missing.
EscreveMesmoEncerrada(p) ==
    /\ pc[p] = "testa"
    /\ count # QUEUE_CAPACITY
    /\ items' = [items EXCEPT ![rear] = valor[p]]
    /\ pc' = [pc EXCEPT ![p] = "avanca"]
    /\ UNCHANGED <<front, rear, count, shutdown, mutex, valor, espurios>>

EscreveItem(p) ==
    /\ pc[p] = "testa"
    /\ ~shutdown
    /\ count # QUEUE_CAPACITY
    /\ items' = [items EXCEPT ![rear] = valor[p]]
    /\ pc' = [pc EXCEPT ![p] = "avanca"]
    /\ UNCHANGED <<front, rear, count, shutdown, mutex, valor, espurios>>

\* Mutant: the index does not wrap around.
AvancaRearSemVolta(p) ==
    /\ pc[p] = "avanca"
    /\ rear' = rear + 1
    /\ pc' = [pc EXCEPT ![p] = "conta"]
    /\ UNCHANGED <<items, front, count, shutdown, mutex, valor, espurios>>

AvancaRear(p) ==
    /\ pc[p] = "avanca"
    /\ rear' = (rear + 1) % QUEUE_CAPACITY
    /\ pc' = [pc EXCEPT ![p] = "conta"]
    /\ UNCHANGED <<items, front, count, shutdown, mutex, valor, espurios>>

ConcluiPush(p) ==
    /\ pc[p] = "conta"
    /\ count' = count + 1
    /\ AcordaUmESai(p, Consumidores)
    /\ UNCHANGED <<items, front, rear, shutdown, valor, espurios>>

Push(p) == EscreveItem(p) \/ AvancaRear(p) \/ ConcluiPush(p)

-----------------------------------------------------------------------------
(* requestQueuePop and responseQueuePop.                                      *)

\* Mutant: the newest slot is read.
LeItemDoFim(c) ==
    /\ pc[c] = "testa"
    /\ count # 0
    /\ valor' = [valor EXCEPT ![c] = items[(rear + QUEUE_CAPACITY - 1) % QUEUE_CAPACITY]]
    /\ pc' = [pc EXCEPT ![c] = "avanca"]
    /\ UNCHANGED <<items, front, rear, count, shutdown, mutex, espurios>>

LeItem(c) ==
    /\ pc[c] = "testa"
    /\ count # 0
    /\ valor' = [valor EXCEPT ![c] = items[front]]
    /\ pc' = [pc EXCEPT ![c] = "avanca"]
    /\ UNCHANGED <<items, front, rear, count, shutdown, mutex, espurios>>

AvancaFront(c) ==
    /\ pc[c] = "avanca"
    /\ front' = (front + 1) % QUEUE_CAPACITY
    /\ pc' = [pc EXCEPT ![c] = "conta"]
    /\ UNCHANGED <<items, rear, count, shutdown, mutex, valor, espurios>>

\* Mutant: count-- is forgotten.
ConcluiPopSemContar(c) ==
    /\ pc[c] = "conta"
    /\ AcordaUmESai(c, Produtores)
    /\ UNCHANGED <<items, front, rear, count, shutdown, valor, espurios>>

ConcluiPop(c) ==
    /\ pc[c] = "conta"
    /\ count' = count - 1
    /\ AcordaUmESai(c, Produtores)
    /\ UNCHANGED <<items, front, rear, shutdown, valor, espurios>>

Pop(c) == LeItem(c) \/ AvancaFront(c) \/ ConcluiPop(c)

-----------------------------------------------------------------------------
\* Mutant: only notEmpty is woken.
EncerraSoConsumidores(e) ==
    /\ pc[e] = "testa"
    /\ shutdown' = TRUE
    /\ pc' = [t \in Threads |->
                IF t = e THEN "fim"
                ELSE IF t \in Consumidores /\ pc[t] = "dorme" THEN "acordado" ELSE pc[t]]
    /\ mutex' = Nada
    /\ UNCHANGED <<items, front, rear, count, valor, espurios>>

(* requestQueueShutdown and responseQueueShutdown: both sets of sleepers are  *)
(* woken.                                                                     *)
Encerra(e) ==
    /\ pc[e] = "testa"
    /\ shutdown' = TRUE
    /\ pc' = [t \in Threads |->
                IF t = e THEN "fim"
                ELSE IF pc[t] = "dorme" THEN "acordado" ELSE pc[t]]
    /\ mutex' = Nada
    /\ UNCHANGED <<items, front, rear, count, valor, espurios>>

\* The steps that the operating system's scheduler owes to a thread in a call.
Passo(t) ==
    \/ Entra(t) \/ Dorme(t) \/ Recusa(t)
    \/ t \in Produtores /\ Push(t)
    \/ t \in Consumidores /\ Pop(t)
    \/ t \in Encerradores /\ Encerra(t)

Terminado == (\A t \in Threads : pc[t] = "fim") /\ UNCHANGED vars

Next ==
    \/ \E t \in Threads : Chama(t) \/ Passo(t) \/ DespertaEspurio(t)
    \/ Terminado

Spec == Init /\ [][Next]_vars

FairSpec == Spec /\ \A t \in Threads : WF_vars(Passo(t))

-----------------------------------------------------------------------------
(* What makes the queue correct.                                              *)

TypeOK ==
    /\ items \in [Indices -> Valores \cup {Nada}]
    /\ front \in Indices /\ rear \in Indices
    /\ count \in 0 .. QUEUE_CAPACITY
    /\ shutdown \in BOOLEAN
    /\ mutex \in Threads \cup {Nada}
    /\ pc \in [Threads -> Lugares]
    /\ valor \in [Threads -> Valores \cup {Nada}]
    /\ espurios \in 0 .. MaxEspurios

Dentro(t) == pc[t] \in {"testa", "avanca", "conta"}

(* Only the owner of the critical section is between Enter and Leave, so the  *)
(* three updates of a push or a pop are never interleaved with another one's. *)
ExclusaoMutua == \A t \in Threads : Dentro(t) <=> mutex = t

(* The number of items by which the indices are ahead of count, while the     *)
(* owner of the critical section is between its two updates.                  *)
Adiantado ==
    IF mutex \in Produtores /\ pc[mutex] = "conta" THEN 1
    ELSE IF mutex \in Consumidores /\ pc[mutex] = "conta" THEN -1 ELSE 0

(* front, rear and count, three counters that the code keeps separately,      *)
(* describe the same window of the ring, also after any number of laps.       *)
AnelCoerente == rear = (front + count + Adiantado) % QUEUE_CAPACITY

(* No wake-up is lost, although a push or pop wakes one sleeper only and      *)
(* another thread may come in between: while a consumer sleeps there are no   *)
(* more items than consumers on their way back from a wake-up, while a        *)
(* producer sleeps there are no more free slots than producers on their way,  *)
(* and nobody sleeps after the shutdown.                                      *)
Dormindo(grupo) == {t \in grupo : pc[t] = "dorme"}

ACaminho(grupo) == {t \in grupo : pc[t] \in {"acordado", "testa", "avanca", "conta"}}

SemDespertarPerdido ==
    /\ Dormindo(Consumidores) # {} => count <= Cardinality(ACaminho(Consumidores))
    /\ Dormindo(Produtores) # {} =>
         QUEUE_CAPACITY - count <= Cardinality(ACaminho(Produtores))
    /\ shutdown => Dormindo(Threads) = {}

(* How many steps t has before it at most, however often it still calls, once *)
(* the queue is shut down: a consumer takes out what is left, and the call of *)
(* anybody else returns from its first test.                                  *)
Falta(t) ==
    IF t \in Consumidores
      THEN 5 * count + [fora |-> 4, entra |-> 3, dorme |-> 4, acordado |-> 3, testa |-> 2,
                        avanca |-> 1, conta |-> 0, fim |-> 0][pc[t]]
      ELSE [fora |-> 3, entra |-> 2, dorme |-> 3, acordado |-> 2, testa |-> 1,
            avanca |-> 3, conta |-> 2, fim |-> 0][pc[t]]

(* After the shutdown nothing goes round in circles, whoever still calls push *)
(* or pop and in whatever order: each step brings some thread nearer to its   *)
(* last return, and sends nobody back to the loop (queue.c:43, queue.c:85).   *)
EncerradaAvanca ==
    [][shutdown =>
          /\ \A t \in Threads : Falta(t)' \in 0 .. Falta(t)
          /\ \E t \in Threads : Falta(t)' < Falta(t)]_vars

(* A shutdown lets every thread out that was in a call, asleep or not: the    *)
(* comment of server_request_shutdown relies on it (server.c:119-122).        *)
EncerramentoLiberta ==
    \A t \in Threads :
        (shutdown /\ pc[t] \in {"entra", "dorme", "acordado"}) ~> pc[t] \in {"fora", "fim"}

(* A consumer that asks for an item while there is one gets it, although the  *)
(* producers compete with it for the critical section.  Each queue of the     *)
(* program has one consumer.                                                  *)
PopAtendido ==
    \A c \in Consumidores :
        (pc[c] \in {"entra", "dorme", "acordado"} /\ count > 0) ~> pc[c] = "fora"

-----------------------------------------------------------------------------
(* The queue implements Canal.  A push takes effect when count is             *)
(* incremented, a pop when it copies the item.                                *)

Retirando == mutex \in Consumidores /\ pc[mutex] \in {"avanca", "conta"}

Inicio ==
    IF mutex \in Consumidores /\ pc[mutex] = "avanca"
      THEN (front + 1) % QUEUE_CAPACITY ELSE front

Tamanho == IF Retirando THEN count - 1 ELSE count

Conteudo == [i \in 1 .. Tamanho |-> items[(Inicio + i - 1) % QUEUE_CAPACITY]]

C == INSTANCE Canal WITH
    fila <- Conteudo,
    fechado <- shutdown,
    recebido <- [c \in Consumidores |-> valor[c]]

(* Items leave in the order in which they came, none is lost, duplicated or   *)
(* overwritten, at most QUEUE_CAPACITY wait, and after a shutdown nothing is  *)
(* added while what was there can still be taken out.                         *)
ImplementaCanal == C!Spec
=============================================================================
