-------------------------------- MODULE Canal --------------------------------
(* What the two queues of the server promise their users: a bounded first-in  *)
(* first-out channel that can be closed.  A closed channel takes nothing more *)
(* and still hands out what it holds.  UnoServer/src/queue.c is shown to      *)
(* implement it by RingQueue.                                                 *)
EXTENDS Naturals, Sequences

CONSTANTS QUEUE_CAPACITY,   \* 32 in the program
          Valores,          \* the messages that travel
          Consumidores,     \* the threads that take messages out
          Nada              \* what a consumer holds before its first message

VARIABLES fila,        \* the messages on their way, oldest first
          fechado,
          recebido     \* the last message each consumer was handed

canalVars == <<fila, fechado, recebido>>

Init ==
    /\ fila = << >>
    /\ fechado = FALSE
    /\ recebido = [c \in Consumidores |-> Nada]

Enviar(v) ==
    /\ ~fechado
    /\ Len(fila) < QUEUE_CAPACITY
    /\ fila' = Append(fila, v)
    /\ UNCHANGED <<fechado, recebido>>

Receber(c) ==
    /\ fila # << >>
    /\ recebido' = [recebido EXCEPT ![c] = Head(fila)]
    /\ fila' = Tail(fila)
    /\ UNCHANGED fechado

Fechar ==
    /\ fechado' = TRUE
    /\ UNCHANGED <<fila, recebido>>

Next ==
    \/ \E v \in Valores : Enviar(v)
    \/ \E c \in Consumidores : Receber(c)
    \/ Fechar

Spec == Init /\ [][Next]_canalVars
=============================================================================
