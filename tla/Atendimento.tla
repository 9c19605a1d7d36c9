----------------------------- MODULE Atendimento -----------------------------
(* How the server serves its two players, whoever carries it out and whatever *)
(* the messages say: requests wait in one queue, are taken one at a time, and *)
(* each is answered in full, to its sender or to every player, before the     *)
(* next is taken; answers wait in a second queue.  After the last move of a   *)
(* match requests are dropped.  Once the service is being stopped it takes at *)
(* most one request more and sends at most one response more.  UnoServer,     *)
(* about the life of the threads, and UnoMatch, about the content of the      *)
(* messages, are both shown to implement it.                                  *)
EXTENDS Naturals, Sequences

CONSTANTS MAX_PLAYERS, QUEUE_CAPACITY

VARIABLES requests, reqFechada,     \* the players whose requests wait
          responses, resFechada,    \* the players to whom responses wait to be sent
          respondendo,    \* to whom the request in hand is still to be answered
          fase,           \* "antes" of the match, "partida", "fim" of the service
          finalizada,     \* the last move has been made
          parando,        \* the service is being stopped
          ainda           \* those of worker and writer that may still take one

atendimentoVars == <<requests, reqFechada, responses, resFechada, respondendo, fase,
                     finalizada, parando, ainda>>

Todos == [i \in 1 .. MAX_PLAYERS |-> i - 1]

\* A service is watched from its start or from the start of the match.
Init ==
    /\ requests = << >> /\ reqFechada = FALSE
    /\ responses = << >> /\ resFechada = FALSE
    /\ \/ fase = "antes" /\ respondendo = << >>
       \/ fase = "partida" /\ respondendo = Todos
    /\ finalizada = FALSE
    /\ parando = FALSE
    /\ ainda = {"worker", "writer"}

\* While nothing is being stopped there is no bound on what a thread takes.
Toma(quem) ==
    /\ quem \in ainda
    /\ ainda' = IF parando THEN ainda \ {quem} ELSE ainda

Chega(p) ==
    /\ ~reqFechada /\ Len(requests) < QUEUE_CAPACITY
    /\ requests' = Append(requests, p)
    /\ UNCHANGED <<reqFechada, responses, resFechada, respondendo, fase, finalizada,
                   parando, ainda>>

Comeca ==
    /\ fase = "antes" /\ ~parando
    /\ fase' = "partida"
    /\ respondendo' = Todos
    /\ UNCHANGED <<requests, reqFechada, responses, resFechada, finalizada, parando, ainda>>

\* A request is dropped after the end of the match, refused, or carried out.
Atende ==
    /\ fase = "partida" /\ respondendo = << >> /\ requests # << >>
    /\ Toma("worker")
    /\ requests' = Tail(requests)
    /\ \/ finalizada /\ UNCHANGED <<respondendo, finalizada>>
       \/ ~finalizada /\ respondendo' = <<Head(requests)>> /\ UNCHANGED finalizada
       \/ ~finalizada /\ respondendo' = Todos /\ finalizada' \in BOOLEAN
    /\ UNCHANGED <<reqFechada, responses, resFechada, fase, parando>>

Responde ==
    /\ respondendo # << >>
    /\ ~resFechada /\ Len(responses) < QUEUE_CAPACITY
    /\ responses' = Append(responses, Head(respondendo))
    /\ respondendo' = Tail(respondendo)
    /\ UNCHANGED <<requests, reqFechada, resFechada, fase, finalizada, parando, ainda>>

Envia ==
    /\ responses # << >>
    /\ Toma("writer")
    /\ responses' = Tail(responses)
    /\ UNCHANGED <<requests, reqFechada, resFechada, respondendo, fase, finalizada, parando>>

\* A request in hand is answered before the service asks whether it is to stop.
Para ==
    /\ ~parando /\ parando' = TRUE
    /\ ainda' \in SUBSET {"worker", "writer"}
    /\ "worker" \in ainda' => respondendo = << >>
    /\ UNCHANGED <<requests, reqFechada, responses, resFechada, respondendo, fase, finalizada>>

Fecha ==
    /\ parando
    /\ \/ reqFechada' = TRUE /\ UNCHANGED resFechada
       \/ reqFechada /\ resFechada' = TRUE /\ UNCHANGED reqFechada
    /\ UNCHANGED <<requests, responses, respondendo, fase, finalizada, parando, ainda>>

\* The rest of an answer is given up, and the worker may end.
Desiste ==
    /\ resFechada /\ respondendo # << >>
    /\ respondendo' = << >>
    /\ fase' \in {fase, "fim"}
    /\ UNCHANGED <<requests, reqFechada, responses, resFechada, finalizada, parando, ainda>>

\* Nothing is left in hand when the worker or the writer ends.
Termina ==
    /\ parando
    /\ \/ respondendo = << >> /\ fase' = "fim" /\ ainda' = ainda \ {"worker"}
       \/ responses = << >> /\ ainda' = ainda \ {"writer"} /\ UNCHANGED fase
    /\ UNCHANGED <<requests, reqFechada, responses, resFechada, respondendo, finalizada, parando>>

Next ==
    \/ \E p \in 0 .. MAX_PLAYERS - 1 : Chega(p)
    \/ Comeca \/ Atende \/ Responde \/ Envia
    \/ Para \/ Fecha \/ Desiste \/ Termina

Spec == Init /\ [][Next]_atendimentoVars
=============================================================================
