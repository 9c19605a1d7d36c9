------------------------------- MODULE Conexao -------------------------------
(* What one direction of a TCP connection promises to the programs that use   *)
(* it through sendAll and recvAll: whole messages, numbered as they are sent, *)
(* arrive in order, without gap or repetition, up to the end of the           *)
(* connection, where the last ones may be lost.  FluxoTcp implements it, and  *)
(* UnoMatch uses the connections this way.                                    *)
EXTENDS Naturals

VARIABLES enviada,    \* the number of the last message that is or was on its way
          recebida,   \* the number of the last message received
          aberta      \* the connection has not ended

conexaoVars == <<enviada, recebida, aberta>>

Init == enviada = 0 /\ recebida = 0 /\ aberta = TRUE

Envia ==
    /\ aberta
    /\ enviada' = enviada + 1
    /\ UNCHANGED <<recebida, aberta>>

Recebe ==
    /\ recebida < enviada
    /\ recebida' = recebida + 1
    /\ UNCHANGED <<enviada, aberta>>

Termina ==
    /\ aberta' = FALSE
    /\ enviada' \in recebida .. enviada
    /\ UNCHANGED recebida

Next == Envia \/ Recebe \/ Termina

Spec == Init /\ [][Next]_conexaoVars
=============================================================================
