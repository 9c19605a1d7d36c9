------------------------------- MODULE FluxoTcp -------------------------------
(* One direction of a TCP connection, byte by byte: the loop of sendAll       *)
(* (writer.c, and enviarTudo in network.c, which is the same loop), the bytes *)
(* on their way, and the loop of recvAll (network.c, and the same function in *)
(* listener.c).  send and recv move as many bytes as they like, at least one; *)
(* the connection may end in the middle of a message.                         *)
EXTENDS Naturals, Sequences

CONSTANTS Tamanho,        \* sizeof(Mensagem), or sizeof(Solicitacao) the other way
          MaxMensagens    \* bound on the messages sent

TamanhoValido == Tamanho \in Nat \ {0} /\ MaxMensagens \in Nat

VARIABLES mensagem,        \* the number of the message sendAll is or was sending
          totalEnviado,    \* sendAll: the bytes of it that send has taken
          canal,           \* the bytes on their way
          aberta,          \* the connection has not ended
          buffer,          \* recvAll: the structure that is filled
          totalRecebido,   \* recvAll: the bytes of it that are filled
          ultima           \* the number of the last message recvAll returned

fluxoVars == <<mensagem, totalEnviado, canal, aberta, buffer, totalRecebido, ultima>>

Posicoes == 1 .. Tamanho

(* A byte knows the message it is from, and its place there.                  *)
Byte(m, k) == [de |-> m, lugar |-> k]

Nenhuma == 0
Torta == MaxMensagens + 1      \* stands for bytes that make no message

\* The message that a full buffer holds.
Lida(b) ==
    IF \A k \in Posicoes : b[k] = Byte(b[1].de, k) THEN b[1].de ELSE Torta

Init ==
    /\ mensagem = Nenhuma /\ totalEnviado = Tamanho
    /\ canal = << >> /\ aberta = TRUE
    /\ buffer = [k \in Posicoes |-> Byte(Nenhuma, k)]
    /\ totalRecebido = 0 /\ ultima = Nenhuma

emissorVars == <<mensagem, totalEnviado>>
receptorVars == <<buffer, totalRecebido, ultima>>

(* The call of sendAll with the next message.                                 *)
ComecaEnvio ==
    /\ aberta /\ totalEnviado = Tamanho /\ mensagem < MaxMensagens
    /\ mensagem' = mensagem + 1
    /\ totalEnviado' = 0
    /\ UNCHANGED <<canal, aberta, receptorVars>>

\* One round of the loop of sendAll: send takes n bytes from buffer + totalEnviado.
Send(n) ==
    /\ aberta
    /\ n \in 1 .. Tamanho - totalEnviado
    /\ canal' = canal \o [j \in 1 .. n |-> Byte(mensagem, totalEnviado + j)]
    /\ totalEnviado' = totalEnviado + n
    /\ UNCHANGED <<mensagem, aberta, receptorVars>>

(* send fails and sendAll gives the rest of the message up.  Here an error    *)
(* means that the connection has ended.                                       *)
SendFalha ==
    /\ ~aberta /\ totalEnviado < Tamanho
    /\ totalEnviado' = Tamanho
    /\ UNCHANGED <<mensagem, canal, aberta, receptorVars>>

(* The call of recvAll.                                                       *)
ComecaRecepcao ==
    /\ totalRecebido' = 0
    /\ UNCHANGED <<emissorVars, canal, aberta, buffer, ultima>>

\* Mutant: recv writes at the start of the buffer in each round.
RecvNoInicio(n) ==
    /\ n \in 1 .. Tamanho - totalRecebido /\ n <= Len(canal)
    /\ buffer' = [k \in Posicoes |-> IF k <= n THEN canal[k] ELSE buffer[k]]
    /\ totalRecebido' = totalRecebido + n
    /\ canal' = SubSeq(canal, n + 1, Len(canal))
    /\ ultima' = IF totalRecebido' = Tamanho THEN Lida(buffer') ELSE ultima
    /\ UNCHANGED <<emissorVars, aberta>>

\* Mutant: recv is offered the size of the structure again in each round.
RecvDemais(n) ==
    /\ n \in Posicoes /\ n <= Len(canal)
    /\ buffer' = [k \in Posicoes |->
                     IF k \in totalRecebido + 1 .. totalRecebido + n
                       THEN canal[k - totalRecebido] ELSE buffer[k]]
    /\ totalRecebido' = totalRecebido + n
    /\ canal' = SubSeq(canal, n + 1, Len(canal))
    /\ ultima' = IF totalRecebido' >= Tamanho THEN Lida(buffer') ELSE ultima
    /\ UNCHANGED <<emissorVars, aberta>>

(* One round of the loop of recvAll: recv puts n bytes at buffer +            *)
(* totalRecebido.  With the last one recvAll returns.                         *)
Recv(n) ==
    /\ n \in 1 .. Tamanho - totalRecebido /\ n <= Len(canal)
    /\ buffer' = [k \in Posicoes |->
                     IF k \in totalRecebido + 1 .. totalRecebido + n
                       THEN canal[k - totalRecebido] ELSE buffer[k]]
    /\ totalRecebido' = totalRecebido + n
    /\ canal' = SubSeq(canal, n + 1, Len(canal))
    /\ ultima' = IF totalRecebido' = Tamanho THEN Lida(buffer') ELSE ultima
    /\ UNCHANGED <<emissorVars, aberta>>

(* recv returns 0 or an error, and so does recvAll: what is in the buffer is  *)
(* not a message.                                                             *)
RecvTermina == ~aberta /\ canal = << >> /\ totalRecebido < Tamanho

(* The connection ends, for whatever reason: of the bytes on their way, the   *)
(* first n still arrive.                                                      *)
Termina(n) ==
    /\ aberta' = FALSE
    /\ n \in 0 .. Len(canal)
    /\ canal' = SubSeq(canal, 1, n)
    /\ UNCHANGED <<emissorVars, receptorVars>>

Next ==
    \/ ComecaEnvio \/ SendFalha
    \/ totalRecebido = Tamanho /\ ComecaRecepcao
    \/ \E n \in Posicoes : Send(n) \/ Recv(n)
    \/ \E n \in 0 .. Len(canal) : Termina(n)

Spec == Init /\ [][Next]_fluxoVars

-----------------------------------------------------------------------------
(* A message is sent, as the user of the connection sees it, when send has    *)
(* taken its last byte, and received when recvAll returns.                    *)
Inteiras == {i \in DOMAIN canal : canal[i].lugar = Tamanho}

Enviada ==
    IF Inteiras = {} THEN ultima
    ELSE canal[CHOOSE i \in Inteiras : \A j \in Inteiras : j <= i].de

Con == INSTANCE Conexao WITH enviada <- Enviada, recebida <- ultima, aberta <- aberta

(* recvAll and sendAll carry whole messages, in order, whatever pieces send   *)
(* and recv make of them and wherever the connection ends ("TCP não garante   *)
(* que uma chamada de recv() irá retornar todos os bytes solicitados",        *)
(* listener.c:9-10).                                                          *)
ImplementaConexao == Con!Spec
=============================================================================
