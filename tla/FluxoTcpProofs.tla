---------------------------- MODULE FluxoTcpProofs ----------------------------
(* For every size and number of messages: recvAll and sendAll carry whole     *)
(* messages, in order.  The argument numbers all bytes of the connection in   *)
(* one row: byte k of message m is number Vezes(m) + k.  The bytes received,  *)
(* those on their way and those still to be sent are consecutive in it.       *)
EXTENDS FluxoTcp, TLAPS

Vezes(m) == m * Tamanho

Bytes == [de : Nat, lugar : Posicoes]

TypeOK ==
    /\ mensagem \in Nat /\ totalEnviado \in 0 .. Tamanho
    /\ canal \in Seq(Bytes) /\ aberta \in BOOLEAN
    /\ buffer \in [Posicoes -> Bytes] /\ totalRecebido \in 0 .. Tamanho
    /\ ultima \in Nat

\* The number of the last byte received, and of the last one on its way.
Base == IF totalRecebido = Tamanho THEN Vezes(ultima) + Tamanho
        ELSE Vezes(ultima + 1) + totalRecebido

Topo == Base + Len(canal)

\* The bytes on their way follow those received,
Corrente ==
    \A i \in DOMAIN canal : Vezes(canal[i].de) + canal[i].lugar = Base + i

\* the next one to be sent follows them,
Emenda == aberta => Vezes(mensagem) + totalEnviado = Topo

\* and the part of the buffer that is filled is the start of one message.
Cheio ==
    \A k \in 1 .. totalRecebido :
        buffer[k] = Byte(IF totalRecebido = Tamanho THEN ultima ELSE ultima + 1, k)

IInv == TamanhoValido /\ TypeOK /\ Corrente /\ Emenda /\ Cheio

-----------------------------------------------------------------------------
(* Arithmetic of the row.                                                     *)

LEMMA VezesTipo ==
    ASSUME TamanhoValido, NEW m \in Nat
    PROVE  /\ Vezes(m) \in Nat /\ Vezes(m + 1) = Vezes(m) + Tamanho
           /\ Tamanho \in Nat /\ Tamanho > 0
  BY DEF Vezes, TamanhoValido

LEMMA VezesZero == TamanhoValido => Vezes(0) = 0
  BY DEF Vezes, TamanhoValido

LEMMA VezesCresce ==
    ASSUME TamanhoValido, NEW a \in Nat, NEW b \in Nat, a < b
    PROVE  Vezes(a) + Tamanho <= Vezes(b)
<1> DEFINE c == b - a - 1
<1>1. c \in Nat /\ b = a + 1 + c /\ Tamanho \in Nat
  BY DEF TamanhoValido
<1>2. c * Tamanho \in Nat
  BY <1>1
<1>3. (a + 1 + c) * Tamanho = a * Tamanho + Tamanho + c * Tamanho
  BY <1>1
<1> QED
  BY <1>1, <1>2, <1>3, VezesTipo DEF Vezes

LEMMA VezesMonotona ==
    ASSUME TamanhoValido, NEW a \in Nat, NEW b \in Nat, a <= b
    PROVE  Vezes(a) <= Vezes(b)
<1>1. Vezes(a) \in Nat /\ Vezes(b) \in Nat /\ Tamanho \in Nat
  BY VezesTipo
<1>2. CASE a = b
  BY <1>1, <1>2
<1>3. CASE a < b
  <2>1. Vezes(a) + Tamanho <= Vezes(b)
    BY <1>3, VezesCresce
  <2> QED  BY <1>1, <2>1
<1> QED  BY <1>2, <1>3

(* A byte is known by its number.                                             *)
LEMMA UmByte ==
    ASSUME TamanhoValido, NEW a \in Nat, NEW b \in Nat,
           NEW k \in Posicoes, NEW l \in Posicoes,
           Vezes(a) + k = Vezes(b) + l
    PROVE  a = b /\ k = l
<1>1. k \in 1 .. Tamanho /\ l \in 1 .. Tamanho
  BY DEF Posicoes
<1>2. Vezes(a) \in Nat /\ Vezes(b) \in Nat /\ Tamanho \in Nat
  BY VezesTipo
<1>3. ~(a < b)
  BY <1>1, <1>2, VezesCresce
<1>4. ~(b < a)
  BY <1>1, <1>2, VezesCresce
<1>5. a = b
  BY <1>3, <1>4
<1> QED
  BY <1>1, <1>2, <1>5

LEMMA BaseTipo ==
    ASSUME TamanhoValido, TypeOK
    PROVE  /\ Base \in Nat /\ Topo \in Nat /\ Len(canal) \in Nat /\ Topo = Base + Len(canal)
           /\ Vezes(ultima) + Tamanho <= Base /\ Base < Vezes(ultima) + Tamanho + Tamanho
<1>1. /\ ultima \in Nat /\ totalRecebido \in 0 .. Tamanho /\ Len(canal) \in Nat
  BY DEF TypeOK
<1>2. /\ Vezes(ultima) \in Nat /\ Vezes(ultima + 1) = Vezes(ultima) + Tamanho
      /\ Tamanho \in Nat /\ Tamanho > 0
  BY <1>1, VezesTipo
<1>3. Base = Vezes(ultima) + Tamanho + (IF totalRecebido = Tamanho THEN 0 ELSE totalRecebido)
  BY <1>1, <1>2 DEF Base
<1> QED
  BY <1>1, <1>2, <1>3 DEF Topo

-----------------------------------------------------------------------------
(* The invariant.                                                             *)

LEMMA InicioIInv == TamanhoValido /\ Init => IInv
<1> SUFFICES ASSUME TamanhoValido, Init PROVE IInv
  OBVIOUS
<1>1. TypeOK
  BY DEF Init, TypeOK, Byte, Bytes, Posicoes, Nenhuma, TamanhoValido
<1>2. Corrente /\ Cheio
  BY DEF Init, Corrente, Cheio
<1>3. Vezes(0) = 0 /\ Vezes(0 + 1) = Vezes(0) + Tamanho /\ Tamanho \in Nat /\ Tamanho > 0
  BY VezesTipo, VezesZero
<1>4. Base = Tamanho /\ Topo = Tamanho
  BY <1>3 DEF Init, Topo, Base, Nenhuma
<1>5. Emenda
  BY <1>3, <1>4 DEF Init, Emenda, Nenhuma
<1> QED  BY <1>1, <1>2, <1>5 DEF IInv

LEMMA PassoComecaEnvio ==
    ASSUME IInv, ComecaEnvio
    PROVE  IInv' /\ Base' = Base /\ Topo' = Topo
<1> USE DEF IInv, ComecaEnvio, receptorVars
<1>1. Base' = Base /\ Topo' = Topo
  BY DEF Base, Topo
<1>2. TypeOK'
  BY DEF TypeOK, TamanhoValido
<1>3. Corrente' /\ Cheio'
  BY <1>1 DEF Corrente, Cheio
<1>4. mensagem \in Nat /\ totalEnviado = Tamanho /\ mensagem' = mensagem + 1
  BY DEF TypeOK
<1>5. Vezes(mensagem + 1) = Vezes(mensagem) + Tamanho /\ Vezes(mensagem) \in Nat
      /\ Tamanho \in Nat
  BY <1>4, VezesTipo
<1>6. Emenda'
  BY <1>1, <1>4, <1>5 DEF Emenda
<1> QED  BY <1>1, <1>2, <1>3, <1>6

LEMMA PassoSend ==
    ASSUME IInv, NEW n \in Posicoes, Send(n)
    PROVE  IInv' /\ Base' = Base /\ Topo' = Topo + n
<1> DEFINE novos == [j \in 1 .. n |-> Byte(mensagem, totalEnviado + j)]
<1>1. /\ n \in 1 .. Tamanho - totalEnviado /\ n \in Nat /\ totalEnviado \in Nat
      /\ totalEnviado + n \in 0 .. Tamanho /\ Tamanho \in Nat
      /\ mensagem \in Nat /\ Vezes(mensagem) \in Nat
  <2>1. mensagem \in Nat /\ TamanhoValido
    BY DEF IInv, TypeOK
  <2>2. Vezes(mensagem) \in Nat /\ Tamanho \in Nat
    BY <2>1, VezesTipo
  <2> QED  BY <2>1, <2>2 DEF Send, IInv, TypeOK
<1>2. novos \in Seq(Bytes) /\ Len(novos) = n
  BY <1>1 DEF Byte, Bytes, Posicoes
<1>3. /\ canal \in Seq(Bytes) /\ canal' = canal \o novos /\ canal' \in Seq(Bytes)
      /\ Len(canal') = Len(canal) + n /\ DOMAIN canal' = 1 .. Len(canal) + n
  BY <1>1, <1>2 DEF Send, IInv, TypeOK
<1>4. TypeOK'
  BY <1>1, <1>3 DEF Send, IInv, TypeOK, receptorVars
<1>5. Base \in Nat /\ Topo \in Nat /\ Len(canal) \in Nat /\ Topo = Base + Len(canal)
  BY BaseTipo DEF IInv
<1>6. Base' = Base
  BY DEF Base, Send, receptorVars
<1>7. Topo' = Topo + n
  BY <1>1, <1>3, <1>5, <1>6 DEF Topo
<1>8. Vezes(mensagem) + totalEnviado = Topo
  BY DEF Send, Emenda, IInv
<1>9. Vezes(mensagem') + totalEnviado' = Topo'
  <2>1. mensagem' = mensagem /\ totalEnviado' = totalEnviado + n
    BY DEF Send
  <2>2. Vezes(mensagem') = Vezes(mensagem)
    BY <2>1
  <2> QED  BY <1>1, <1>5, <1>7, <1>8, <2>1, <2>2
<1>10. Cheio'
  BY DEF Cheio, Send, receptorVars, IInv
<1>11. ASSUME NEW i \in 1 .. Len(canal) + n
       PROVE  Vezes(canal'[i].de) + canal'[i].lugar = Base + i
  <2>1. CASE i \in 1 .. Len(canal)
    <3>1. canal'[i] = canal[i]
      BY <2>1, <1>2, <1>3
    <3> QED
      BY <2>1, <3>1, <1>3 DEF Corrente, IInv
  <2>2. CASE i \in Len(canal) + 1 .. Len(canal) + n
    <3>1. i - Len(canal) \in 1 .. n /\ canal'[i] = novos[i - Len(canal)]
      BY <2>2, <1>1, <1>2, <1>3, <1>5
    <3>2. canal'[i].de = mensagem /\ canal'[i].lugar = totalEnviado + (i - Len(canal))
      BY <3>1 DEF Byte
    <3>3. Vezes(canal'[i].de) + canal'[i].lugar
            = Vezes(mensagem) + (totalEnviado + (i - Len(canal)))
      BY <3>2
    <3>4. i \in Nat
      BY <1>5, <2>2
    <3> QED
      BY <3>3, <3>4, <1>1, <1>5, <1>8
  <2>3. i \in 1 .. Len(canal) \/ i \in Len(canal) + 1 .. Len(canal) + n
    BY <1>1, <1>5
  <2> QED  BY <2>1, <2>2, <2>3, Zenon
<1> QED
  BY <1>3, <1>4, <1>6, <1>7, <1>9, <1>10, <1>11 DEF IInv, Corrente, Emenda

LEMMA PassoSendFalha ==
    ASSUME IInv, SendFalha
    PROVE  IInv' /\ Base' = Base /\ Topo' = Topo
<1> USE DEF IInv, SendFalha, receptorVars
<1>1. Base' = Base /\ Topo' = Topo
  BY DEF Base, Topo
<1>2. TypeOK'
  BY DEF TypeOK, TamanhoValido
<1> QED
  BY <1>1, <1>2 DEF Corrente, Cheio, Emenda

LEMMA PassoComecaRecepcao ==
    ASSUME IInv, totalRecebido = Tamanho, ComecaRecepcao
    PROVE  IInv' /\ Base' = Base /\ Topo' = Topo
<1> USE DEF IInv, ComecaRecepcao, emissorVars
<1>1. Base' = Base /\ Topo' = Topo
  <2>1. /\ ultima \in Nat /\ totalRecebido = Tamanho /\ totalRecebido' = 0
        /\ ultima' = ultima /\ canal' = canal
    BY DEF TypeOK
  <2>2. /\ Vezes(ultima + 1) = Vezes(ultima) + Tamanho /\ Vezes(ultima) \in Nat
        /\ Tamanho \in Nat /\ Tamanho > 0
    BY <2>1, VezesTipo
  <2>3. Base = Vezes(ultima) + Tamanho /\ Base' = Vezes(ultima + 1) + 0
    BY <2>1, <2>2 DEF Base
  <2> QED  BY <2>1, <2>2, <2>3 DEF Topo
<1>2. TypeOK'
  BY DEF TypeOK, TamanhoValido
<1> QED
  BY <1>1, <1>2 DEF Corrente, Cheio, Emenda

(* The n bytes that are received are the next ones of message ultima + 1.     *)
LEMMA BytesSeguintes ==
    ASSUME IInv, NEW n \in Posicoes, Recv(n)
    PROVE  /\ totalRecebido < Tamanho /\ n <= Len(canal)
           /\ Base = Vezes(ultima + 1) + totalRecebido
           /\ \A j \in 1 .. n : canal[j] = Byte(ultima + 1, totalRecebido + j)
<1>1. /\ n \in Nat /\ n \in 1 .. Tamanho - totalRecebido /\ n <= Len(canal)
      /\ totalRecebido \in Nat /\ Tamanho \in Nat /\ ultima + 1 \in Nat
      /\ Vezes(ultima + 1) \in Nat /\ canal \in Seq(Bytes) /\ Len(canal) \in Nat
  <2>1. ultima + 1 \in Nat /\ TamanhoValido
    BY DEF IInv, TypeOK
  <2>2. Vezes(ultima + 1) \in Nat /\ Tamanho \in Nat
    BY <2>1, VezesTipo
  <2> QED  BY <2>1, <2>2 DEF Recv, IInv, TypeOK, Posicoes
<1>2. totalRecebido < Tamanho /\ Base = Vezes(ultima + 1) + totalRecebido
  BY <1>1 DEF Base
<1>3. ASSUME NEW j \in 1 .. n
      PROVE  canal[j] = Byte(ultima + 1, totalRecebido + j)
  <2>1. j \in DOMAIN canal /\ canal[j] \in Bytes /\ totalRecebido + j \in Posicoes
    BY <1>1 DEF Posicoes
  <2>2. Vezes(canal[j].de) + canal[j].lugar = Base + j
    BY <2>1 DEF Corrente, IInv
  <2>3. Vezes(canal[j].de) + canal[j].lugar = Vezes(ultima + 1) + (totalRecebido + j)
    BY <1>1, <1>2, <2>2
  <2>4. TamanhoValido /\ canal[j].de \in Nat /\ canal[j].lugar \in Posicoes
    BY <2>1 DEF Bytes, IInv
  <2>5. canal[j].de = ultima + 1 /\ canal[j].lugar = totalRecebido + j
    <3>1. totalRecebido + j \in Posicoes /\ ultima + 1 \in Nat
      BY <2>1, <1>1
    <3> QED  BY <2>3, <2>4, <3>1, UmByte
  <2> QED
    BY <2>1, <2>5 DEF Bytes, Byte
<1> QED  BY <1>1, <1>2, <1>3

LEMMA PassoRecv ==
    ASSUME IInv, NEW n \in Posicoes, Recv(n)
    PROVE  /\ IInv' /\ Base' = Base + n /\ Topo' = Topo
           /\ ultima' = IF totalRecebido + n = Tamanho THEN ultima + 1 ELSE ultima
<1>1. /\ n \in Nat /\ n > 0 /\ n \in 1 .. Tamanho - totalRecebido /\ n <= Len(canal)
      /\ totalRecebido \in Nat /\ Tamanho \in Nat /\ ultima \in Nat
      /\ Vezes(ultima + 1) \in Nat /\ canal \in Seq(Bytes) /\ Len(canal) \in Nat
      /\ buffer \in [Posicoes -> Bytes]
  <2>1. ultima \in Nat /\ ultima + 1 \in Nat /\ TamanhoValido
    BY DEF IInv, TypeOK
  <2>2. Vezes(ultima + 1) \in Nat /\ Tamanho \in Nat
    BY <2>1, VezesTipo
  <2> QED  BY <2>1, <2>2 DEF Recv, IInv, TypeOK, Posicoes
<1>2. /\ Base = Vezes(ultima + 1) + totalRecebido
      /\ \A j \in 1 .. n : canal[j] = Byte(ultima + 1, totalRecebido + j)
      /\ totalRecebido < Tamanho
  BY BytesSeguintes
<1>3. totalRecebido' = totalRecebido + n /\ totalRecebido' \in 0 .. Tamanho
  BY <1>1 DEF Recv
<1>4. buffer' = [k \in Posicoes |->
                   IF k \in totalRecebido + 1 .. totalRecebido + n
                     THEN canal[k - totalRecebido] ELSE buffer[k]]
  BY DEF Recv
<1>5. \A k \in 1 .. totalRecebido + n : buffer'[k] = Byte(ultima + 1, k)
  <2> SUFFICES ASSUME NEW k \in 1 .. totalRecebido + n
               PROVE  buffer'[k] = Byte(ultima + 1, k)
    OBVIOUS
  <2>1. k \in Posicoes
    BY <1>1 DEF Posicoes
  <2>2. CASE k \in totalRecebido + 1 .. totalRecebido + n
    <3>1. k - totalRecebido \in 1 .. n /\ totalRecebido + (k - totalRecebido) = k
      BY <2>2, <1>1
    <3>2. buffer'[k] = canal[k - totalRecebido]
      BY <2>1, <2>2, <1>4
    <3> QED  BY <3>1, <3>2, <1>2
  <2>3. CASE k \in 1 .. totalRecebido
    <3>1. buffer'[k] = buffer[k]
      BY <2>1, <2>3, <1>1, <1>4
    <3>2. buffer[k] = Byte(ultima + 1, k)
      BY <2>3, <1>1, <1>2 DEF Cheio, IInv
    <3> QED  BY <3>1, <3>2
  <2> QED  BY <2>2, <2>3, <1>1
<1>6. buffer' \in [Posicoes -> Bytes]
  <2> SUFFICES ASSUME NEW k \in Posicoes
               PROVE  (IF k \in totalRecebido + 1 .. totalRecebido + n
                         THEN canal[k - totalRecebido] ELSE buffer[k]) \in Bytes
    BY <1>4
  <2> CASE k \in totalRecebido + 1 .. totalRecebido + n
    <3>1. k - totalRecebido \in 1 .. Len(canal)
      BY <1>1
    <3> QED  BY <3>1, <1>1
  <2> CASE k \notin totalRecebido + 1 .. totalRecebido + n
    BY <1>1
  <2> QED  OBVIOUS
<1>7. ASSUME totalRecebido + n = Tamanho
      PROVE  ultima' = ultima + 1
  <2>1. \A k \in Posicoes : buffer'[k] = Byte(ultima + 1, k)
    BY <1>5, <1>7 DEF Posicoes
  <2>2. 1 \in Posicoes
    BY <1>1 DEF Posicoes
  <2>3. buffer'[1].de = ultima + 1
    <3>1. buffer'[1] = Byte(ultima + 1, 1)
      BY <2>1, <2>2
    <3> QED  BY <3>1 DEF Byte
  <2>4. Lida(buffer') = ultima + 1
    BY <2>1, <2>3 DEF Lida
  <2> QED  BY <2>4, <1>3, <1>7 DEF Recv
<1>8. ultima' = IF totalRecebido + n = Tamanho THEN ultima + 1 ELSE ultima
  BY <1>3, <1>7 DEF Recv
<1>9. Base' = Base + n
  <2>1. CASE totalRecebido + n = Tamanho
    <3>1. ultima' = ultima + 1
      BY <2>1, <1>8
    <3>2. Vezes(ultima') = Vezes(ultima + 1)
      BY <3>1
    <3>3. Base' = Vezes(ultima + 1) + Tamanho
      BY <2>1, <1>3, <3>2 DEF Base
    <3>4. Base + n = Vezes(ultima + 1) + Tamanho
      <4>1. Base + n = Vezes(ultima + 1) + (totalRecebido + n)
        BY <1>1, <1>2
      <4> QED  BY <2>1, <4>1
    <3> QED  BY <3>3, <3>4
  <2>2. CASE totalRecebido + n # Tamanho
    <3>1. Base' = Vezes(ultima' + 1) + totalRecebido'
      BY <2>2, <1>3 DEF Base
    <3> QED  BY <2>2, <3>1, <1>1, <1>2, <1>3, <1>8
  <2> QED  BY <2>1, <2>2
<1>10. /\ canal' \in Seq(Bytes) /\ Len(canal') = Len(canal) - n
       /\ \A i \in 1 .. Len(canal) - n : canal'[i] = canal[i + n]
  BY <1>1 DEF Recv
<1>11. Base \in Nat
  BY BaseTipo DEF IInv
<1>12. Topo' = Topo
  BY <1>1, <1>9, <1>10, <1>11 DEF Topo
<1>13. TypeOK'
  BY <1>1, <1>3, <1>6, <1>8, <1>10 DEF TypeOK, IInv, Recv, emissorVars
<1>14. Cheio'
  BY <1>3, <1>5, <1>8 DEF Cheio
<1>15. Corrente'
  <2> SUFFICES ASSUME NEW i \in DOMAIN canal'
               PROVE  Vezes(canal'[i].de) + canal'[i].lugar = Base' + i
    BY DEF Corrente
  <2>1. i \in 1 .. Len(canal) - n /\ i + n \in DOMAIN canal /\ i \in Nat
    BY <1>1, <1>10
  <2>2. Vezes(canal[i + n].de) + canal[i + n].lugar = Base + (i + n)
    BY <2>1 DEF Corrente, IInv
  <2>3. canal'[i] = canal[i + n] /\ n \in Nat
    BY <2>1, <1>1, <1>10
  <2>4. Vezes(canal'[i].de) + canal'[i].lugar = Base + (i + n)
    BY <2>2, <2>3
  <2>5. Base' + i = Base + (i + n)
    BY <2>1, <2>3, <1>9, <1>11
  <2> QED  BY <2>4, <2>5
<1>16. Emenda'
  BY <1>12 DEF Emenda, IInv, Recv, emissorVars
<1> QED
  BY <1>8, <1>9, <1>12, <1>13, <1>14, <1>15, <1>16 DEF IInv

LEMMA PassoTermina ==
    ASSUME IInv, NEW n \in 0 .. Len(canal), Termina(n)
    PROVE  IInv' /\ Base' = Base /\ Topo' \in Nat /\ Topo' <= Topo
<1>1. /\ n \in Nat /\ n <= Len(canal) /\ Len(canal) \in Nat /\ canal \in Seq(Bytes)
  BY DEF IInv, TypeOK
<1>2. /\ canal' \in Seq(Bytes) /\ Len(canal') = n /\ \A i \in 1 .. n : canal'[i] = canal[i]
  BY <1>1 DEF Termina
<1>3. Base' = Base
  BY DEF Base, Termina, receptorVars
<1>4. Base \in Nat
  BY BaseTipo DEF IInv
<1>5. Topo' \in Nat /\ Topo' <= Topo
  BY <1>1, <1>2, <1>3, <1>4 DEF Topo
<1>6. TypeOK'
  BY <1>2 DEF IInv, TypeOK, Termina, emissorVars, receptorVars
<1>7. Corrente'
  BY <1>1, <1>2, <1>3 DEF IInv, Corrente
<1>8. Cheio' /\ Emenda'
  BY DEF IInv, Cheio, Emenda, Termina, receptorVars
<1> QED
  BY <1>3, <1>5, <1>6, <1>7, <1>8 DEF IInv

-----------------------------------------------------------------------------
(* Enviada is the last message of which all bytes are at or below Topo.       *)

Completa(E) == Vezes(E) + Tamanho <= Topo /\ Topo < Vezes(E) + Tamanho + Tamanho

LEMMA HaCompleta ==
    ASSUME IInv
    PROVE  \E E \in Nat : Completa(E)
<1>1. /\ Base \in Nat /\ Topo = Base + Len(canal) /\ Len(canal) \in Nat
      /\ Vezes(ultima) + Tamanho <= Base /\ Base < Vezes(ultima) + Tamanho + Tamanho
      /\ ultima \in Nat /\ Vezes(ultima) \in Nat /\ Tamanho \in Nat /\ Tamanho > 0
      /\ canal \in Seq(Bytes)
  BY BaseTipo, VezesTipo DEF IInv, TypeOK
<1>2. CASE Len(canal) = 0
  BY <1>1, <1>2 DEF Completa
<1>3. Topo \in Nat /\ Tamanho \in Nat /\ Tamanho > 0 /\ Tamanho <= Topo
  BY <1>1
<1>4. CASE Len(canal) > 0
  <2> DEFINE b == canal[Len(canal)]
  <2>1. b \in Bytes /\ Len(canal) \in DOMAIN canal
    BY <1>1, <1>4
  <2>2. b.de \in Nat /\ b.lugar \in 1 .. Tamanho /\ Vezes(b.de) \in Nat
    BY <2>1, VezesTipo DEF Bytes, Posicoes, IInv
  <2>3. Vezes(b.de) + b.lugar = Topo
    BY <2>1, <1>1 DEF Corrente, IInv
  <2>4. CASE b.lugar = Tamanho
    BY <1>3, <2>2, <2>3, <2>4 DEF Completa
  <2>5. CASE b.lugar < Tamanho
    <3>1. b.de # 0
      <4>1. Vezes(b.de) > 0
        BY <1>3, <2>2, <2>3, <2>5
      <4> QED  BY <4>1, VezesZero DEF IInv
    <3>2. b.de - 1 \in Nat /\ (b.de - 1) + 1 = b.de /\ TamanhoValido
      BY <2>2, <3>1 DEF IInv
    <3>3. Vezes((b.de - 1) + 1) = Vezes(b.de - 1) + Tamanho /\ Vezes(b.de - 1) \in Nat
      BY <3>2, VezesTipo
    <3>4. Vezes(b.de) = Vezes(b.de - 1) + Tamanho
      BY <3>2, <3>3
    <3> DEFINE E == b.de - 1
    <3> HIDE DEF b, E
    <3>5. Vezes(E) + Tamanho <= Topo /\ Topo < Vezes(E) + Tamanho + Tamanho
      <4>1. Topo = Vezes(E) + Tamanho + b.lugar
        BY <2>3, <3>4 DEF E
      <4>2. Vezes(E) \in Nat /\ b.lugar \in Nat /\ b.lugar < Tamanho /\ Tamanho \in Nat
        BY <1>3, <2>2, <2>5, <3>3 DEF E
      <4> QED  BY <4>1, <4>2
    <3> QED
      BY <3>2, <3>5 DEF Completa, E
  <2>6. b.lugar = Tamanho \/ b.lugar < Tamanho
    BY <2>2, <1>3
  <2> HIDE DEF b
  <2> QED  BY <2>4, <2>5, <2>6
<1> QED  BY <1>1, <1>2, <1>4

LEMMA CompletaEEnviada ==
    ASSUME IInv, NEW E \in Nat, Completa(E)
    PROVE  Enviada = E /\ ultima <= E
<1>1. /\ Base \in Nat /\ Topo = Base + Len(canal) /\ Len(canal) \in Nat
      /\ Vezes(ultima) + Tamanho <= Base /\ Base < Vezes(ultima) + Tamanho + Tamanho
      /\ ultima \in Nat /\ Vezes(ultima) \in Nat /\ Tamanho \in Nat /\ Tamanho > 0
      /\ canal \in Seq(Bytes) /\ Vezes(E) \in Nat
  BY BaseTipo, VezesTipo DEF IInv, TypeOK
<1>2. Vezes(E) + Tamanho <= Topo /\ Topo < Vezes(E) + Tamanho + Tamanho
  BY DEF Completa
<1>3. ultima <= E
  <2>1. ASSUME E < ultima PROVE FALSE
    <3>1. Vezes(E) + Tamanho <= Vezes(ultima)
      BY <2>1, <1>1, VezesCresce DEF IInv
    <3>2. Vezes(ultima) + Tamanho <= Topo
      BY <1>1
    <3>3. /\ Vezes(E) \in Nat /\ Vezes(ultima) \in Nat /\ Tamanho \in Nat
          /\ Topo \in Nat
      BY <1>1
    <3> QED  BY <3>1, <3>2, <3>3, <1>2
  <2> QED  BY <2>1, <1>1
<1>4. ASSUME NEW j \in Inteiras
      PROVE  /\ j \in DOMAIN canal /\ j \in Nat /\ canal[j].de \in Nat /\ canal[j].de <= E
             /\ Vezes(canal[j].de) \in Nat
             /\ Vezes(canal[j].de) + Tamanho = Base + j
  <2>1. j \in DOMAIN canal /\ canal[j] \in Bytes /\ canal[j].lugar = Tamanho /\ j \in Nat
        /\ j <= Len(canal)
    BY <1>1 DEF Inteiras
  <2>2. canal[j].de \in Nat /\ Vezes(canal[j].de) \in Nat
    BY <2>1, VezesTipo DEF Bytes, IInv
  <2>3. Vezes(canal[j].de) + Tamanho = Base + j
    BY <2>1 DEF Corrente, IInv
  <2>4. ASSUME E < canal[j].de PROVE FALSE
    <3>1. Vezes(E) + Tamanho <= Vezes(canal[j].de)
      BY <2>2, <2>4, VezesCresce DEF IInv
    <3>2. Vezes(canal[j].de) + Tamanho <= Topo
      BY <2>1, <2>3, <1>1
    <3>3. Vezes(E) \in Nat /\ Tamanho \in Nat /\ Topo \in Nat
      BY <1>1
    <3> QED  BY <3>1, <3>2, <3>3, <2>2, <1>2
  <2> QED  BY <2>1, <2>2, <2>3, <2>4
<1>5. CASE Vezes(E) + Tamanho <= Base
  <2>1. Inteiras = {}
    <3> SUFFICES ASSUME NEW j \in Inteiras PROVE FALSE
      OBVIOUS
    <3>1. /\ j \in Nat /\ j > 0 /\ canal[j].de \in Nat /\ canal[j].de <= E
          /\ Vezes(canal[j].de) \in Nat /\ Vezes(canal[j].de) + Tamanho = Base + j
      BY <1>4, <1>1
    <3>2. Vezes(canal[j].de) <= Vezes(E)
      BY <3>1, VezesMonotona DEF IInv
    <3> QED  BY <3>1, <3>2, <1>1, <1>5
  <2>2. E <= ultima
    <3>1. ASSUME ultima < E PROVE FALSE
      <4>1. Vezes(ultima) + Tamanho <= Vezes(E)
        BY <3>1, <1>1, VezesCresce DEF IInv
      <4> QED  BY <4>1, <1>1, <1>5
    <3> QED  BY <3>1, <1>1
  <2> QED  BY <2>1, <2>2, <1>1, <1>3 DEF Enviada
<1>6. CASE Vezes(E) + Tamanho > Base
  <2> DEFINE i == Vezes(E) + Tamanho - Base
  <2>1. i \in 1 .. Len(canal) /\ Base + i = Vezes(E) + Tamanho
    BY <1>1, <1>2, <1>6
  <2> HIDE DEF i
  <2>2. canal[i] \in Bytes /\ i \in DOMAIN canal /\ Tamanho \in Posicoes
    BY <1>1, <2>1 DEF Posicoes
  <2>3. Vezes(canal[i].de) + canal[i].lugar = Vezes(E) + Tamanho
    BY <2>1, <2>2 DEF Corrente, IInv
  <2>4. canal[i].de = E /\ canal[i].lugar = Tamanho
    BY <2>2, <2>3, UmByte DEF Bytes, IInv
  <2>5. i \in Inteiras
    BY <2>2, <2>4 DEF Inteiras
  <2>6. \A j \in Inteiras : j <= i
    <3> SUFFICES ASSUME NEW j \in Inteiras PROVE j <= i
      OBVIOUS
    <3>1. /\ j \in Nat /\ canal[j].de \in Nat /\ canal[j].de <= E
          /\ Vezes(canal[j].de) \in Nat /\ Vezes(canal[j].de) + Tamanho = Base + j
      BY <1>4
    <3>2. Vezes(canal[j].de) <= Vezes(E)
      BY <3>1, VezesMonotona DEF IInv
    <3>3. /\ Vezes(E) \in Nat /\ Base \in Nat /\ Tamanho \in Nat /\ i \in Nat
          /\ Base + i = Vezes(E) + Tamanho
      BY <2>1, <1>1
    <3>4. Base + j <= Base + i
      BY <3>1, <3>2, <3>3
    <3> QED  BY <3>1, <3>3, <3>4
  <2> DEFINE c == CHOOSE k \in Inteiras : \A j \in Inteiras : j <= k
  <2>7. c \in Inteiras /\ \A j \in Inteiras : j <= c
    BY <2>5, <2>6
  <2>8. c = i
    <3>1. c \in Nat /\ i \in Nat /\ c <= i /\ i <= c
      BY <2>1, <2>5, <2>6, <2>7, <1>4, <1>1
    <3> QED  BY <3>1
  <2>9. Enviada = canal[c].de
    BY <2>5 DEF Enviada
  <2> QED  BY <2>4, <2>8, <2>9, <1>3
<1> QED  BY <1>5, <1>6, <1>1

(* What the two lemmas say of a state, in a form that can be primed.          *)
Ligacao ==
    IInv => /\ \E E \in Nat : Completa(E)
            /\ \A E \in Nat : Completa(E) => Enviada = E /\ ultima <= E

LEMMA LigacaoAgora == Ligacao
  BY HaCompleta, CompletaEEnviada DEF Ligacao

LEMMA LigacaoDepois == Ligacao'
  BY LigacaoAgora, PTL

-----------------------------------------------------------------------------
(* Each step of the flow is a step of the connection, or is not seen there.   *)

LEMMA MesmoTopo ==
    ASSUME IInv, IInv', Topo' = Topo
    PROVE  /\ Enviada \in Nat /\ Enviada' = Enviada
           /\ ultima <= Enviada /\ ultima' <= Enviada
<1>1. PICK E \in Nat : Completa(E)
  BY HaCompleta
<1>2. Completa(E)'
  BY <1>1 DEF Completa
<1>3. Enviada = E /\ ultima <= E
  BY <1>1, LigacaoAgora DEF Ligacao
<1>4. Enviada' = E /\ ultima' <= E
  BY <1>2, LigacaoDepois DEF Ligacao
<1> QED  BY <1>3, <1>4

\* A step that neither moves the row's end nor returns a message is not seen.
LEMMA Invisivel ==
    ASSUME IInv, IInv', Topo' = Topo, UNCHANGED <<ultima, aberta>>
    PROVE  UNCHANGED Con!conexaoVars
  BY MesmoTopo DEF Con!conexaoVars

(* The message on its way is the one after the last complete one.             *)
LEMMA Seguinte ==
    ASSUME IInv, aberta, totalEnviado < Tamanho, NEW E \in Nat, Completa(E)
    PROVE  mensagem = E + 1
<1>1. /\ mensagem \in Nat /\ totalEnviado \in Nat /\ Tamanho \in Nat /\ TamanhoValido
      /\ Vezes(mensagem) + totalEnviado = Topo
  BY DEF IInv, TypeOK, Emenda, TamanhoValido
<1>2. /\ Vezes(mensagem) \in Nat /\ Vezes(E) \in Nat /\ Vezes(E + 1) = Vezes(E) + Tamanho
      /\ E + 1 \in Nat
  BY <1>1, VezesTipo
<1>3. Vezes(E) + Tamanho <= Topo /\ Topo < Vezes(E) + Tamanho + Tamanho
  BY DEF Completa
<1>4. ASSUME mensagem < E PROVE FALSE
  <2>1. Vezes(mensagem) + Tamanho <= Vezes(E)
    BY <1>1, <1>4, VezesCresce
  <2> QED  BY <2>1, <1>1, <1>2, <1>3
<1>5. ASSUME mensagem = E PROVE FALSE
  <2>1. Vezes(mensagem) = Vezes(E)
    BY <1>5
  <2> QED  BY <2>1, <1>1, <1>2, <1>3
<1>6. ASSUME E + 1 < mensagem PROVE FALSE
  <2>1. Vezes(E + 1) + Tamanho <= Vezes(mensagem)
    BY <1>1, <1>2, <1>6, VezesCresce
  <2> QED  BY <2>1, <1>1, <1>2, <1>3
<1> QED  BY <1>1, <1>4, <1>5, <1>6

LEMMA SendSimula ==
    ASSUME IInv, NEW n \in Posicoes, Send(n)
    PROVE  Con!Envia \/ UNCHANGED Con!conexaoVars
<1>1. IInv' /\ Topo' = Topo + n
  BY PassoSend
<1>2. /\ aberta /\ aberta' = aberta /\ ultima' = ultima
      /\ n \in 1 .. Tamanho - totalEnviado
  BY DEF Send, receptorVars
<1>3. PICK E \in Nat : Completa(E)
  BY HaCompleta
<1>4. Enviada = E
  BY <1>3, LigacaoAgora DEF Ligacao
<1>5. /\ totalEnviado \in Nat /\ Tamanho \in Nat /\ totalEnviado < Tamanho
      /\ n \in Nat /\ n > 0 /\ totalEnviado + n <= Tamanho /\ TamanhoValido
  BY <1>2 DEF IInv, TypeOK, TamanhoValido
<1>6. mensagem = E + 1
  BY <1>2, <1>3, <1>5, Seguinte
<1>7. /\ Vezes(E) \in Nat /\ Vezes(E + 1) = Vezes(E) + Tamanho /\ E + 1 \in Nat
  BY <1>5, VezesTipo
<1>8. Topo = Vezes(E) + Tamanho + totalEnviado
  <2>1. Vezes(mensagem) + totalEnviado = Topo
    BY <1>2 DEF IInv, Emenda
  <2>2. Vezes(mensagem) = Vezes(E + 1)
    BY <1>6
  <2> QED  BY <2>1, <2>2, <1>5, <1>7
<1>9. Topo' = Vezes(E) + Tamanho + totalEnviado + n
  BY <1>1, <1>8
<1>10. CASE totalEnviado + n < Tamanho
  <2>1. Completa(E)'
    BY <1>5, <1>7, <1>9, <1>10 DEF Completa
  <2>2. Enviada' = E
    BY <1>1, <2>1, LigacaoDepois DEF Ligacao
  <2> QED  BY <1>2, <1>4, <2>2 DEF Con!conexaoVars
<1>11. CASE totalEnviado + n = Tamanho
  <2>1. Completa(E + 1)'
    <3>1. /\ Vezes(E + 1) + Tamanho <= Topo'
          /\ Topo' < Vezes(E + 1) + Tamanho + Tamanho
      BY <1>5, <1>7, <1>9, <1>11
    <3> QED  BY <3>1 DEF Completa
  <2>2. Enviada' = E + 1
    BY <1>1, <1>7, <2>1, LigacaoDepois DEF Ligacao
  <2> QED  BY <1>2, <1>4, <2>2 DEF Con!Envia
<1> QED  BY <1>5, <1>10, <1>11

LEMMA RecvSimula ==
    ASSUME IInv, NEW n \in Posicoes, Recv(n)
    PROVE  Con!Recebe \/ UNCHANGED Con!conexaoVars
<1>1. /\ IInv' /\ Topo' = Topo /\ aberta' = aberta
      /\ ultima' = IF totalRecebido + n = Tamanho THEN ultima + 1 ELSE ultima
  BY PassoRecv DEF Recv
<1>2. ultima \in Nat
  BY DEF IInv, TypeOK
<1>3. CASE ultima' = ultima
  BY <1>1, <1>3, Invisivel
<1>4. CASE ultima' = ultima + 1
  <2>1. Enviada \in Nat /\ Enviada' = Enviada /\ ultima + 1 <= Enviada
    BY <1>1, <1>4, MesmoTopo
  <2> QED  BY <2>1, <1>1, <1>2, <1>4 DEF Con!Recebe
<1> QED  BY <1>1, <1>3, <1>4

LEMMA TerminaSimula ==
    ASSUME IInv, NEW n \in 0 .. Len(canal), Termina(n)
    PROVE  Con!Termina
<1>1. IInv' /\ Topo' \in Nat /\ Topo' <= Topo
  BY PassoTermina
<1>2. aberta' = FALSE /\ ultima' = ultima /\ ultima \in Nat
  BY DEF Termina, receptorVars, IInv, TypeOK
<1>3. PICK E \in Nat : Completa(E)
  BY HaCompleta
<1>4. Enviada = E
  BY <1>3, LigacaoAgora DEF Ligacao
<1>5. PICK F \in Nat : Completa(F)'
  BY <1>1, LigacaoDepois DEF Ligacao
<1>6. Enviada' = F /\ ultima' <= F
  BY <1>1, <1>5, LigacaoDepois DEF Ligacao
<1>7. /\ TamanhoValido /\ Tamanho \in Nat /\ Vezes(E) \in Nat /\ Vezes(F) \in Nat
      /\ Topo \in Nat
  BY VezesTipo, BaseTipo DEF IInv
<1>8. Topo < Vezes(E) + Tamanho + Tamanho /\ Vezes(F) + Tamanho <= Topo'
  BY <1>3, <1>5 DEF Completa
<1>9. ASSUME E < F PROVE FALSE
  <2>1. Vezes(E) + Tamanho <= Vezes(F)
    BY <1>7, <1>9, VezesCresce
  <2> QED  BY <2>1, <1>1, <1>7, <1>8
<1> QED  BY <1>2, <1>4, <1>6, <1>9 DEF Con!Termina

LEMMA PassoSimula ==
    ASSUME IInv, [Next]_fluxoVars
    PROVE  IInv' /\ [Con!Next]_(Con!conexaoVars)
<1>1. CASE ComecaEnvio
  BY <1>1, PassoComecaEnvio, Invisivel DEF ComecaEnvio, receptorVars
<1>2. CASE SendFalha
  BY <1>2, PassoSendFalha, Invisivel DEF SendFalha, receptorVars
<1>3. CASE totalRecebido = Tamanho /\ ComecaRecepcao
  BY <1>3, PassoComecaRecepcao, Invisivel DEF ComecaRecepcao
<1>4. ASSUME NEW n \in Posicoes, Send(n)
      PROVE  IInv' /\ [Con!Next]_(Con!conexaoVars)
  BY <1>4, PassoSend, SendSimula DEF Con!Next
<1>5. ASSUME NEW n \in Posicoes, Recv(n)
      PROVE  IInv' /\ [Con!Next]_(Con!conexaoVars)
  BY <1>5, PassoRecv, RecvSimula DEF Con!Next
<1>6. ASSUME NEW n \in 0 .. Len(canal), Termina(n)
      PROVE  IInv' /\ [Con!Next]_(Con!conexaoVars)
  BY <1>6, PassoTermina, TerminaSimula DEF Con!Next
<1>7. CASE UNCHANGED fluxoVars
  <2>1. Base' = Base /\ Topo' = Topo
    BY <1>7 DEF fluxoVars, Base, Topo
  <2>2. IInv'
    BY <1>7, <2>1 DEF fluxoVars, IInv, TypeOK, Corrente, Emenda, Cheio
  <2> QED  BY <1>7, <2>1, <2>2, Invisivel DEF fluxoVars
<1> QED
  BY <1>1, <1>2, <1>3, <1>4, <1>5, <1>6, <1>7 DEF Next

LEMMA InicioSimula == Init => Con!Init
<1> SUFFICES ASSUME Init PROVE Con!Init
  OBVIOUS
<1>1. Inteiras = {}
  BY DEF Init, Inteiras
<1> QED  BY <1>1 DEF Init, Enviada, Con!Init, Nenhuma

(* For messages of any size, in any number: whatever pieces send and recv     *)
(* make of them and wherever the connection ends, the loops of sendAll and    *)
(* recvAll implement a connection of whole messages in order.                 *)
THEOREM FluxoImplementaConexao ==
    ASSUME TamanhoValido
    PROVE  Spec => ImplementaConexao
<1>1. Init => IInv
  BY InicioIInv
<1>2. IInv /\ [Next]_fluxoVars => IInv' /\ [Con!Next]_(Con!conexaoVars)
  BY PassoSimula
<1> QED
  BY <1>1, <1>2, InicioSimula, PTL DEF Spec, ImplementaConexao, Con!Spec

-----------------------------------------------------------------------------
(* What a user of recvAll may count on: it returns with messages that sendAll *)
(* was given, and with none before the first one is whole.                    *)

\* No byte is ahead of the sender.
Atras == Topo <= Vezes(mensagem) + totalEnviado

Recebidas ==
    /\ mensagem \in 0 .. MaxMensagens /\ totalEnviado \in 0 .. Tamanho
    /\ totalRecebido \in 0 .. Tamanho /\ aberta \in BOOLEAN
    /\ ultima \in 0 .. mensagem
    /\ totalRecebido = Tamanho => ultima # 0

Contada ==
    /\ IInv /\ Atras /\ mensagem <= MaxMensagens
    /\ totalRecebido = Tamanho => ultima # 0

LEMMA ContadaBasta == Contada => Recebidas
<1> SUFFICES ASSUME Contada PROVE Recebidas
  OBVIOUS
<1>1. /\ TamanhoValido /\ mensagem \in Nat /\ ultima \in Nat /\ Len(canal) \in Nat
      /\ totalEnviado \in 0 .. Tamanho /\ Tamanho \in Nat /\ Tamanho > 0
      /\ Vezes(mensagem) \in Nat /\ Vezes(ultima) \in Nat
  <2>1. /\ TamanhoValido /\ mensagem \in Nat /\ ultima \in Nat /\ Len(canal) \in Nat
        /\ totalEnviado \in 0 .. Tamanho
    BY DEF Contada, IInv, TypeOK
  <2> QED  BY <2>1, VezesTipo
<1>2. Vezes(ultima) + Tamanho <= Vezes(mensagem) + totalEnviado
  BY <1>1, BaseTipo DEF Contada, IInv, Atras
<1>3. ~(mensagem < ultima)
  BY <1>1, <1>2, VezesCresce
<1>4. ultima \in 0 .. mensagem /\ mensagem \in 0 .. MaxMensagens
  BY <1>1, <1>3 DEF Contada, TamanhoValido
<1> QED  BY <1>4 DEF Contada, IInv, TypeOK, Recebidas

LEMMA ContadaNoInicio == TamanhoValido /\ Init => Contada
<1> SUFFICES ASSUME TamanhoValido, Init PROVE Contada
  OBVIOUS
<1>1. IInv
  BY InicioIInv
<1>2. Vezes(0) = 0 /\ Vezes(0 + 1) = Vezes(0) + Tamanho /\ Tamanho \in Nat /\ Tamanho > 0
  BY VezesTipo, VezesZero
<1>3. Atras
  BY <1>2 DEF Init, Atras, Topo, Base, Nenhuma
<1> QED  BY <1>1, <1>2, <1>3 DEF Contada, Init, Nenhuma, TamanhoValido

LEMMA ContadaPasso == Contada /\ [Next]_fluxoVars => Contada'
<1> SUFFICES ASSUME Contada, [Next]_fluxoVars PROVE Contada'
  OBVIOUS
<1>1. IInv' /\ IInv /\ Atras
  BY PassoSimula DEF Contada
<1>2. /\ mensagem \in Nat /\ totalEnviado \in 0 .. Tamanho /\ Topo \in Nat
      /\ totalRecebido \in 0 .. Tamanho /\ ultima \in Nat
      /\ Tamanho \in Nat /\ Tamanho > 0 /\ MaxMensagens \in Nat
      /\ Vezes(mensagem) \in Nat /\ Vezes(mensagem + 1) = Vezes(mensagem) + Tamanho
  BY <1>1, BaseTipo, VezesTipo DEF IInv, TypeOK, TamanhoValido
<1>3. CASE ComecaEnvio
  <2>1. Topo' = Topo
    BY <1>1, <1>3, PassoComecaEnvio
  <2>2. Atras'
    BY <1>1, <1>2, <1>3, <2>1 DEF ComecaEnvio, Atras
  <2>3. mensagem' <= MaxMensagens
    BY <1>2, <1>3 DEF ComecaEnvio
  <2> QED  BY <1>1, <1>3, <2>2, <2>3 DEF Contada, ComecaEnvio, receptorVars
<1>4. CASE SendFalha
  <2>1. Topo' = Topo
    BY <1>1, <1>4, PassoSendFalha
  <2>2. Atras'
    BY <1>1, <1>2, <1>4, <2>1 DEF SendFalha, Atras
  <2> QED  BY <1>1, <1>4, <2>2 DEF Contada, SendFalha, receptorVars
<1>5. CASE totalRecebido = Tamanho /\ ComecaRecepcao
  <2>1. Topo' = Topo
    BY <1>1, <1>5, PassoComecaRecepcao
  <2>2. Atras'
    BY <1>1, <1>5, <2>1 DEF ComecaRecepcao, emissorVars, Atras
  <2>3. totalRecebido' # Tamanho
    BY <1>2, <1>5 DEF ComecaRecepcao
  <2> QED  BY <1>1, <1>5, <2>2, <2>3 DEF Contada, ComecaRecepcao, emissorVars
<1>6. ASSUME NEW n \in Posicoes, Send(n)
      PROVE  Contada'
  <2>1. Topo' = Topo + n /\ n \in Nat
    BY <1>1, <1>2, <1>6, PassoSend DEF Posicoes
  <2>2. mensagem' = mensagem /\ totalEnviado' = totalEnviado + n
    BY <1>6 DEF Send
  <2>3. Atras'
    BY <1>1, <1>2, <2>1, <2>2 DEF Atras
  <2> QED  BY <1>1, <1>6, <2>3 DEF Contada, Send, receptorVars
<1>7. ASSUME NEW n \in Posicoes, Recv(n)
      PROVE  Contada'
  <2>1. /\ Topo' = Topo
        /\ ultima' = IF totalRecebido + n = Tamanho THEN ultima + 1 ELSE ultima
    BY <1>1, <1>7, PassoRecv
  <2>2. /\ mensagem' = mensagem /\ totalEnviado' = totalEnviado
        /\ totalRecebido' = totalRecebido + n
    BY <1>7 DEF Recv, emissorVars
  <2>3. Atras'
    BY <1>1, <2>1, <2>2 DEF Atras
  <2>4. totalRecebido' = Tamanho => ultima' # 0
    BY <1>2, <2>1, <2>2
  <2> QED  BY <1>1, <2>2, <2>3, <2>4 DEF Contada
<1>8. ASSUME NEW n \in 0 .. Len(canal), Termina(n)
      PROVE  Contada'
  <2>1. Topo' \in Nat /\ Topo' <= Topo
    BY <1>1, <1>8, PassoTermina
  <2>2. /\ mensagem' = mensagem /\ totalEnviado' = totalEnviado
        /\ totalRecebido' = totalRecebido /\ ultima' = ultima
    BY <1>8 DEF Termina, emissorVars, receptorVars
  <2>3. Atras'
    BY <1>1, <1>2, <2>1, <2>2 DEF Atras
  <2> QED  BY <1>1, <2>2, <2>3 DEF Contada
<1>9. CASE UNCHANGED fluxoVars
  <2>1. Topo' = Topo
    BY <1>9 DEF fluxoVars, Base, Topo
  <2> QED  BY <1>1, <1>9, <2>1 DEF fluxoVars, Contada, Atras
<1> QED
  BY <1>3, <1>4, <1>5, <1>6, <1>7, <1>8, <1>9 DEF Next

LEMMA FluxoContado ==
    ASSUME TamanhoValido
    PROVE  Spec => []Recebidas
<1>1. Init => Contada
  BY ContadaNoInicio
<1>2. Contada => Recebidas
  BY ContadaBasta
<1> QED  BY <1>1, <1>2, ContadaPasso, PTL DEF Spec
=============================================================================
