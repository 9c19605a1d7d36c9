--------------------------- MODULE RingQueueProofs ---------------------------
(* Proofs about the blocking queue, for every capacity, every set of items    *)
(* and any number of producers and consumers.                                 *)
EXTENDS RingQueue, FiniteSetTheorems, SequenceTheorems, TLAPS

-----------------------------------------------------------------------------
(* Arithmetic modulo the capacity.                                            *)

LEMMA Modulo ==
    /\ \A a \in 0 .. 2 * QUEUE_CAPACITY - 1 :
         a % QUEUE_CAPACITY = IF a < QUEUE_CAPACITY THEN a ELSE a - QUEUE_CAPACITY
    /\ QUEUE_CAPACITY \in Nat \ {0}
BY FilaAssumption

-----------------------------------------------------------------------------
(* The inductive invariant: besides the three named parts, what the owner of  *)
(* the critical section established when it left the loop.                    *)

ItemNoLugar ==
    /\ \A p \in Produtores : pc[p] # "fora" => valor[p] \in Valores
    /\ \A p \in Produtores : pc[p] \in {"avanca", "conta"} =>
         /\ ~shutdown
         /\ count < QUEUE_CAPACITY
         /\ items[(front + count) % QUEUE_CAPACITY] = valor[p]
    /\ \A c \in Consumidores : pc[c] \in {"avanca", "conta"} => count > 0

IInv == TypeOK /\ ExclusaoMutua /\ AnelCoerente /\ ItemNoLugar

\* What a wake-up followed by leaving the critical section does to pc.
LEMMA FatosDeAcordar ==
    ASSUME TypeOK, NEW t \in Threads, Dentro(t), NEW grupo \in SUBSET Threads,
           AcordaUmESai(t, grupo)
    PROVE  /\ mutex' = Nada
           /\ pc' \in [Threads -> Lugares]
           /\ pc'[t] = "fora"
           /\ \A u \in Threads \ {t} :
                \/ pc'[u] = pc[u]
                \/ u \in grupo /\ pc[u] = "dorme" /\ pc'[u] = "acordado"
BY DEF AcordaUmESai, TypeOK, Dentro, Lugares

LEMMA InvInicial == Init => IInv
<1> SUFFICES ASSUME Init PROVE IInv
  OBVIOUS
<1>1. TypeOK
  <2>1. 0 \in Indices /\ 0 \in 0 .. QUEUE_CAPACITY /\ 0 \in 0 .. MaxEspurios
    BY Modulo, FilaAssumption DEF Indices
  <2>2. /\ items \in [Indices -> Valores \cup {Nada}]
        /\ pc \in [Threads -> Lugares]
        /\ valor \in [Threads -> Valores \cup {Nada}]
    BY DEF Init, Lugares
  <2> QED  BY <2>1, <2>2 DEF Init, TypeOK
<1>2. ExclusaoMutua
  BY FilaAssumption DEF Init, ExclusaoMutua, Dentro
<1>3. AnelCoerente
  <2>1. Adiantado = 0
    BY FilaAssumption DEF Init, Adiantado, Threads
  <2>2. 0 % QUEUE_CAPACITY = 0
    BY Modulo
  <2> QED  BY <2>1, <2>2 DEF Init, AnelCoerente
<1>4. ItemNoLugar
  BY DEF Init, ItemNoLugar, Threads
<1> QED  BY <1>1, <1>2, <1>3, <1>4 DEF IInv

LEMMA InvChama ==
    ASSUME IInv, NEW t \in Threads, Chama(t)
    PROVE  IInv'
BY FilaAssumption
DEF IInv, Chama, TypeOK, ExclusaoMutua, AnelCoerente, ItemNoLugar, Adiantado, Dentro,
    Lugares, Threads

LEMMA InvEntra ==
    ASSUME IInv, NEW t \in Threads, Entra(t)
    PROVE  IInv'
BY FilaAssumption
DEF IInv, Entra, TypeOK, ExclusaoMutua, AnelCoerente, ItemNoLugar, Adiantado, Dentro,
    Lugares, Threads

LEMMA InvDorme ==
    ASSUME IInv, NEW t \in Threads, Dorme(t)
    PROVE  IInv'
BY FilaAssumption
DEF IInv, Dorme, TypeOK, ExclusaoMutua, AnelCoerente, ItemNoLugar, Adiantado, Dentro,
    Lugares, Threads

LEMMA InvDesperta ==
    ASSUME IInv, NEW t \in Threads, DespertaEspurio(t)
    PROVE  IInv'
BY FilaAssumption
DEF IInv, DespertaEspurio, TypeOK, ExclusaoMutua, AnelCoerente, ItemNoLugar, Adiantado,
    Dentro, Lugares, Threads

LEMMA InvRecusa ==
    ASSUME IInv, NEW t \in Threads, Recusa(t)
    PROVE  IInv'
BY FilaAssumption
DEF IInv, Recusa, TypeOK, ExclusaoMutua, AnelCoerente, ItemNoLugar, Adiantado, Dentro,
    Lugares, Threads

LEMMA InvEncerra ==
    ASSUME IInv, NEW e \in Encerradores, Encerra(e)
    PROVE  IInv'
BY FilaAssumption
DEF IInv, Encerra, TypeOK, ExclusaoMutua, AnelCoerente, ItemNoLugar, Adiantado, Dentro,
    Lugares, Threads

LEMMA InvEscreveItem ==
    ASSUME IInv, NEW p \in Produtores, EscreveItem(p)
    PROVE  IInv'
<1>1. p \in Threads /\ mutex = p /\ p \notin Consumidores
  BY FilaAssumption DEF IInv, ExclusaoMutua, Dentro, EscreveItem, Threads
<1>2. Adiantado = 0 /\ Adiantado' = 0
  BY <1>1, FilaAssumption DEF Adiantado, EscreveItem, IInv, TypeOK
<1>3. TypeOK'
  BY <1>1 DEF IInv, EscreveItem, TypeOK, ItemNoLugar, Lugares
<1>4. ExclusaoMutua'
  BY <1>1 DEF IInv, EscreveItem, TypeOK, ExclusaoMutua, Dentro
<1>5. AnelCoerente'
  BY <1>2 DEF IInv, EscreveItem, AnelCoerente
<1>6. ItemNoLugar'
  <2>1. count < QUEUE_CAPACITY
    BY Modulo DEF IInv, TypeOK, EscreveItem
  <2>2. rear = (front + count) % QUEUE_CAPACITY /\ rear \in Indices
    BY <1>2 DEF IInv, TypeOK, AnelCoerente, Indices
  <2>3. items'[(front + count) % QUEUE_CAPACITY] = valor[p]
    BY <2>2 DEF IInv, TypeOK, EscreveItem
  <2>4. \A q \in Produtores : q # p => pc[q] \notin {"avanca", "conta"}
    BY <1>1 DEF IInv, ExclusaoMutua, Dentro, Threads
  <2> QED
    BY <1>1, <2>1, <2>3, <2>4, FilaAssumption
    DEF IInv, EscreveItem, ItemNoLugar, TypeOK, Threads
<1> QED  BY <1>3, <1>4, <1>5, <1>6 DEF IInv

LEMMA InvAvancaRear ==
    ASSUME IInv, NEW p \in Produtores, AvancaRear(p)
    PROVE  IInv'
<1>1. p \in Threads /\ mutex = p
  BY DEF IInv, ExclusaoMutua, Dentro, AvancaRear, Threads
<1>2. Adiantado = 0 /\ Adiantado' = 1
  BY <1>1, FilaAssumption DEF Adiantado, AvancaRear, IInv, TypeOK
<1>3. rear' = (front + count + 1) % QUEUE_CAPACITY /\ rear' \in Indices
  <2>1. /\ rear = (front + count) % QUEUE_CAPACITY
        /\ count < QUEUE_CAPACITY
        /\ front \in Indices /\ count \in Nat
        /\ rear' = (rear + 1) % QUEUE_CAPACITY
    BY <1>2 DEF IInv, TypeOK, AnelCoerente, AvancaRear, ItemNoLugar, Indices
  <2> QED  BY <2>1, Modulo DEF Indices
<1>4. TypeOK'
  BY <1>1, <1>3 DEF IInv, AvancaRear, TypeOK, Lugares
<1>5. ExclusaoMutua'
  BY <1>1 DEF IInv, AvancaRear, TypeOK, ExclusaoMutua, Dentro
<1>6. AnelCoerente'
  BY <1>2, <1>3 DEF IInv, AvancaRear, AnelCoerente
<1>7. ItemNoLugar'
  BY <1>1, FilaAssumption DEF IInv, AvancaRear, ItemNoLugar, TypeOK, Threads
<1> QED  BY <1>4, <1>5, <1>6, <1>7 DEF IInv

LEMMA InvConcluiPush ==
    ASSUME IInv, NEW p \in Produtores, ConcluiPush(p)
    PROVE  IInv'
<1>1. p \in Threads /\ mutex = p /\ Dentro(p)
  BY DEF IInv, ExclusaoMutua, Dentro, ConcluiPush, Threads
<1>2. Adiantado = 1 /\ Adiantado' = 0
  BY <1>1, FilaAssumption DEF Adiantado, ConcluiPush, AcordaUmESai, Threads
<1>3. /\ mutex' = Nada
      /\ pc' \in [Threads -> Lugares]
      /\ pc'[p] = "fora"
      /\ \A u \in Threads \ {p} :
           \/ pc'[u] = pc[u]
           \/ u \in Consumidores /\ pc[u] = "dorme" /\ pc'[u] = "acordado"
  <2>1. TypeOK /\ AcordaUmESai(p, Consumidores) /\ Consumidores \in SUBSET Threads
    BY DEF IInv, ConcluiPush, Threads
  <2> QED  BY <1>1, <2>1, FatosDeAcordar
<1>4. count < QUEUE_CAPACITY
  BY DEF IInv, ItemNoLugar, ConcluiPush
<1>5. TypeOK'
  BY <1>3, <1>4, Modulo DEF IInv, ConcluiPush, TypeOK
<1>6. ExclusaoMutua'
  BY <1>1, <1>3, FilaAssumption DEF IInv, ExclusaoMutua, Dentro
<1>7. AnelCoerente'
  <2>1. count' = count + 1 /\ front' = front /\ rear' = rear
    BY DEF ConcluiPush
  <2>2. rear = (front + count + 1) % QUEUE_CAPACITY
    BY <1>2 DEF IInv, AnelCoerente
  <2>3. front + (count + 1) + 0 = front + count + 1
    BY DEF IInv, TypeOK, Indices
  <2> QED  BY <1>2, <2>1, <2>2, <2>3 DEF AnelCoerente
<1>8. ItemNoLugar'
  <2>1. \A u \in Threads : pc'[u] \notin {"avanca", "conta"}
    BY <1>1, <1>3 DEF IInv, ExclusaoMutua, Dentro
  <2>2. \A q \in Produtores : pc'[q] # "fora" => valor'[q] \in Valores
    BY <1>3, FilaAssumption DEF IInv, ItemNoLugar, ConcluiPush, Threads
  <2> QED  BY <2>1, <2>2 DEF ItemNoLugar, Threads
<1> QED  BY <1>5, <1>6, <1>7, <1>8 DEF IInv

LEMMA InvLeItem ==
    ASSUME IInv, NEW c \in Consumidores, LeItem(c)
    PROVE  IInv'
<1>1. c \in Threads /\ mutex = c /\ c \notin Produtores
  BY FilaAssumption DEF IInv, ExclusaoMutua, Dentro, LeItem, Threads
<1>2. Adiantado = 0 /\ Adiantado' = 0
  BY <1>1, FilaAssumption DEF Adiantado, LeItem, IInv, TypeOK
<1>3. TypeOK'
  BY <1>1 DEF IInv, LeItem, TypeOK, Lugares
<1>4. ExclusaoMutua'
  BY <1>1 DEF IInv, LeItem, TypeOK, ExclusaoMutua, Dentro
<1>5. AnelCoerente'
  BY <1>2 DEF IInv, LeItem, AnelCoerente
<1>6. ItemNoLugar'
  <2>1. \A q \in Threads : q # c => pc[q] \notin {"avanca", "conta"}
    BY <1>1 DEF IInv, ExclusaoMutua, Dentro
  <2>2. count > 0
    BY Modulo DEF IInv, TypeOK, LeItem
  <2> QED
    BY <1>1, <2>1, <2>2, FilaAssumption
    DEF IInv, LeItem, ItemNoLugar, TypeOK, Threads
<1> QED  BY <1>3, <1>4, <1>5, <1>6 DEF IInv

LEMMA InvAvancaFront ==
    ASSUME IInv, NEW c \in Consumidores, AvancaFront(c)
    PROVE  IInv'
<1>1. c \in Threads /\ mutex = c /\ c \notin Produtores
  BY FilaAssumption DEF IInv, ExclusaoMutua, Dentro, AvancaFront, Threads
<1>2. Adiantado = 0 /\ Adiantado' = -1
  BY <1>1, FilaAssumption DEF Adiantado, AvancaFront, IInv, TypeOK
<1>3. rear' = (front' + count' + -1) % QUEUE_CAPACITY /\ front' \in Indices
  <2>1. /\ rear = (front + count) % QUEUE_CAPACITY
        /\ count > 0 /\ count \in Nat /\ count <= QUEUE_CAPACITY
        /\ front \in Indices
        /\ front' = (front + 1) % QUEUE_CAPACITY
        /\ rear' = rear /\ count' = count
    BY <1>2 DEF IInv, TypeOK, AnelCoerente, AvancaFront, ItemNoLugar, Indices
  <2> QED  BY <2>1, Modulo DEF Indices
<1>4. TypeOK'
  BY <1>1, <1>3 DEF IInv, AvancaFront, TypeOK, Lugares
<1>5. ExclusaoMutua'
  BY <1>1 DEF IInv, AvancaFront, TypeOK, ExclusaoMutua, Dentro
<1>6. AnelCoerente'
  BY <1>2, <1>3 DEF AnelCoerente
<1>7. ItemNoLugar'
  <2>1. \A q \in Threads : q # c => pc[q] \notin {"avanca", "conta"}
    BY <1>1 DEF IInv, ExclusaoMutua, Dentro
  <2> QED
    BY <1>1, <2>1, FilaAssumption DEF IInv, AvancaFront, ItemNoLugar, TypeOK, Threads
<1> QED  BY <1>4, <1>5, <1>6, <1>7 DEF IInv

LEMMA InvConcluiPop ==
    ASSUME IInv, NEW c \in Consumidores, ConcluiPop(c)
    PROVE  IInv'
<1>1. c \in Threads /\ mutex = c /\ Dentro(c) /\ c \notin Produtores
  BY FilaAssumption DEF IInv, ExclusaoMutua, Dentro, ConcluiPop, Threads
<1>2. Adiantado = -1 /\ Adiantado' = 0
  BY <1>1, FilaAssumption DEF Adiantado, ConcluiPop, AcordaUmESai, Threads
<1>3. /\ mutex' = Nada
      /\ pc' \in [Threads -> Lugares]
      /\ pc'[c] = "fora"
      /\ \A u \in Threads \ {c} :
           \/ pc'[u] = pc[u]
           \/ u \in Produtores /\ pc[u] = "dorme" /\ pc'[u] = "acordado"
  <2>1. TypeOK /\ AcordaUmESai(c, Produtores) /\ Produtores \in SUBSET Threads
    BY DEF IInv, ConcluiPop, Threads
  <2> QED  BY <1>1, <2>1, FatosDeAcordar
<1>4. count > 0
  BY DEF IInv, ItemNoLugar, ConcluiPop
<1>5. TypeOK'
  BY <1>3, <1>4, Modulo DEF IInv, ConcluiPop, TypeOK
<1>6. ExclusaoMutua'
  BY <1>1, <1>3, FilaAssumption DEF IInv, ExclusaoMutua, Dentro
<1>7. AnelCoerente'
  <2>1. count' = count - 1 /\ front' = front /\ rear' = rear
    BY DEF ConcluiPop
  <2>2. rear = (front + count + -1) % QUEUE_CAPACITY
    BY <1>2 DEF IInv, AnelCoerente
  <2>3. front + (count - 1) + 0 = front + count + -1
    BY DEF IInv, TypeOK, Indices
  <2> QED  BY <1>2, <2>1, <2>2, <2>3 DEF AnelCoerente
<1>8. ItemNoLugar'
  <2>1. \A u \in Threads : pc'[u] \notin {"avanca", "conta"}
    BY <1>1, <1>3 DEF IInv, ExclusaoMutua, Dentro
  <2>2. \A q \in Produtores : pc'[q] # "fora" => valor'[q] \in Valores
    BY <1>1, <1>3 DEF IInv, ItemNoLugar, ConcluiPop, Threads
  <2> QED  BY <2>1, <2>2 DEF ItemNoLugar, Threads
<1> QED  BY <1>5, <1>6, <1>7, <1>8 DEF IInv

LEMMA InvPasso == IInv /\ [Next]_vars => IInv'
<1> SUFFICES ASSUME IInv, [Next]_vars PROVE IInv'
  OBVIOUS
<1>1. ASSUME NEW t \in Threads, Passo(t) PROVE IInv'
  BY <1>1, InvEntra, InvDorme, InvRecusa, InvEncerra, InvEscreveItem, InvAvancaRear,
     InvConcluiPush, InvLeItem, InvAvancaFront, InvConcluiPop
  DEF Passo, Push, Pop
<1>2. CASE UNCHANGED vars
  BY <1>2
  DEF vars, IInv, TypeOK, ExclusaoMutua, AnelCoerente, ItemNoLugar, Adiantado, Dentro
<1> QED  BY <1>1, <1>2, InvChama, InvDesperta DEF Next, Terminado

(* Every variable keeps its type: the indices stay inside the array and count *)
(* inside its capacity.                                                       *)
THEOREM TiposDaFila == Spec => []TypeOK
BY InvInicial, InvPasso, PTL DEF Spec, IInv

(* At most one thread is between EnterCriticalSection and                     *)
(* LeaveCriticalSection.                                                      *)
THEOREM UmPorVez == Spec => []ExclusaoMutua
BY InvInicial, InvPasso, PTL DEF Spec, IInv

(* The three counters agree, for every capacity and after any number of laps. *)
THEOREM AnelSempreCoerente == Spec => []AnelCoerente
BY InvInicial, InvPasso, PTL DEF Spec, IInv

-----------------------------------------------------------------------------
(* The queue implements Canal.                                                *)

LEMMA FatosDoConteudo ==
    ASSUME IInv
    PROVE  /\ Conteudo \in Seq(Valores \cup {Nada})
           /\ Tamanho \in 0 .. QUEUE_CAPACITY /\ Len(Conteudo) = Tamanho
           /\ Inicio \in Indices
           /\ \A i \in 1 .. Tamanho :
                Conteudo[i] = items[(Inicio + i - 1) % QUEUE_CAPACITY]
<1>1. Tamanho \in 0 .. QUEUE_CAPACITY
  <2>1. count \in 0 .. QUEUE_CAPACITY /\ (Retirando => count > 0)
    BY DEF IInv, TypeOK, Retirando, ItemNoLugar
  <2> QED  BY <2>1, Modulo DEF Tamanho
<1>2. Inicio \in Indices
  BY Modulo DEF Inicio, Indices, IInv, TypeOK
<1>3. \A i \in 1 .. Tamanho : (Inicio + i - 1) % QUEUE_CAPACITY \in Indices
  BY <1>1, <1>2, Modulo DEF Indices
<1>4. Conteudo \in [1 .. Tamanho -> Valores \cup {Nada}]
  BY <1>3 DEF Conteudo, IInv, TypeOK
<1>5. Tamanho \in Nat
  BY <1>1, Modulo
<1>6. Conteudo \in Seq(Valores \cup {Nada})
  BY <1>4, <1>5, SeqDef
<1>7. Len(Conteudo) = Tamanho
  BY <1>4, <1>5, <1>6, LenProperties
<1> QED  BY <1>1, <1>2, <1>6, <1>7 DEF Conteudo

\* A step that changes neither the window nor its items.
LEMMA MesmoConteudo ==
    ASSUME Tamanho' = Tamanho, Inicio' = Inicio,
           \A i \in 1 .. Tamanho :
             items'[(Inicio + i - 1) % QUEUE_CAPACITY]
               = items[(Inicio + i - 1) % QUEUE_CAPACITY]
    PROVE  Conteudo' = Conteudo
BY DEF Conteudo

(* The steps of a call that no user of the queue can see.                     *)
LEMMA PassosInternos ==
    ASSUME IInv, NEW t \in Threads,
           \/ Chama(t) \/ Entra(t) \/ Dorme(t) \/ DespertaEspurio(t) \/ Recusa(t)
    PROVE  UNCHANGED C!canalVars
<1>1. items' = items /\ front' = front /\ count' = count /\ shutdown' = shutdown
  BY DEF Chama, Entra, Dorme, DespertaEspurio, Recusa
<1>2. Retirando' = Retirando /\ (Retirando => pc'[mutex'] = pc[mutex] /\ mutex' = mutex)
  BY FilaAssumption
  DEF Chama, Entra, Dorme, DespertaEspurio, Recusa, Retirando, IInv, TypeOK,
      ExclusaoMutua, Dentro, Threads
<1>3. Tamanho' = Tamanho
  BY <1>1, <1>2 DEF Tamanho
<1>4. Inicio' = Inicio
  BY <1>1, <1>2 DEF Inicio, Retirando
<1>5. Conteudo' = Conteudo
  BY <1>1, <1>3, <1>4, MesmoConteudo
<1>6. \A c \in Consumidores : valor'[c] = valor[c]
  <2>1. CASE Chama(t) /\ t \in Produtores
    <3>1. PICK v \in Valores : valor' = [valor EXCEPT ![t] = v]
      BY <2>1 DEF Chama
    <3>2. t \notin Consumidores /\ Consumidores \subseteq Threads
      BY <2>1, FilaAssumption DEF Threads
    <3> QED  BY <3>1, <3>2 DEF IInv, TypeOK
  <2>2. CASE ~(Chama(t) /\ t \in Produtores)
    <3>1. valor' = valor
      BY <2>2 DEF Chama, Entra, Dorme, DespertaEspurio, Recusa
    <3> QED  BY <3>1
  <2> QED  BY <2>1, <2>2
<1> QED  BY <1>1, <1>5, <1>6 DEF C!canalVars

LEMMA PassoEscreve ==
    ASSUME IInv, NEW p \in Produtores, EscreveItem(p)
    PROVE  UNCHANGED C!canalVars
<1>1. p \in Threads /\ mutex = p /\ p \notin Consumidores /\ mutex' = mutex
  BY FilaAssumption DEF IInv, ExclusaoMutua, Dentro, EscreveItem, Threads
<1>2. /\ ~Retirando /\ ~Retirando'
      /\ Tamanho = count /\ Tamanho' = count /\ Inicio = front /\ Inicio' = front
  BY <1>1 DEF Retirando, Tamanho, Inicio, EscreveItem
<1>3. \A i \in 1 .. count : (front + i - 1) % QUEUE_CAPACITY # rear
  <2>1. /\ count < QUEUE_CAPACITY /\ count \in Nat /\ front \in Indices
        /\ rear = (front + count) % QUEUE_CAPACITY
    BY <1>1, FilaAssumption, Modulo
    DEF IInv, TypeOK, AnelCoerente, Adiantado, EscreveItem, Indices
  <2> QED  BY <2>1, Modulo DEF Indices
<1>4. \A i \in 1 .. count :
        items'[(front + i - 1) % QUEUE_CAPACITY] = items[(front + i - 1) % QUEUE_CAPACITY]
  <2> SUFFICES ASSUME NEW i \in 1 .. count
               PROVE  items'[(front + i - 1) % QUEUE_CAPACITY]
                        = items[(front + i - 1) % QUEUE_CAPACITY]
    OBVIOUS
  <2> DEFINE k == (front + i - 1) % QUEUE_CAPACITY
  <2>1. k # rear
    BY <1>3
  <2>2. items' = [items EXCEPT ![rear] = valor[p]]
    BY DEF EscreveItem
  <2>3. k \in Indices
    BY Modulo DEF Indices, IInv, TypeOK
  <2> HIDE DEF k
  <2>4. items'[k] = items[k]
    BY <2>1, <2>2, <2>3 DEF IInv, TypeOK
  <2> QED  BY <2>4 DEF k
<1>5. Conteudo' = Conteudo
  BY <1>2, <1>4, MesmoConteudo
<1> QED  BY <1>5 DEF C!canalVars, EscreveItem

LEMMA PassoConcluiPush ==
    ASSUME IInv, IInv', NEW p \in Produtores, ConcluiPush(p)
    PROVE  C!Enviar(valor[p]) /\ valor[p] \in Valores
<1>1. p \in Threads /\ mutex = p /\ p \notin Consumidores /\ mutex' = Nada
  BY FilaAssumption DEF IInv, ExclusaoMutua, Dentro, ConcluiPush, Threads, AcordaUmESai
<1>2. /\ Tamanho = count /\ Tamanho' = count + 1
      /\ Inicio = front /\ Inicio' = front
  BY <1>1, FilaAssumption DEF Retirando, Tamanho, Inicio, ConcluiPush, Threads
<1>3. /\ ~shutdown /\ count < QUEUE_CAPACITY /\ count \in Nat
      /\ valor[p] \in Valores
      /\ items[(front + count) % QUEUE_CAPACITY] = valor[p]
      /\ items' = items /\ front \in Int
  BY Modulo DEF IInv, TypeOK, ItemNoLugar, ConcluiPush, Indices
<1>4. /\ Conteudo \in Seq(Valores \cup {Nada}) /\ Len(Conteudo) = count
      /\ \A i \in 1 .. count : Conteudo[i] = items[(front + i - 1) % QUEUE_CAPACITY]
  BY <1>2, FatosDoConteudo
<1>5. /\ Conteudo' \in Seq(Valores \cup {Nada}) /\ Len(Conteudo') = count + 1
      /\ \A i \in 1 .. count + 1 :
           Conteudo'[i] = items[(front + i - 1) % QUEUE_CAPACITY]
  <2>1. (/\ Conteudo \in Seq(Valores \cup {Nada}) /\ Len(Conteudo) = Tamanho
         /\ \A i \in 1 .. Tamanho :
              Conteudo[i] = items[(Inicio + i - 1) % QUEUE_CAPACITY])'
    BY FatosDoConteudo, PTL
  <2> QED  BY <1>2, <1>3, <2>1
<1>6. Conteudo' = Append(Conteudo, valor[p])
  <2> DEFINE s == Append(Conteudo, valor[p])
  <2>1. /\ s \in Seq(Valores \cup {Nada}) /\ Len(s) = count + 1
        /\ \A i \in 1 .. count : s[i] = Conteudo[i]
        /\ s[count + 1] = valor[p]
    BY <1>3, <1>4, AppendProperties
  <2> HIDE DEF s
  <2>2. (front + (count + 1) - 1) = front + count
    BY <1>3
  <2>3. \A i \in 1 .. count + 1 : Conteudo'[i] = s[i]
    <3> SUFFICES ASSUME NEW i \in 1 .. count + 1 PROVE Conteudo'[i] = s[i]
      OBVIOUS
    <3>1. CASE i = count + 1
      <4>1. Conteudo'[i] = items[(front + count) % QUEUE_CAPACITY]
        BY <1>3, <1>5, <2>2, <3>1
      <4> QED  BY <1>3, <2>1, <3>1, <4>1
    <3>2. CASE i \in 1 .. count
      BY <1>4, <1>5, <2>1, <3>2
    <3> QED  BY <1>3, <3>1, <3>2
  <2>4. Conteudo' = s
    BY <1>5, <2>1, <2>3, SeqEqual
  <2> QED  BY <2>4 DEF s
<1>7. shutdown' = shutdown /\ valor' = valor
  BY DEF ConcluiPush
<1> QED  BY <1>3, <1>4, <1>6, <1>7 DEF C!Enviar

LEMMA PassoAvancaRear ==
    ASSUME IInv, NEW p \in Produtores, AvancaRear(p)
    PROVE  UNCHANGED C!canalVars
<1>1. p \notin Consumidores /\ mutex = p /\ mutex' = p
  BY FilaAssumption DEF IInv, ExclusaoMutua, Dentro, AvancaRear, Threads
<1>2. /\ Tamanho = count /\ Tamanho' = count /\ Inicio = front /\ Inicio' = front
      /\ items' = items
  BY <1>1 DEF Retirando, Tamanho, Inicio, AvancaRear
<1>3. Conteudo' = Conteudo
  BY <1>2, MesmoConteudo
<1> QED  BY <1>3 DEF C!canalVars, AvancaRear

LEMMA PassoLeItem ==
    ASSUME IInv, IInv', NEW c \in Consumidores, LeItem(c)
    PROVE  C!Receber(c)
<1>1. /\ c \in Threads /\ mutex = c /\ mutex' = c
      /\ pc[c] = "testa" /\ pc'[c] = "avanca"
  BY DEF IInv, TypeOK, ExclusaoMutua, Dentro, LeItem, Threads
<1>2. /\ Tamanho = count /\ Tamanho' = count - 1
      /\ Inicio = front /\ Inicio' = (front + 1) % QUEUE_CAPACITY
  BY <1>1 DEF Retirando, Tamanho, Inicio, LeItem
<1>3. /\ count \in 1 .. QUEUE_CAPACITY /\ front \in Indices
      /\ items' = items
      /\ valor' = [valor EXCEPT ![c] = items[front]]
  BY Modulo DEF IInv, TypeOK, LeItem
<1>4. /\ Conteudo \in Seq(Valores \cup {Nada}) /\ Len(Conteudo) = count
      /\ \A i \in 1 .. count : Conteudo[i] = items[(front + i - 1) % QUEUE_CAPACITY]
  BY <1>2, FatosDoConteudo
<1>5. /\ Conteudo' \in Seq(Valores \cup {Nada}) /\ Len(Conteudo') = count - 1
      /\ \A i \in 1 .. count - 1 :
           Conteudo'[i] = items[(((front + 1) % QUEUE_CAPACITY) + i - 1) % QUEUE_CAPACITY]
  <2>1. (/\ Conteudo \in Seq(Valores \cup {Nada}) /\ Len(Conteudo) = Tamanho
         /\ \A i \in 1 .. Tamanho :
              Conteudo[i] = items[(Inicio + i - 1) % QUEUE_CAPACITY])'
    BY FatosDoConteudo, PTL
  <2> QED  BY <1>2, <1>3, <2>1
<1>6. Conteudo # << >> /\ Head(Conteudo) = items[front]
  <2>1. Conteudo # << >>
    BY <1>3, <1>4, EmptySeq, Modulo
  <2>2. Head(Conteudo) = Conteudo[1]
    BY <1>4, <2>1
  <2>3. (front + 1 - 1) % QUEUE_CAPACITY = front
    BY <1>3, Modulo DEF Indices
  <2>4. Conteudo[1] = items[front]
    BY <1>3, <1>4, <2>3
  <2> QED  BY <2>1, <2>2, <2>4
<1>7. Conteudo' = Tail(Conteudo)
  <2> DEFINE s == Tail(Conteudo)
  <2>1. /\ s \in Seq(Valores \cup {Nada}) /\ Len(s) = count - 1
        /\ \A i \in 1 .. count - 1 : s[i] = Conteudo[i + 1]
    BY <1>4, <1>6, HeadTailProperties
  <2> HIDE DEF s
  <2>2. ASSUME NEW i \in 1 .. count - 1 PROVE Conteudo'[i] = s[i]
    <3>1. i + 1 \in 1 .. count /\ s[i] = Conteudo[i + 1]
      BY <1>3, <2>1
    <3>2. s[i] = items[(front + (i + 1) - 1) % QUEUE_CAPACITY]
      BY <1>4, <3>1
    <3>3. (((front + 1) % QUEUE_CAPACITY) + i - 1) % QUEUE_CAPACITY
            = (front + (i + 1) - 1) % QUEUE_CAPACITY
      BY <1>3, Modulo DEF Indices
    <3> QED  BY <1>5, <3>2, <3>3
  <2>3. Conteudo' = s
    BY <1>5, <2>1, <2>2, SeqEqual
  <2> QED  BY <2>3 DEF s
<1>8. [d \in Consumidores |-> valor[d]]'
        = [[d \in Consumidores |-> valor[d]] EXCEPT ![c] = items[front]]
  BY <1>3 DEF IInv, TypeOK, Threads
<1> QED  BY <1>6, <1>7, <1>8 DEF C!Receber, LeItem

LEMMA PassoAvancaFront ==
    ASSUME IInv, NEW c \in Consumidores, AvancaFront(c)
    PROVE  UNCHANGED C!canalVars
<1>1. /\ c \in Threads /\ mutex = c /\ mutex' = c
      /\ pc[c] = "avanca" /\ pc'[c] = "conta"
  BY DEF IInv, TypeOK, ExclusaoMutua, Dentro, AvancaFront, Threads
<1>2. Tamanho' = Tamanho /\ Inicio' = Inicio /\ items' = items
  BY <1>1 DEF Retirando, Tamanho, Inicio, AvancaFront
<1>3. Conteudo' = Conteudo
  BY <1>2, MesmoConteudo
<1> QED  BY <1>3 DEF C!canalVars, AvancaFront

LEMMA PassoConcluiPop ==
    ASSUME IInv, NEW c \in Consumidores, ConcluiPop(c)
    PROVE  UNCHANGED C!canalVars
<1>1. c \in Threads /\ mutex = c /\ pc[c] = "conta" /\ mutex' = Nada
  BY DEF IInv, ExclusaoMutua, Dentro, ConcluiPop, Threads, AcordaUmESai
<1>2. Tamanho' = Tamanho /\ Inicio' = Inicio /\ items' = items
  BY <1>1, FilaAssumption DEF Retirando, Tamanho, Inicio, ConcluiPop, Threads
<1>3. Conteudo' = Conteudo
  BY <1>2, MesmoConteudo
<1> QED  BY <1>3 DEF C!canalVars, ConcluiPop

LEMMA PassoEncerra ==
    ASSUME IInv, NEW e \in Encerradores, Encerra(e)
    PROVE  C!Fechar
<1>1. e \in Threads /\ mutex = e /\ mutex' = Nada /\ e \notin Consumidores
  BY FilaAssumption DEF IInv, ExclusaoMutua, Dentro, Encerra, Threads
<1>2. Tamanho' = Tamanho /\ Inicio' = Inicio /\ items' = items
  BY <1>1, FilaAssumption DEF Retirando, Tamanho, Inicio, Encerra, Threads
<1>3. Conteudo' = Conteudo
  BY <1>2, MesmoConteudo
<1> QED  BY <1>3 DEF C!Fechar, Encerra

(* The refinement: whatever the interleaving of its threads, the blocking     *)
(* ring buffer is a bounded first-in first-out channel that can be closed.    *)
THEOREM FilaImplementaCanal == Spec => ImplementaCanal
<1>1. Init => C!Init
  <2> SUFFICES ASSUME Init PROVE C!Init
    OBVIOUS
  <2>1. IInv /\ Tamanho = 0
    BY InvInicial, FilaAssumption DEF Init, Tamanho, Retirando, Threads
  <2>2. Conteudo = << >>
    BY <2>1, FatosDoConteudo, EmptySeq
  <2> QED  BY <2>2 DEF Init, C!Init, Threads
<1>2. IInv /\ IInv' /\ [Next]_vars => [C!Next]_C!canalVars
  <2> SUFFICES ASSUME IInv, IInv', [Next]_vars PROVE [C!Next]_C!canalVars
    OBVIOUS
  <2>1. ASSUME NEW t \in Threads, Chama(t) \/ Passo(t) \/ DespertaEspurio(t)
        PROVE  [C!Next]_C!canalVars
    <3>1. CASE Chama(t) \/ Entra(t) \/ Dorme(t) \/ DespertaEspurio(t) \/ Recusa(t)
      BY <3>1, PassosInternos
    <3>2. CASE t \in Produtores /\ Push(t)
      BY <3>2, PassoEscreve, PassoAvancaRear, PassoConcluiPush DEF Push, C!Next
    <3>3. CASE t \in Consumidores /\ Pop(t)
      BY <3>3, PassoLeItem, PassoAvancaFront, PassoConcluiPop DEF Pop, C!Next
    <3>4. CASE t \in Encerradores /\ Encerra(t)
      BY <3>4, PassoEncerra DEF C!Next
    <3> QED  BY <2>1, <3>1, <3>2, <3>3, <3>4 DEF Passo
  <2>2. CASE UNCHANGED vars
    BY <2>2 DEF vars, C!canalVars, Conteudo, Tamanho, Inicio, Retirando
  <2> QED  BY <2>1, <2>2 DEF Next, Terminado
<1>3. Spec => []IInv
  BY InvInicial, InvPasso, PTL DEF Spec
<1> QED  BY <1>1, <1>2, <1>3, PTL DEF Spec, ImplementaCanal, C!Spec

-----------------------------------------------------------------------------
(* No wake-up is lost.  The two halves of SemDespertarPerdido are the same    *)
(* statement about a group of threads and a number of things to be had.       *)

SemPerda(grupo, n) == Dormindo(grupo) # {} => n <= Cardinality(ACaminho(grupo))

LEMMA Finitos ==
    ASSUME NEW grupo \in SUBSET Threads
    PROVE  /\ IsFiniteSet(ACaminho(grupo)) /\ Cardinality(ACaminho(grupo)) \in Nat
           /\ IsFiniteSet(ACaminho(grupo)') /\ Cardinality(ACaminho(grupo)') \in Nat
<1>1. ACaminho(grupo) \in SUBSET Threads /\ ACaminho(grupo)' \in SUBSET Threads
  BY DEF ACaminho
<1> QED  BY <1>1, FilaAssumption, FS_Subset, FS_CardinalityType

\* Nobody of the group falls asleep or goes back to where he came from.
LEMMA NinguemSai ==
    ASSUME NEW grupo \in SUBSET Threads, NEW n \in Int, SemPerda(grupo, n),
           ACaminho(grupo) \subseteq ACaminho(grupo)',
           Dormindo(grupo)' \subseteq Dormindo(grupo)
    PROVE  Dormindo(grupo)' # {} => n <= Cardinality(ACaminho(grupo)')
<1>1. Cardinality(ACaminho(grupo)) <= Cardinality(ACaminho(grupo)')
  BY Finitos, FS_Subset
<1> QED  BY <1>1, Finitos DEF SemPerda

\* Somebody else wakes one of the group.
LEMMA AcordaUm ==
    ASSUME TypeOK, NEW grupo \in SUBSET Threads, NEW n \in Int, SemPerda(grupo, n),
           NEW t \in Threads \ grupo, AcordaUmESai(t, grupo)
    PROVE  Dormindo(grupo)' # {} => n + 1 <= Cardinality(ACaminho(grupo)')
<1> SUFFICES ASSUME Dormindo(grupo)' # {}
             PROVE  n + 1 <= Cardinality(ACaminho(grupo)')
  OBVIOUS
<1>1. Dormindo(grupo) # {}
  BY DEF Dormindo, AcordaUmESai, TypeOK
<1>2. PICK u \in Dormindo(grupo) : pc' = [pc EXCEPT ![t] = "fora", ![u] = "acordado"]
  BY <1>1 DEF Dormindo, AcordaUmESai
<1>3. u \notin ACaminho(grupo) /\ ACaminho(grupo)' = ACaminho(grupo) \cup {u}
  BY <1>2 DEF Dormindo, ACaminho, TypeOK
<1>4. Cardinality(ACaminho(grupo)') = Cardinality(ACaminho(grupo)) + 1
  BY <1>3, Finitos, FS_AddElement
<1> QED  BY <1>1, <1>4, Finitos DEF SemPerda

\* One of the group has what it came for, and wakes somebody else.
LEMMA UmSai ==
    ASSUME TypeOK, NEW grupo \in SUBSET Threads, NEW n \in Int, SemPerda(grupo, n),
           NEW outros \in SUBSET Threads, outros \cap grupo = {},
           NEW t \in grupo, Dentro(t), AcordaUmESai(t, outros)
    PROVE  Dormindo(grupo)' # {} => n - 1 <= Cardinality(ACaminho(grupo)')
<1>1. \A u \in grupo \ {t} : pc'[u] = pc[u]
  BY DEF AcordaUmESai, TypeOK
<1>2. pc'[t] = "fora" /\ pc[t] \in {"testa", "avanca", "conta"}
  BY DEF AcordaUmESai, TypeOK, Dentro
<1>3. ACaminho(grupo)' = ACaminho(grupo) \ {t} /\ t \in ACaminho(grupo)
  BY <1>1, <1>2 DEF ACaminho
<1>4. Dormindo(grupo)' = Dormindo(grupo)
  BY <1>1, <1>2 DEF Dormindo
<1>5. Cardinality(ACaminho(grupo)') = Cardinality(ACaminho(grupo)) - 1
  BY <1>3, Finitos, FS_RemoveElement
<1> QED  BY <1>4, <1>5, Finitos DEF SemPerda

(* The inductive form of SemDespertarPerdido.                                 *)
NinguemEsquecido ==
    /\ SemPerda(Consumidores, count)
    /\ SemPerda(Produtores, QUEUE_CAPACITY - count)
    /\ shutdown => Dormindo(Threads) = {}

LEMMA GruposDeThreads ==
    /\ Consumidores \in SUBSET Threads /\ Produtores \in SUBSET Threads
    /\ Consumidores \cap Produtores = {}
BY FilaAssumption DEF Threads

\* The steps that neither push nor pop.
LEMMA EsquecidoInternos ==
    ASSUME IInv, NinguemEsquecido, NEW t \in Threads,
           Chama(t) \/ Entra(t) \/ DespertaEspurio(t) \/ Recusa(t)
    PROVE  NinguemEsquecido'
<1>1. count' = count /\ shutdown' = shutdown /\ count \in Int /\ QUEUE_CAPACITY \in Int
  BY Modulo DEF Chama, Entra, DespertaEspurio, Recusa, IInv, TypeOK
<1>2. Dormindo(Threads)' \subseteq Dormindo(Threads)
  BY DEF Chama, Entra, DespertaEspurio, Recusa, Dormindo, IInv, TypeOK
<1>3. CASE shutdown
  <2>1. Dormindo(Threads)' = {}
    BY <1>2, <1>3 DEF NinguemEsquecido
  <2>2. Dormindo(Consumidores)' = {} /\ Dormindo(Produtores)' = {}
    BY <2>1, GruposDeThreads DEF Dormindo
  <2> QED  BY <2>1, <2>2 DEF NinguemEsquecido, SemPerda
<1>4. CASE ~shutdown
  <2>1. \A grupo \in SUBSET Threads :
          /\ ACaminho(grupo) \subseteq ACaminho(grupo)'
          /\ Dormindo(grupo)' \subseteq Dormindo(grupo)
    BY <1>4
    DEF Chama, Entra, DespertaEspurio, Recusa, Dormindo, ACaminho, IInv, TypeOK
  <2>2. Dormindo(Consumidores)' # {} => count <= Cardinality(ACaminho(Consumidores)')
    BY <1>1, <2>1, GruposDeThreads, NinguemSai DEF NinguemEsquecido
  <2>3. Dormindo(Produtores)' # {} =>
          QUEUE_CAPACITY - count <= Cardinality(ACaminho(Produtores)')
    BY <1>1, <2>1, GruposDeThreads, NinguemSai DEF NinguemEsquecido
  <2> QED  BY <1>1, <1>4, <2>2, <2>3 DEF NinguemEsquecido, SemPerda
<1> QED  BY <1>3, <1>4

\* Falling asleep: there is nothing to be had.
LEMMA EsquecidoDorme ==
    ASSUME IInv, NinguemEsquecido, NEW t \in Threads, Dorme(t)
    PROVE  NinguemEsquecido'
<1>0. /\ count' = count /\ ~shutdown /\ shutdown' = shutdown
      /\ pc[t] = "testa" /\ pc' = [pc EXCEPT ![t] = "dorme"]
      /\ count \in Int /\ QUEUE_CAPACITY \in Int
  BY Modulo DEF Dorme, IInv, TypeOK
<1>1. ASSUME NEW grupo \in SUBSET Threads, NEW n \in Int, SemPerda(grupo, n),
             t \in grupo => n = 0
      PROVE  Dormindo(grupo)' # {} => n <= Cardinality(ACaminho(grupo)')
  <2>1. CASE t \in grupo
    BY <1>1, <2>1, Finitos
  <2>2. CASE t \notin grupo
    <3>1. ACaminho(grupo)' = ACaminho(grupo) /\ Dormindo(grupo)' = Dormindo(grupo)
      BY <1>0, <2>2 DEF ACaminho, Dormindo, IInv, TypeOK
    <3> QED  BY <1>1, <3>1 DEF SemPerda
  <2> QED  BY <2>1, <2>2
<1>2. /\ t \in Consumidores => count = 0
      /\ t \in Produtores => QUEUE_CAPACITY - count = 0
  BY GruposDeThreads, <1>0 DEF Dorme
<1> QED  BY <1>0, <1>1, <1>2, GruposDeThreads DEF NinguemEsquecido, SemPerda

LEMMA EsquecidoEncerra ==
    ASSUME IInv, NEW e \in Encerradores, Encerra(e)
    PROVE  NinguemEsquecido'
<1>1. \A t \in Threads : pc'[t] # "dorme"
  BY DEF Encerra, IInv, TypeOK
<1> QED  BY <1>1, GruposDeThreads DEF NinguemEsquecido, SemPerda, Dormindo

LEMMA EsquecidoPush ==
    ASSUME IInv, NinguemEsquecido, NEW p \in Produtores, Push(p)
    PROVE  NinguemEsquecido'
<1>0. p \in Threads /\ p \notin Consumidores /\ count \in Int /\ QUEUE_CAPACITY \in Int
  BY GruposDeThreads, Modulo DEF IInv, TypeOK
<1>1. CASE EscreveItem(p) \/ AvancaRear(p)
  <2>1. count' = count /\ shutdown' = shutdown
    BY <1>1 DEF EscreveItem, AvancaRear
  <2>2. \A grupo \in SUBSET Threads :
          ACaminho(grupo)' = ACaminho(grupo) /\ Dormindo(grupo)' = Dormindo(grupo)
    BY <1>0, <1>1 DEF EscreveItem, AvancaRear, ACaminho, Dormindo, IInv, TypeOK
  <2> QED  BY <2>1, <2>2, GruposDeThreads DEF NinguemEsquecido, SemPerda
<1>2. CASE ConcluiPush(p)
  <2>1. /\ AcordaUmESai(p, Consumidores) /\ Dentro(p) /\ TypeOK
        /\ count' = count + 1 /\ shutdown' = shutdown /\ ~shutdown
    BY <1>2 DEF ConcluiPush, Dentro, IInv, ItemNoLugar
  <2>2. Dormindo(Consumidores)' # {} =>
          count + 1 <= Cardinality(ACaminho(Consumidores)')
    BY <1>0, <2>1, GruposDeThreads, AcordaUm DEF NinguemEsquecido
  <2>3. Dormindo(Produtores)' # {} =>
          (QUEUE_CAPACITY - count) - 1 <= Cardinality(ACaminho(Produtores)')
    BY <1>0, <2>1, GruposDeThreads, UmSai DEF NinguemEsquecido
  <2>4. QUEUE_CAPACITY - (count + 1) = (QUEUE_CAPACITY - count) - 1
    BY <1>0
  <2> QED  BY <2>1, <2>2, <2>3, <2>4 DEF NinguemEsquecido, SemPerda
<1> QED  BY <1>1, <1>2 DEF Push

LEMMA EsquecidoPop ==
    ASSUME IInv, NinguemEsquecido, NEW c \in Consumidores, Pop(c)
    PROVE  NinguemEsquecido'
<1>0. c \in Threads /\ c \notin Produtores /\ count \in Int /\ QUEUE_CAPACITY \in Int
  BY GruposDeThreads, Modulo DEF IInv, TypeOK
<1>1. CASE LeItem(c) \/ AvancaFront(c)
  <2>1. count' = count /\ shutdown' = shutdown
    BY <1>1 DEF LeItem, AvancaFront
  <2>2. \A grupo \in SUBSET Threads :
          ACaminho(grupo)' = ACaminho(grupo) /\ Dormindo(grupo)' = Dormindo(grupo)
    BY <1>0, <1>1 DEF LeItem, AvancaFront, ACaminho, Dormindo, IInv, TypeOK
  <2> QED  BY <2>1, <2>2, GruposDeThreads DEF NinguemEsquecido, SemPerda
<1>2. CASE ConcluiPop(c)
  <2>1. /\ AcordaUmESai(c, Produtores) /\ Dentro(c) /\ TypeOK
        /\ count' = count - 1 /\ shutdown' = shutdown
    BY <1>2 DEF ConcluiPop, Dentro, IInv
  <2>2. Dormindo(Consumidores)' # {} =>
          count - 1 <= Cardinality(ACaminho(Consumidores)')
    BY <1>0, <2>1, GruposDeThreads, UmSai DEF NinguemEsquecido
  <2>3. Dormindo(Produtores)' # {} =>
          (QUEUE_CAPACITY - count) + 1 <= Cardinality(ACaminho(Produtores)')
    BY <1>0, <2>1, GruposDeThreads, AcordaUm DEF NinguemEsquecido
  <2>4. QUEUE_CAPACITY - (count - 1) = (QUEUE_CAPACITY - count) + 1
    BY <1>0
  <2>5. Dormindo(Threads)' \subseteq Dormindo(Threads)
    BY <2>1 DEF AcordaUmESai, Dormindo, TypeOK
  <2> QED  BY <2>1, <2>2, <2>3, <2>4, <2>5 DEF NinguemEsquecido, SemPerda
<1> QED  BY <1>1, <1>2 DEF Pop

LEMMA InvariantesDaFila == Spec => [](IInv /\ NinguemEsquecido)
<1>1. Init => NinguemEsquecido
  BY DEF Init, NinguemEsquecido, SemPerda, Dormindo, Threads
<1>2. IInv /\ NinguemEsquecido /\ [Next]_vars => NinguemEsquecido'
  <2> SUFFICES ASSUME IInv, NinguemEsquecido, [Next]_vars PROVE NinguemEsquecido'
    OBVIOUS
  <2>1. ASSUME NEW t \in Threads, Passo(t) PROVE NinguemEsquecido'
    BY <2>1, EsquecidoInternos, EsquecidoDorme, EsquecidoEncerra, EsquecidoPush,
       EsquecidoPop
    DEF Passo
  <2>2. CASE UNCHANGED vars
    BY <2>2 DEF vars, NinguemEsquecido, SemPerda, Dormindo, ACaminho
  <2> QED  BY <2>1, <2>2, EsquecidoInternos DEF Next, Terminado
<1>3. Spec => []IInv
  BY InvInicial, InvPasso, PTL DEF Spec
<1> QED  BY <1>1, <1>2, <1>3, PTL DEF Spec

(* However many producers and consumers compete, waking one sleeper per push  *)
(* or pop is enough, and a shutdown leaves nobody asleep.                     *)
THEOREM NenhumDespertarPerdido == Spec => []SemDespertarPerdido
<1>1. NinguemEsquecido => SemDespertarPerdido
  BY DEF NinguemEsquecido, SemPerda, SemDespertarPerdido
<1> QED  BY <1>1, InvariantesDaFila, PTL

-----------------------------------------------------------------------------
(* After the shutdown.  Nobody is asleep and no producer is past its test, so *)
(* a step is one of a consumer that takes an item, or of a thread on its way  *)
(* to its first test.                                                         *)

LEMMA FaltaNatural ==
    ASSUME TypeOK, NEW t \in Threads
    PROVE  Falta(t) \in Nat
<1>1. pc[t] \in Lugares /\ count \in Nat
  BY FilaAssumption DEF TypeOK
<1> QED  BY <1>1 DEF Falta, Lugares

LEMMA FaltaNaturalDepois ==
    ASSUME TypeOK', NEW t \in Threads
    PROVE  Falta(t)' \in Nat
<1>1. pc'[t] \in Lugares /\ count' \in Nat
  BY FilaAssumption DEF TypeOK
<1> QED  BY <1>1 DEF Falta, Lugares

\* A step of one thread that gets nearer to its end.
LEMMA UmAvanca ==
    ASSUME TypeOK, TypeOK', NEW t \in Threads,
           \A u \in Threads \ {t} : pc'[u] = pc[u],
           count' <= count,
           Falta(t)' < Falta(t)
    PROVE  /\ \A u \in Threads : Falta(u)' \in 0 .. Falta(u)
           /\ \E u \in Threads : Falta(u)' < Falta(u)
<1>1. count \in Nat /\ count' \in Nat
  BY FilaAssumption DEF TypeOK
<1>2. ASSUME NEW u \in Threads
      PROVE  Falta(u)' \in 0 .. Falta(u)
  <2>1. Falta(u) \in Nat /\ Falta(u)' \in Nat
    BY FaltaNatural, FaltaNaturalDepois
  <2>2. CASE u = t
    BY <2>1, <2>2
  <2>3. CASE u # t
    <3>1. pc'[u] = pc[u] /\ pc[u] \in Lugares
      BY <2>3 DEF TypeOK
    <3>2. Falta(u)' <= Falta(u)
      BY <1>1, <3>1 DEF Falta, Lugares
    <3> QED  BY <2>1, <3>2
  <2> QED  BY <2>2, <2>3
<1> QED  BY <1>2

\* The steps up to the test, and a refusal.
LEMMA FaltaDaChamada ==
    ASSUME TypeOK, NEW t \in Threads, Chama(t) \/ Entra(t) \/ Recusa(t)
    PROVE  /\ \A u \in Threads \ {t} : pc'[u] = pc[u]
           /\ count' <= count
           /\ Falta(t)' < Falta(t)
<1>1. count' = count /\ count \in Nat
  BY FilaAssumption DEF Chama, Entra, Recusa, TypeOK
<1>2. \A u \in Threads \ {t} : pc'[u] = pc[u]
  BY DEF Chama, Entra, Recusa, TypeOK
<1>3. \/ pc[t] = "fora" /\ pc'[t] = "entra"
      \/ pc[t] \in {"entra", "acordado"} /\ pc'[t] = "testa"
      \/ pc[t] = "testa" /\ pc'[t] = "fim"
  BY DEF Chama, Entra, Recusa, TypeOK
<1>4. Falta(t)' < Falta(t)
  BY <1>1, <1>3 DEF Falta
<1> QED  BY <1>1, <1>2, <1>4

LEMMA FaltaDoEncerra ==
    ASSUME TypeOK, NEW t \in Encerradores, Encerra(t),
           \A u \in Threads : pc[u] # "dorme"
    PROVE  /\ \A u \in Threads \ {t} : pc'[u] = pc[u]
           /\ count' <= count
           /\ Falta(t)' < Falta(t)
<1>1. count' = count /\ count \in Nat /\ t \in Threads /\ t \notin Consumidores
  BY FilaAssumption DEF Encerra, TypeOK, Threads
<1>2. pc[t] = "testa" /\ pc'[t] = "fim" /\ \A u \in Threads \ {t} : pc'[u] = pc[u]
  BY <1>1 DEF Encerra
<1>3. Falta(t)' < Falta(t)
  BY <1>1, <1>2 DEF Falta
<1> QED  BY <1>1, <1>2, <1>3

LEMMA FaltaDoPop ==
    ASSUME IInv, NEW t \in Consumidores, Pop(t),
           \A u \in Threads : pc[u] # "dorme"
    PROVE  /\ \A u \in Threads \ {t} : pc'[u] = pc[u]
           /\ count' <= count
           /\ Falta(t)' < Falta(t)
<1>0. TypeOK /\ count \in Nat /\ t \in Threads
  BY FilaAssumption DEF IInv, TypeOK, Threads
<1>1. CASE LeItem(t) \/ AvancaFront(t)
  <2>1. /\ count' = count
        /\ \A u \in Threads \ {t} : pc'[u] = pc[u]
        /\ \/ pc[t] = "testa" /\ pc'[t] = "avanca"
           \/ pc[t] = "avanca" /\ pc'[t] = "conta"
    BY <1>0, <1>1 DEF LeItem, AvancaFront, TypeOK
  <2>2. Falta(t)' < Falta(t)
    BY <1>0, <2>1 DEF Falta
  <2> QED  BY <1>0, <2>1, <2>2
<1>2. CASE ConcluiPop(t)
  <2>1. pc[t] = "conta" /\ count' = count - 1
    BY <1>2 DEF ConcluiPop
  <2>2. {u \in Produtores : pc[u] = "dorme"} = {}
    BY DEF Threads
  <2>3. pc' = [pc EXCEPT ![t] = "fora"]
    BY <1>2, <2>2 DEF ConcluiPop, AcordaUmESai
  <2>4. pc'[t] = "fora" /\ \A u \in Threads \ {t} : pc'[u] = pc[u]
    BY <1>0, <2>3 DEF TypeOK
  <2>5. Falta(t)' < Falta(t)
    BY <1>0, <2>1, <2>4 DEF Falta
  <2> QED  BY <1>0, <2>1, <2>4, <2>5
<1> QED  BY <1>1, <1>2 DEF Pop

(* Once the queue is shut down every step of anybody brings some thread       *)
(* nearer to its last return and takes none further away from it, for every   *)
(* capacity and any number of threads that go on calling: what push and pop   *)
(* do after requestQueueShutdown and responseQueueShutdown ends.              *)
THEOREM EncerradaSempreAvanca == Spec => EncerradaAvanca
<1>1. ASSUME IInv, IInv', NinguemEsquecido, shutdown, [Next]_vars, vars' # vars
      PROVE  /\ \A t \in Threads : Falta(t)' \in 0 .. Falta(t)
             /\ \E t \in Threads : Falta(t)' < Falta(t)
  <2>0. /\ TypeOK /\ TypeOK' /\ count \in Nat
        /\ \A t \in Threads : pc[t] \in Lugares \ {"dorme"}
        /\ \A p \in Produtores : pc[p] \notin {"avanca", "conta"}
    BY <1>1, FilaAssumption DEF IInv, TypeOK, NinguemEsquecido, Dormindo, ItemNoLugar
  <2>1. PICK t \in Threads : Chama(t) \/ Passo(t) \/ DespertaEspurio(t)
    BY <1>1 DEF Next, Terminado
  <2>2. /\ \A u \in Threads \ {t} : pc'[u] = pc[u]
        /\ count' <= count
        /\ Falta(t)' < Falta(t)
    <3>1. CASE Chama(t) \/ Entra(t) \/ Recusa(t)
      BY <1>1, <2>0, <3>1, FaltaDaChamada
    <3>2. CASE t \in Encerradores /\ Encerra(t)
      BY <1>1, <2>0, <3>2, FaltaDoEncerra
    <3>3. CASE t \in Consumidores /\ Pop(t)
      BY <1>1, <2>0, <3>3, FaltaDoPop
    <3>4. ~Dorme(t) /\ ~DespertaEspurio(t) /\ ~(t \in Produtores /\ Push(t))
      BY <1>1, <2>0 DEF Dorme, DespertaEspurio, Push, EscreveItem, AvancaRear, ConcluiPush
    <3> QED  BY <2>1, <3>1, <3>2, <3>3, <3>4 DEF Passo
  <2> QED  BY <2>0, <2>2, UmAvanca
<1>2. IInv /\ IInv' /\ NinguemEsquecido /\ [Next]_vars =>
        [shutdown => /\ \A t \in Threads : Falta(t)' \in 0 .. Falta(t)
                     /\ \E t \in Threads : Falta(t)' < Falta(t)]_vars
  BY <1>1
<1> QED  BY <1>2, InvariantesDaFila, PTL DEF Spec, EncerradaAvanca
=============================================================================
