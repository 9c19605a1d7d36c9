---------------------------- MODULE UnoMatchProofs ----------------------------
(* UnoMatch for every number of cards, hand limit, queue capacity and bound   *)
(* on requests, whether main may stop the server or not: the types, the first *)
(* message, the convergence and the agreement of the two views, and that the  *)
(* threads, queues and streams implement the one match of UnoPartida.  The    *)
(* engine is that of UnoGameProofs.  InvPartida, near the end, is the         *)
(* inductive invariant; the stream of messages to one client, through the     *)
(* response queue and its connection, is what most of it is about.            *)
EXTENDS UnoMatch, FiniteSetTheorems, SequenceTheorems, TLAPS

Provas == INSTANCE UnoGameProofs

-----------------------------------------------------------------------------
(* The two seats, and the engine of the match as the one UnoGameProofs is     *)
(* about.                                                                     *)

LEMMA DoisJogadores ==
    /\ MAX_PLAYERS = 2 /\ Jogadores = {0, 1}
    /\ Adversario(0) = 1 /\ Adversario(1) = 0
    /\ \A p \in Jogadores :
         /\ Adversario(p) \in Jogadores /\ Adversario(p) # p
         /\ Adversario(Adversario(p)) = p
         /\ \A q \in Jogadores : q = p \/ q = Adversario(p)
BY DEF Jogadores, MAX_PLAYERS, Adversario

LEMMA MesmosNomes ==
    /\ Jogo!Jogadores = Jogadores /\ Provas!Jogadores = Jogadores
    /\ Jogo!Cartas = Cartas /\ Provas!Cartas = Cartas
    /\ NumCartas \in Nat \ {0} /\ 0 \in Cartas
    /\ MAX_QTD_CARTAS_JOGADOR \in Nat
<1>1. NumCartas \in Nat \ {0}
  BY BaralhoAssumption DEF NumCartas
<1> QED
  BY <1>1, PartidaAssumption
  DEF Jogo!Jogadores, Provas!Jogadores, Jogadores, Jogo!MAX_PLAYERS, Provas!MAX_PLAYERS,
      MAX_PLAYERS, Jogo!Cartas, Provas!Cartas, Cartas, Jogo!NumCartas, Provas!NumCartas,
      NumCartas, Jogo!DistribuicaoAssumption

LEMMA MesmasHipoteses == Provas!BaralhoAssumption /\ Provas!DistribuicaoAssumption
  BY BaralhoAssumption, PartidaAssumption
  DEF Provas!BaralhoAssumption, Provas!DistribuicaoAssumption, Jogo!DistribuicaoAssumption,
      Jogo!MAX_PLAYERS, Provas!MAX_PLAYERS, Jogo!NumCartas, Provas!NumCartas

InvJogo == Provas!TypeOK /\ Provas!CartasUnicas /\ Provas!VitoriaCoerente

LEMMA MesmoInicio == Jogo!Init => InvJogo
<1>1. Jogo!Init => Provas!Init
  BY DEF Jogo!Init, Provas!Init, Jogo!Embaralhamentos, Provas!Embaralhamentos,
     Jogo!Distribuicao, Provas!Distribuicao, Jogo!Restantes, Provas!Restantes,
     Jogo!Jogadores, Provas!Jogadores, Jogo!MAX_PLAYERS, Provas!MAX_PLAYERS,
     Jogo!Cartas, Provas!Cartas, Jogo!NumCartas, Provas!NumCartas,
     Jogo!Injection, Provas!Injection, Jogo!IsInjective, Provas!IsInjective
<1> QED
  BY <1>1, MesmasHipoteses, Provas!TiposInicio, Provas!CustodiaInicio, Provas!VencedorInicio
  DEF InvJogo

Agora == Lance(numeroRodada, jogadorDaVez, partidaFinalizada)

(* What InvJogo says of the hands and of the state, in the words of UnoMatch. *)
FatosDoJogo ==
    /\ Jogo!TypeOK
    /\ maos \in [Jogadores -> Seq(Cartas)]
    /\ \A p \in Jogadores : Len(maos[p]) \in 0 .. MAX_QTD_CARTAS_JOGADOR
    /\ ultimaCarta \in Cartas
    /\ jogadorDaVez \in Jogadores
    /\ numeroRodada \in Nat \ {0}
    /\ partidaFinalizada \in BOOLEAN
    /\ \A p \in Jogadores :
         maos[p] = << >> <=> partidaFinalizada /\ p = jogadorDaVez
    /\ \A p \in Jogadores : \A q \in Jogadores \ {p} :
         \A i \in DOMAIN maos[p], j \in DOMAIN maos[q] : maos[p][i] # maos[q][j]

LEMMA FatosAgora == InvJogo => FatosDoJogo
<1> SUFFICES ASSUME InvJogo PROVE FatosDoJogo
  OBVIOUS
<1>1. Jogo!TypeOK
  BY MesmosNomes DEF InvJogo, Jogo!TypeOK, Provas!TypeOK, Jogo!QtdCartas, Provas!QtdCartas
<1>2. /\ maos \in [Jogadores -> Seq(Cartas)]
      /\ \A p \in Jogadores : Len(maos[p]) <= MAX_QTD_CARTAS_JOGADOR
      /\ ultimaCarta \in Cartas
      /\ jogadorDaVez \in Jogadores
      /\ numeroRodada \in Nat \ {0}
      /\ partidaFinalizada \in BOOLEAN
  BY MesmosNomes DEF InvJogo, Provas!TypeOK, Provas!QtdCartas
<1>3. \A p \in Jogadores : Len(maos[p]) \in 0 .. MAX_QTD_CARTAS_JOGADOR
  BY <1>2, MesmosNomes, LenProperties
<1>4. \A p \in Jogadores :
        maos[p] = << >> <=> partidaFinalizada /\ p = jogadorDaVez
  BY MesmosNomes DEF InvJogo, Provas!VitoriaCoerente
<1>5. \A p \in Jogadores : \A q \in Jogadores \ {p} :
        Provas!Conteudo(maos[p]) \cap Provas!Conteudo(maos[q]) = {}
  BY MesmosNomes DEF InvJogo, Provas!CartasUnicas
<1>6. \A p \in Jogadores : \A q \in Jogadores \ {p} :
        \A i \in DOMAIN maos[p], j \in DOMAIN maos[q] : maos[p][i] # maos[q][j]
  BY <1>5 DEF Provas!Conteudo
<1> QED  BY <1>1, <1>2, <1>3, <1>4, <1>6 DEF FatosDoJogo

LEMMA FatosDepois == InvJogo' => FatosDoJogo'
  BY FatosAgora, PTL

(* A request that is accepted is one step of the engine, and one move.        *)
LEMMA PassoDoJogo ==
    ASSUME InvJogo, NEW s \in Solicitacoes, Aceita(s)
    PROVE  /\ InvJogo'
           /\ ~partidaFinalizada
           /\ Agora' = Agora + 1
<1>1. s.jogadorId \in Provas!Jogadores /\ s.cartaId \in Provas!Cartas
  BY MesmosNomes DEF Solicitacoes
<1>2. ASSUME NEW p, Jogo!ComprarCarta(p)
      PROVE  Provas!ComprarCarta(p)
  BY <1>2 DEF Jogo!ComprarCarta, Provas!ComprarCarta, Jogo!PodeComprar, Provas!PodeComprar,
     Jogo!QtdCartas, Provas!QtdCartas, Jogo!ProximoJogador, Provas!ProximoJogador,
     Jogo!MAX_PLAYERS, Provas!MAX_PLAYERS
<1>3. ASSUME NEW p, NEW c, Jogo!JogarCarta(p, c)
      PROVE  Provas!JogarCarta(p, c)
  BY <1>3 DEF Jogo!JogarCarta, Provas!JogarCarta, Jogo!PodeJogarCarta, Provas!PodeJogarCarta,
     Jogo!Cor, Provas!Cor, Jogo!Simbolo, Provas!Simbolo, Jogo!SemIndice, Provas!SemIndice,
     Jogo!ProximoJogador, Provas!ProximoJogador, Jogo!MAX_PLAYERS, Provas!MAX_PLAYERS
<1>4. \/ Provas!ComprarCarta(s.jogadorId)
      \/ \E c \in Provas!Cartas : Provas!JogarCarta(s.jogadorId, c)
  BY <1>1, <1>2, <1>3 DEF Aceita
<1>5. Provas!Next
  BY <1>1, <1>4 DEF Provas!Next
<1>6. InvJogo'
  BY <1>5, MesmasHipoteses, Provas!TiposPasso, Provas!CustodiaPasso, Provas!VencedorPasso
  DEF InvJogo
<1>7. ~partidaFinalizada /\ Provas!Jogadas' = Provas!Jogadas + 1
  BY <1>1, <1>4, MesmasHipoteses, Provas!JogadaConta DEF InvJogo
<1>8. Agora = Provas!Jogadas + 1 /\ Agora' = Provas!Jogadas' + 1
  <2>1. /\ jogadorDaVez \in Int /\ numeroRodada \in Int
        /\ jogadorDaVez' \in Int /\ numeroRodada' \in Int
    BY <1>6, FatosAgora, FatosDepois, DoisJogadores DEF FatosDoJogo
  <2> QED
    BY <2>1 DEF Agora, Lance, MAX_PLAYERS, Provas!Jogadas, Provas!MAX_PLAYERS
<1>9. Provas!Jogadas \in Int
  BY FatosAgora, DoisJogadores DEF FatosDoJogo, Provas!Jogadas, Provas!MAX_PLAYERS
<1> QED  BY <1>6, <1>7, <1>8, <1>9

-----------------------------------------------------------------------------
(* Queues: what is in them, in which order, and what comes first for whom.    *)

Precede(s, m, n) == \E i, j \in DOMAIN s : i < j /\ s[i] = m /\ s[j] = n

NenhumaPara(s, p) == \A m \in Range(s) : m.para # p

PrimeiraDe(s, p) ==
    \E j \in DOMAIN s :
        /\ s[j].para = p /\ s[j].tipo = "iniciada"
        /\ \A i \in DOMAIN s : i < j => s[i].para # p

LEMMA FilaVazia ==
    /\ Range(<< >>) = {}
    /\ \A m, n : ~Precede(<< >>, m, n)
    /\ \A p : NenhumaPara(<< >>, p) /\ ~PrimeiraDe(<< >>, p)
BY DEF Range, Precede, NenhumaPara, PrimeiraDe

LEMMA FilaTipada ==
    ASSUME NEW S, NEW s \in Seq(S)
    PROVE  /\ Range(s) \subseteq S
           /\ \A m, n : Precede(s, m, n) => m \in Range(s) /\ n \in Range(s)
           /\ \A i \in DOMAIN s : s[i] \in Range(s)
BY LenProperties, ElementOfSeq DEF Range, Precede

\* What is left when the first element is taken out.
LEMMA FilaSemPrimeiro ==
    ASSUME NEW S, NEW s \in Seq(S), s # << >>
    PROVE  /\ Tail(s) \in Seq(S)
           /\ Len(Tail(s)) = Len(s) - 1
           /\ Head(s) \in S
           /\ Range(s) = {Head(s)} \cup Range(Tail(s))
           /\ \A m, n : Precede(Tail(s), m, n) => Precede(s, m, n)
           /\ \A n \in Range(Tail(s)) : Precede(s, Head(s), n)
           /\ \A p : PrimeiraDe(s, p) =>
                IF Head(s).para = p THEN Head(s).tipo = "iniciada" ELSE PrimeiraDe(Tail(s), p)
<1> DEFINE t == Tail(s)
<1>1. /\ Len(s) \in Nat \ {0} /\ DOMAIN s = 1 .. Len(s)
      /\ Head(s) = s[1] /\ Head(s) \in S
      /\ t \in Seq(S) /\ Len(t) = Len(s) - 1
      /\ \A i \in 1 .. Len(t) : t[i] = s[i + 1]
  BY EmptySeq, LenProperties, HeadTailProperties
<1>2. DOMAIN t = 1 .. Len(s) - 1
  BY <1>1, LenProperties
<1> HIDE DEF t
<1>3. /\ 1 \in DOMAIN s
      /\ \A i \in DOMAIN t : i + 1 \in DOMAIN s /\ i + 1 > 1 /\ t[i] = s[i + 1]
      /\ \A i \in DOMAIN s : i = 1 \/ (i - 1 \in DOMAIN t /\ t[i - 1] = s[i])
  BY <1>1, <1>2
<1>4. Range(s) = {Head(s)} \cup Range(t)
  <2>1. Head(s) = s[1]
    BY <1>1
  <2>2. \A x \in Range(s) : x = Head(s) \/ x \in Range(t)
    BY <1>3, <2>1 DEF Range
  <2>3. Head(s) \in Range(s)
    BY <1>3, <2>1 DEF Range
  <2>4. \A x \in Range(t) : x \in Range(s)
    BY <1>3 DEF Range
  <2> QED  BY <2>2, <2>3, <2>4
<1>5. \A m, n : Precede(t, m, n) => Precede(s, m, n)
  BY <1>1, <1>2, <1>3 DEF Precede
<1>6. \A n \in Range(t) : Precede(s, Head(s), n)
  BY <1>1, <1>2, <1>3 DEF Precede, Range
<1>7. ASSUME NEW p, PrimeiraDe(s, p)
      PROVE  IF Head(s).para = p THEN Head(s).tipo = "iniciada" ELSE PrimeiraDe(t, p)
  <2>1. PICK j \in DOMAIN s :
          /\ s[j].para = p /\ s[j].tipo = "iniciada"
          /\ \A i \in DOMAIN s : i < j => s[i].para # p
    BY <1>7 DEF PrimeiraDe
  <2>2. CASE j = 1
    BY <1>1, <2>1, <2>2
  <2>3. CASE j # 1
    <3>1. Head(s).para # p
      BY <1>1, <1>3, <2>1, <2>3
    <3>2. j - 1 \in DOMAIN t /\ t[j - 1] = s[j]
      BY <1>3, <2>3
    <3>3. \A i \in DOMAIN t : i < j - 1 => t[i].para # p
      BY <1>1, <1>2, <1>3, <2>1
    <3> QED  BY <2>1, <3>1, <3>2, <3>3 DEF PrimeiraDe
  <2> QED  BY <2>2, <2>3
<1> QED  BY <1>1, <1>4, <1>5, <1>6, <1>7 DEF t

\* What an element added at the end changes.
LEMMA FilaComMaisUm ==
    ASSUME NEW S, NEW s \in Seq(S), NEW e \in S
    PROVE  LET t == Append(s, e)
           IN  /\ t \in Seq(S)
               /\ t # << >>
               /\ Len(t) = Len(s) + 1
               /\ Range(t) = Range(s) \cup {e}
               /\ Head(t) = IF s = << >> THEN e ELSE Head(s)
               /\ \A m, n : Precede(t, m, n) => Precede(s, m, n) \/ (m \in Range(s) /\ n = e)
               /\ \A p : PrimeiraDe(s, p) => PrimeiraDe(t, p)
               /\ \A p : NenhumaPara(s, p) /\ e.para = p /\ e.tipo = "iniciada" =>
                    PrimeiraDe(t, p)
<1> DEFINE t == Append(s, e)
<1>0. Head(t) = IF s = << >> THEN e ELSE Head(s)
  BY HeadTailAppend
<1>1. /\ Len(s) \in Nat /\ DOMAIN s = 1 .. Len(s)
      /\ t \in Seq(S) /\ t # << >> /\ Len(t) = Len(s) + 1
      /\ \A i \in 1 .. Len(s) : t[i] = s[i]
      /\ t[Len(s) + 1] = e
  BY LenProperties, AppendProperties
<1>2. DOMAIN t = 1 .. Len(s) + 1
  BY <1>1, LenProperties
<1> HIDE DEF t
<1>3. /\ Len(s) + 1 \in DOMAIN t
      /\ \A i \in DOMAIN s : i \in DOMAIN t /\ t[i] = s[i] /\ i < Len(s) + 1
      /\ \A i \in DOMAIN t : i \in DOMAIN s \/ i = Len(s) + 1
      /\ \A i, j \in DOMAIN t : i < j => i \in DOMAIN s
  BY <1>1, <1>2
<1>4. Range(t) = Range(s) \cup {e}
  BY <1>1, <1>3 DEF Range
<1>5. \A m, n : Precede(t, m, n) => Precede(s, m, n) \/ (m \in Range(s) /\ n = e)
  BY <1>1, <1>3 DEF Precede, Range
<1>6. ASSUME NEW p, PrimeiraDe(s, p)
      PROVE  PrimeiraDe(t, p)
  BY <1>1, <1>2, <1>3, <1>6 DEF PrimeiraDe
<1>7. ASSUME NEW p, NenhumaPara(s, p), e.para = p, e.tipo = "iniciada"
      PROVE  PrimeiraDe(t, p)
  BY <1>1, <1>2, <1>3, <1>7 DEF PrimeiraDe, NenhumaPara, Range
<1> QED  BY <1>0, <1>1, <1>4, <1>5, <1>6, <1>7 DEF t

\* What is left when the end is cut off.
LEMMA FilaCortada ==
    ASSUME NEW S, NEW s \in Seq(S), NEW k \in 0 .. Len(s)
    PROVE  LET t == SubSeq(s, 1, k)
           IN  /\ t \in Seq(S)
               /\ Range(t) \subseteq Range(s)
               /\ s = << >> => t = << >>
               /\ t # << >> => Head(t) = Head(s)
               /\ \A m, n : Precede(t, m, n) => Precede(s, m, n)
<1> DEFINE t == SubSeq(s, 1, k)
<1>1. Len(s) \in Nat /\ DOMAIN s = 1 .. Len(s) /\ k \in Nat /\ k <= Len(s)
  BY LenProperties
<1>2. \A i \in 1 .. k : s[i] \in S
  BY <1>1, ElementOfSeq
<1>3. /\ t \in Seq(S) /\ Len(t) = k
      /\ \A i \in 1 .. k : t[i] = s[i]
  BY <1>1, <1>2, SubSeqProperties
<1>4. DOMAIN t = 1 .. k
  BY <1>3, LenProperties
<1>5. s = << >> => t = << >>
  BY <1>1, <1>3, EmptySeq
<1>6. t # << >> => k > 0
  BY <1>3, EmptySeq
<1> HIDE DEF t
<1>7. /\ \A i \in DOMAIN t : i \in DOMAIN s /\ t[i] = s[i]
  BY <1>1, <1>3, <1>4
<1>8. Range(t) \subseteq Range(s)
  BY <1>7 DEF Range
<1>9. \A m, n : Precede(t, m, n) => Precede(s, m, n)
  BY <1>7 DEF Precede
<1>10. t # << >> => Head(t) = Head(s)
  <2> SUFFICES ASSUME t # << >> PROVE Head(t) = Head(s)
    OBVIOUS
  <2>1. s # << >> /\ t[1] = s[1]
    BY <1>1, <1>3, <1>5, <1>6
  <2> QED  BY <1>3, <2>1
<1> QED  BY <1>3, <1>5, <1>8, <1>9, <1>10 DEF t

-----------------------------------------------------------------------------
(* The states that travel.                                                    *)

\* The point of the match that a state of p shows.
LanceDe(p, e) ==
    IF e = Vazio THEN 0
    ELSE Lance(e.numeroRodada, IF e.suaVez THEN p ELSE Adversario(p),
               e.mao = << >> \/ e.numeroCartasAdversario = 0)

\* The two sides of one point of the match.
Irmas(v, w) ==
    /\ v.ultimaCarta = w.ultimaCarta /\ v.numeroRodada = w.numeroRodada
    /\ v.suaVez = ~w.suaVez
    /\ v.numeroCartasAdversario = Len(w.mao)
    /\ \A i \in DOMAIN v.mao, j \in DOMAIN w.mao : v.mao[i] # w.mao[j]

LEMMA LanceTipado ==
    ASSUME NEW p \in Jogadores
    PROVE  /\ LanceDe(p, Vazio) = 0
           /\ \A e \in Estados : e # Vazio /\ LanceDe(p, e) \in Nat \ {0}
<1>1. LanceDe(p, Vazio) = 0
  BY DEF LanceDe
<1>2. ASSUME NEW e \in Estados
      PROVE  e # Vazio /\ LanceDe(p, e) \in Nat \ {0}
  <2>1. e.numeroRodada \in Nat \ {0}
    BY DEF Estados
  <2>2. e # Vazio
    BY <2>1 DEF Vazio
  <2> DEFINE v == IF e.suaVez THEN p ELSE Adversario(p)
             f == e.mao = << >> \/ e.numeroCartasAdversario = 0
  <2>3. v \in {0, 1}
    BY DoisJogadores
  <2>4. LanceDe(p, e) = Lance(e.numeroRodada, v, f)
    BY <2>2 DEF LanceDe
  <2> HIDE DEF v, f
  <2>5. Lance(e.numeroRodada, v, f) \in Nat \ {0}
    BY <2>1, <2>3 DEF Lance, MAX_PLAYERS
  <2> QED  BY <2>2, <2>4, <2>5
<1> QED  BY <1>1, <1>2

(* The state a message takes along is that of the present, seen by the player *)
(* it is for; the present has an empty hand exactly when the match is over.   *)
LEMMA EstadoAgora ==
    ASSUME InvJogo, NEW p \in Jogadores
    PROVE  /\ Estado(p) \in Estados
           /\ LanceDe(p, Estado(p)) = Agora
           /\ Agora \in Nat \ {0}
           /\ Estado(p).mao = << >> <=> partidaFinalizada /\ p = jogadorDaVez
           /\ Estado(p).numeroCartasAdversario = 0
                <=> partidaFinalizada /\ p # jogadorDaVez
           /\ Irmas(Estado(p), Estado(Adversario(p)))
<1> DEFINE q == Adversario(p)
           e == Estado(p)
<1>0. FatosDoJogo
  BY FatosAgora
<1>1. /\ q \in Jogadores /\ q # p /\ Adversario(q) = p
      /\ \A r \in Jogadores : r = p \/ r = q
  BY DoisJogadores
<1>2. /\ e.mao = maos[p] /\ e.suaVez = (jogadorDaVez = p)
      /\ e.numeroRodada = numeroRodada /\ e.ultimaCarta = ultimaCarta
      /\ e.numeroCartasAdversario = Len(maos[q])
  BY DEF Estado
<1>3. e \in Estados
  BY <1>0, <1>1 DEF Estado, Estados, FatosDoJogo
<1>4. e.mao = << >> <=> partidaFinalizada /\ p = jogadorDaVez
  BY <1>0, <1>2 DEF FatosDoJogo
<1>5. e.numeroCartasAdversario = 0 <=> partidaFinalizada /\ p # jogadorDaVez
  <2>1. maos[q] \in Seq(Cartas) /\ (maos[q] = << >> <=> partidaFinalizada /\ q = jogadorDaVez)
    BY <1>0, <1>1 DEF FatosDoJogo
  <2>2. Len(maos[q]) = 0 <=> maos[q] = << >>
    BY <2>1, EmptySeq
  <2>3. q = jogadorDaVez <=> p # jogadorDaVez
    BY <1>0, <1>1 DEF FatosDoJogo
  <2> QED  BY <1>2, <2>1, <2>2, <2>3
<1>6. (IF e.suaVez THEN p ELSE q) = jogadorDaVez
  BY <1>0, <1>1, <1>2 DEF FatosDoJogo
<1>7. (e.mao = << >> \/ e.numeroCartasAdversario = 0) <=> partidaFinalizada
  BY <1>4, <1>5
<1>8. LanceDe(p, e) = Agora
  BY <1>3, <1>2, <1>6, <1>7, LanceTipado DEF LanceDe, Agora, Lance
<1>9. Agora \in Nat \ {0}
  BY <1>3, <1>8, LanceTipado
<1>10. Irmas(e, Estado(q))
  <2> DEFINE d == Estado(q)
  <2>1. /\ d.mao = maos[q] /\ d.suaVez = (jogadorDaVez = q)
        /\ d.numeroRodada = numeroRodada /\ d.ultimaCarta = ultimaCarta
    BY DEF Estado
  <2>2. (jogadorDaVez = p) = ~(jogadorDaVez = q)
    BY <1>0, <1>1 DEF FatosDoJogo
  <2>3. \A i \in DOMAIN maos[p], j \in DOMAIN maos[q] : maos[p][i] # maos[q][j]
    BY <1>0, <1>1 DEF FatosDoJogo
  <2>4. e.suaVez = ~d.suaVez
    BY <1>2, <2>1, <2>2
  <2>5. e.numeroCartasAdversario = Len(d.mao)
    BY <1>2, <2>1
  <2>6. \A i \in DOMAIN e.mao, j \in DOMAIN d.mao : e.mao[i] # d.mao[j]
    BY <1>2, <2>1, <2>3
  <2> HIDE DEF d, e
  <2> QED  BY <1>2, <2>1, <2>4, <2>5, <2>6 DEF Irmas, d
<1> QED  BY <1>3, <1>4, <1>5, <1>8, <1>9, <1>10

-----------------------------------------------------------------------------
(* Types.  The hands are typed because requests are, requests because screens *)
(* are, screens because messages are, and messages because the hands are.     *)

LEMMA JogoParado ==
    ASSUME InvJogo, UNCHANGED jogoVars
    PROVE  InvJogo' /\ Agora' = Agora /\ \A p \in Jogadores : Estado(p)' = Estado(p)
<1>1. /\ maos' = maos /\ baralho' = baralho /\ ultimaCarta' = ultimaCarta
      /\ jogadorDaVez' = jogadorDaVez /\ numeroRodada' = numeroRodada
      /\ partidaFinalizada' = partidaFinalizada
  BY DEF jogoVars
<1>2. Provas!TypeOK'
  BY <1>1 DEF InvJogo, Provas!TypeOK, Provas!QtdCartas
<1>3. Provas!CartasUnicas'
  BY <1>1 DEF InvJogo, Provas!CartasUnicas, Provas!SemRepeticao, Provas!Conteudo
<1>4. Provas!VitoriaCoerente'
  BY <1>1 DEF InvJogo, Provas!VitoriaCoerente
<1> QED  BY <1>1, <1>2, <1>3, <1>4 DEF InvJogo, Agora, Estado

\* The parts of TypeOK that are about the queues, the clients and the stop.
TiposFilas ==
    /\ entrada \in [Jogadores -> Seq(Solicitacoes)]
    /\ filaReq \in Seq(Solicitacoes) /\ Len(filaReq) <= QUEUE_CAPACITY
    /\ pendentes \in Seq([tipo : Tipos, para : Jogadores])
    /\ filaRes \in Seq(Mensagens) /\ Len(filaRes) <= QUEUE_CAPACITY
    /\ saida \in [Jogadores -> Seq(Mensagens)]

TiposClientes ==
    /\ vista \in [Jogadores -> Estados \cup {Vazio}]
    /\ tela \in [Jogadores -> Estados \cup {Vazio}]
    /\ terminou \in [Jogadores -> BOOLEAN] /\ avisado \in [Jogadores -> BOOLEAN]
    /\ fase \in [Jogadores -> {"inicial", "copia", "tecla", "resultado", "saiu", "erro",
                               "desligado"}]
    /\ pedidos \in [Jogadores -> 0 .. MaxPedidos]
    /\ perdida \in [Jogadores -> BOOLEAN]

TiposParada ==
    /\ cortada \in [Jogadores -> BOOLEAN]
    /\ parada \in 0 .. RESPONSES_FECHADA + MAX_PLAYERS
    /\ resta \in [worker : BOOLEAN, writer : BOOLEAN]

Tipada == InvJogo /\ TiposFilas /\ TiposClientes /\ TiposParada

LEMMA TipadaBasta == Tipada => TypeOK
BY FatosAgora DEF Tipada, TypeOK, FatosDoJogo, TiposFilas, TiposClientes, TiposParada

LEMMA RespostaParaTodos ==
    ASSUME NEW t \in Tipos
    PROVE  /\ ParaTodos(t) \in Seq([tipo : Tipos, para : Jogadores])
           /\ DOMAIN ParaTodos(t) = {1, 2}
           /\ ParaTodos(t)[1] = [tipo |-> t, para |-> 0]
           /\ ParaTodos(t)[2] = [tipo |-> t, para |-> 1]
           /\ \A r \in Range(ParaTodos(t)) : r.tipo = t
           /\ \A p \in Jogadores : [tipo |-> t, para |-> p] \in Range(ParaTodos(t))
           /\ \A p \in Jogadores : t = "iniciada" => PrimeiraDe(ParaTodos(t), p)
<1>1. ParaTodos(t) = [i \in 1 .. 2 |-> [tipo |-> t, para |-> i - 1]]
  BY DoisJogadores DEF ParaTodos
<1>2. \A i \in 1 .. 2 : i - 1 \in Jogadores
  BY DoisJogadores
<1>3. ParaTodos(t) \in [1 .. 2 -> [tipo : Tipos, para : Jogadores]]
  BY <1>1, <1>2
<1>4. ParaTodos(t) \in Seq([tipo : Tipos, para : Jogadores])
  <2> DEFINE R == [tipo : Tipos, para : Jogadores]
             s == ParaTodos(t)
  <2>1. s \in [1 .. 2 -> R] /\ 2 \in Nat
    BY <1>3
  <2> HIDE DEF R, s
  <2>2. s \in Seq(R)
    BY <2>1, SeqDef
  <2> QED  BY <2>2 DEF R, s
<1>5. 1 .. 2 = {1, 2}
  OBVIOUS
<1>6. /\ DOMAIN ParaTodos(t) = {1, 2}
      /\ ParaTodos(t)[1] = [tipo |-> t, para |-> 0]
      /\ ParaTodos(t)[2] = [tipo |-> t, para |-> 1]
  BY <1>1, <1>5
<1>7. /\ \A r \in Range(ParaTodos(t)) : r.tipo = t
      /\ \A p \in Jogadores : [tipo |-> t, para |-> p] \in Range(ParaTodos(t))
  <2> DEFINE s == ParaTodos(t)
  <2> HIDE DEF s
  <2>1. Range(s) = {s[1], s[2]}
    BY <1>6 DEF Range, s
  <2> QED  BY <1>6, <2>1, DoisJogadores DEF s
<1>8. ASSUME NEW p \in Jogadores, t = "iniciada"
      PROVE  PrimeiraDe(ParaTodos(t), p)
  <2> DEFINE s == ParaTodos(t)
  <2>1. /\ DOMAIN s = {1, 2} /\ s[1].para = 0 /\ s[2].para = 1
        /\ s[1].tipo = "iniciada" /\ s[2].tipo = "iniciada"
    BY <1>6, <1>8
  <2> HIDE DEF s
  <2>2. p = 0 => PrimeiraDe(s, p)
    <3>1. ~(1 < 1) /\ ~(2 < 1)
      OBVIOUS
    <3> QED  BY <2>1, <3>1 DEF PrimeiraDe
  <2>3. p = 1 => PrimeiraDe(s, p)
    <3>1. ~(2 < 2) /\ 0 # 1
      OBVIOUS
    <3> QED  BY <2>1, <3>1 DEF PrimeiraDe
  <2> QED  BY <2>2, <2>3, DoisJogadores DEF s
<1> QED  BY <1>4, <1>6, <1>7, <1>8

LEMMA TiposNoInicio == Init => Tipada
<1> SUFFICES ASSUME Init PROVE Tipada
  OBVIOUS
<1>1. InvJogo
  BY MesmoInicio DEF Init
<1>3. pendentes \in Seq([tipo : Tipos, para : Jogadores])
  BY RespostaParaTodos DEF Init, Tipos
<1>4. /\ << >> \in Seq(Solicitacoes) /\ << >> \in Seq(Mensagens)
      /\ Len(filaReq) <= QUEUE_CAPACITY /\ Len(filaRes) <= QUEUE_CAPACITY
  BY EmptySeq, PartidaAssumption DEF Init
<1>5. 0 \in 0 .. MaxPedidos /\ 0 \in 0 .. RESPONSES_FECHADA + MAX_PLAYERS
  BY PartidaAssumption DEF RESPONSES_FECHADA, MAX_PLAYERS
<1> QED  BY <1>1, <1>3, <1>4, <1>5 DEF Tipada, TiposFilas, TiposClientes, TiposParada, Init

LEMMA FilasParadas == TiposFilas /\ UNCHANGED filaVars => TiposFilas'
BY DEF TiposFilas, filaVars

LEMMA ClientesParados == TiposClientes /\ UNCHANGED clienteVars => TiposClientes'
BY DEF TiposClientes, clienteVars

LEMMA ParadaParada == TiposParada /\ UNCHANGED paradaVars => TiposParada'
BY DEF TiposParada, paradaVars

LEMMA TiposCliente ==
    ASSUME Tipada, NEW p \in Jogadores, Cliente(p) \/ NaoPede(p) \/ Pede(p) \/ Sai(p)
    PROVE  Tipada'
<1>0. InvJogo /\ TiposFilas /\ TiposClientes /\ TiposParada
  BY DEF Tipada
<1>1. UNCHANGED <<jogoVars, filaReq, pendentes, filaRes, paradaVars>>
  BY DEF Cliente, RecebeInicial, Recebe, PerdeConexao, Copia, NaoPede, Pede, Sai, filaVars,
         paradaVars
<1>2. InvJogo' /\ TiposParada'
  BY <1>0, <1>1, JogoParado, ParadaParada
<1>3. ASSUME saida[p] # << >>
      PROVE  /\ Head(saida[p]).estado \in Estados
             /\ [saida EXCEPT ![p] = Tail(@)] \in [Jogadores -> Seq(Mensagens)]
  <2>1. saida[p] \in Seq(Mensagens)
    BY <1>0 DEF TiposFilas
  <2>2. Head(saida[p]) \in Mensagens /\ Tail(saida[p]) \in Seq(Mensagens)
    BY <1>3, <2>1, FilaSemPrimeiro
  <2> QED  BY <1>0, <2>2 DEF Mensagens, TiposFilas
<1>4. CASE RecebeInicial(p)
  <2>1. TiposFilas'
    BY <1>0, <1>1, <1>3, <1>4 DEF RecebeInicial, TiposFilas
  <2>2. TiposClientes'
    BY <1>0, <1>1, <1>3, <1>4 DEF RecebeInicial, TiposClientes
  <2> QED  BY <1>2, <2>1, <2>2 DEF Tipada
<1>5. CASE Recebe(p)
  <2>1. TiposFilas'
    BY <1>0, <1>1, <1>3, <1>5 DEF Recebe, TiposFilas
  <2>2. TiposClientes'
    BY <1>0, <1>1, <1>3, <1>5 DEF Recebe, TiposClientes
  <2> QED  BY <1>2, <2>1, <2>2 DEF Tipada
<1>6. CASE PerdeConexao(p)
  <2>1. TiposFilas'
    BY <1>0, <1>6, FilasParadas DEF PerdeConexao
  <2>2. TiposClientes'
    BY <1>0, <1>1, <1>6 DEF PerdeConexao, TiposClientes
  <2> QED  BY <1>2, <2>1, <2>2 DEF Tipada
<1>7. CASE Copia(p)
  <2>1. TiposFilas'
    BY <1>0, <1>7, FilasParadas DEF Copia
  <2>2. TiposClientes'
    BY <1>0, <1>1, <1>7 DEF Copia, TiposClientes
  <2> QED  BY <1>2, <2>1, <2>2 DEF Tipada
<1>8. CASE NaoPede(p)
  <2>1. TiposFilas'
    BY <1>0, <1>8, FilasParadas DEF NaoPede
  <2>2. TiposClientes'
    BY <1>0, <1>1, <1>8 DEF NaoPede, TiposClientes
  <2> QED  BY <1>2, <2>1, <2>2 DEF Tipada
<1>9. CASE Pede(p)
  <2>1. PICK s \in Acoes(p) :
          entrada' = IF cortada[p] THEN entrada ELSE [entrada EXCEPT ![p] = Append(@, s)]
    BY <1>9 DEF Pede
  <2>2. s \in Solicitacoes
    <3>1. 0 \in Cartas
      BY MesmosNomes
    <3>2. CASE tela[p].suaVez
      <4>1. tela[p] \in Estados
        BY <1>0, <3>2 DEF TiposClientes, Vazio
      <4>2. tela[p].mao \in Seq(Cartas)
        BY <4>1 DEF Estados
      <4>3. \A i \in DOMAIN tela[p].mao : tela[p].mao[i] \in Cartas
        BY <4>2, ElementOfSeq, LenProperties
      <4> QED  BY <2>1, <3>1, <4>3 DEF Acoes, Solicitacoes
    <3>3. CASE ~tela[p].suaVez
      BY <2>1, <3>1, <3>3 DEF Acoes, Solicitacoes
    <3> QED  BY <3>2, <3>3
  <2>3. Append(entrada[p], s) \in Seq(Solicitacoes)
    BY <1>0, <2>2, AppendProperties DEF TiposFilas
  <2>4. TiposFilas'
    BY <1>0, <1>1, <1>9, <2>1, <2>3 DEF Pede, TiposFilas
  <2>5. pedidos[p] + 1 \in 0 .. MaxPedidos
    BY <1>0, <1>9, PartidaAssumption DEF Pede, TiposClientes
  <2>6. TiposClientes'
    BY <1>0, <1>1, <1>9, <2>5 DEF Pede, TiposClientes
  <2> QED  BY <1>2, <2>4, <2>6 DEF Tipada
<1>10. CASE Sai(p)
  <2>1. PICK n \in 0 .. Len(entrada[p]) : entrada' = [entrada EXCEPT ![p] = SubSeq(@, 1, n)]
    BY <1>10 DEF Sai
  <2>2. SubSeq(entrada[p], 1, n) \in Seq(Solicitacoes) /\ << >> \in Seq(Mensagens)
    BY <1>0, FilaCortada, EmptySeq DEF TiposFilas
  <2>3. TiposFilas'
    BY <1>0, <1>1, <1>10, <2>1, <2>2 DEF Sai, TiposFilas
  <2>4. TiposClientes'
    BY <1>0, <1>1, <1>10 DEF Sai, TiposClientes
  <2> QED  BY <1>2, <2>3, <2>4 DEF Tipada
<1> QED
  BY <1>4, <1>5, <1>6, <1>7, <1>8, <1>9, <1>10 DEF Cliente

\* The end of a connection leaves only a part of what was on its way.
LEMMA TiposCorta ==
    ASSUME TiposFilas, NEW p \in Jogadores, Corta(p)
    PROVE  /\ entrada' \in [Jogadores -> Seq(Solicitacoes)]
           /\ saida' \in [Jogadores -> Seq(Mensagens)]
<1>1. PICK n \in 0 .. Len(saida[p]) : saida' = [saida EXCEPT ![p] = SubSeq(@, 1, n)]
  BY DEF Corta
<1>2. SubSeq(saida[p], 1, n) \in Seq(Mensagens) /\ << >> \in Seq(Solicitacoes)
  BY FilaCortada, EmptySeq DEF TiposFilas
<1> QED  BY <1>1, <1>2 DEF TiposFilas, Corta

LEMMA TiposServidor ==
    ASSUME Tipada, Servidor
    PROVE  Tipada'
<1>0. InvJogo /\ TiposFilas /\ TiposClientes /\ TiposParada
  BY DEF Tipada
<1>1. CASE Atende
  <2> DEFINE s == Head(filaReq)
  <2>1. s \in Solicitacoes /\ Tail(filaReq) \in Seq(Solicitacoes)
        /\ Len(Tail(filaReq)) <= QUEUE_CAPACITY
    <3>1. filaReq \in Seq(Solicitacoes) /\ filaReq # << >> /\ Len(filaReq) <= QUEUE_CAPACITY
      BY <1>0, <1>1 DEF Atende, TiposFilas
    <3>2. /\ s \in Solicitacoes /\ Tail(filaReq) \in Seq(Solicitacoes)
          /\ Len(Tail(filaReq)) = Len(filaReq) - 1 /\ Len(filaReq) \in Nat
      BY <3>1, FilaSemPrimeiro, LenProperties
    <3> QED  BY <3>1, <3>2, PartidaAssumption
  <2>2. InvJogo'
    <3>1. CASE UNCHANGED jogoVars
      BY <1>0, <3>1, JogoParado
    <3>2. CASE Aceita(s)
      BY <1>0, <2>1, <3>2, PassoDoJogo
    <3> QED  BY <1>1, <3>1, <3>2 DEF Atende
  <2>3. pendentes' \in Seq([tipo : Tipos, para : Jogadores])
    <3>1. pendentes' = pendentes \/ (\E t \in Tipos : pendentes' = ParaTodos(t))
             \/ pendentes' = <<[tipo |-> "invalida", para |-> s.jogadorId]>>
      BY <1>1 DEF Atende, Tipos
    <3>2. <<[tipo |-> "invalida", para |-> s.jogadorId]>>
             \in Seq([tipo : Tipos, para : Jogadores])
      BY <2>1 DEF Solicitacoes, Tipos
    <3>3. \A t \in Tipos : ParaTodos(t) \in Seq([tipo : Tipos, para : Jogadores])
      BY RespostaParaTodos
    <3> QED  BY <1>0, <3>1, <3>2, <3>3 DEF TiposFilas
  <2>4. TiposFilas'
    BY <1>0, <1>1, <2>1, <2>3 DEF Atende, TiposFilas
  <2>5. TiposClientes' /\ TiposParada'
    BY <1>0, <1>1, ClientesParados DEF Atende, TiposParada
  <2> QED  BY <2>2, <2>4, <2>5 DEF Tipada
<1>2. CASE Responde
  <2> DEFINE r == Head(pendentes)
             m == [tipo |-> r.tipo, para |-> r.para, estado |-> Estado(r.para)]
  <2>1. r \in [tipo : Tipos, para : Jogadores]
        /\ Tail(pendentes) \in Seq([tipo : Tipos, para : Jogadores])
    BY <1>0, <1>2, FilaSemPrimeiro DEF Responde, TiposFilas
  <2>2. m \in Mensagens
    BY <1>0, <2>1, EstadoAgora DEF Mensagens
  <2>3. filaRes' = Append(filaRes, m)
    BY <1>2 DEF Responde
  <2>4. /\ Append(filaRes, m) \in Seq(Mensagens)
        /\ Len(Append(filaRes, m)) = Len(filaRes) + 1
    <3>1. filaRes \in Seq(Mensagens)
      BY <1>0 DEF TiposFilas
    <3> QED  BY <2>2, <3>1, AppendProperties
  <2>5. Len(filaRes') <= QUEUE_CAPACITY
    <3>1. Len(filaRes) \in Nat /\ Len(filaRes) < QUEUE_CAPACITY
      BY <1>0, <1>2, LenProperties DEF Responde, TiposFilas
    <3> QED  BY <2>3, <2>4, <3>1, PartidaAssumption
  <2> HIDE DEF m, r
  <2>6. TiposFilas'
    BY <1>0, <1>2, <2>1, <2>3, <2>4, <2>5 DEF Responde, TiposFilas, r
  <2>7. InvJogo' /\ TiposClientes' /\ TiposParada'
    BY <1>0, <1>2, JogoParado, ClientesParados, ParadaParada DEF Responde
  <2> QED  BY <2>6, <2>7 DEF Tipada
<1>3. CASE RespostaRecusada
  <2>1. << >> \in Seq([tipo : Tipos, para : Jogadores])
    BY EmptySeq
  <2>2. TiposFilas'
    BY <1>0, <1>3, <2>1 DEF RespostaRecusada, TiposFilas
  <2>3. InvJogo' /\ TiposClientes' /\ TiposParada'
    BY <1>0, <1>3, JogoParado, ClientesParados, ParadaParada DEF RespostaRecusada
  <2> QED  BY <2>2, <2>3 DEF Tipada
<1>4. CASE Writer
  <2> DEFINE m == Head(filaRes)
  <2>1. /\ m \in Mensagens /\ m.para \in Jogadores
        /\ Tail(filaRes) \in Seq(Mensagens) /\ Len(Tail(filaRes)) = Len(filaRes) - 1
        /\ Len(filaRes) \in Nat /\ Len(filaRes) <= QUEUE_CAPACITY
    <3>1. filaRes \in Seq(Mensagens) /\ filaRes # << >> /\ Len(filaRes) <= QUEUE_CAPACITY
      BY <1>0, <1>4 DEF Writer, TiposFilas
    <3>2. /\ m \in Mensagens
          /\ Tail(filaRes) \in Seq(Mensagens) /\ Len(Tail(filaRes)) = Len(filaRes) - 1
          /\ Len(filaRes) \in Nat
      BY <3>1, FilaSemPrimeiro, LenProperties
    <3>3. m.para \in Jogadores
      BY <3>2 DEF Mensagens
    <3> QED  BY <3>1, <3>2, <3>3
  <2>2. Len(Tail(filaRes)) <= QUEUE_CAPACITY
    BY <2>1, PartidaAssumption
  <2>3. Append(saida[m.para], m) \in Seq(Mensagens)
    BY <1>0, <2>1, AppendProperties DEF TiposFilas
  <2>4. TiposFilas'
    BY <1>0, <1>4, <2>1, <2>2, <2>3 DEF Writer, TiposFilas
  <2>5. InvJogo' /\ TiposClientes' /\ TiposParada'
    BY <1>0, <1>4, JogoParado, ClientesParados DEF Writer, TiposParada
  <2> QED  BY <2>4, <2>5 DEF Tipada
<1>5. ASSUME NEW p \in Jogadores, Listener(p)
      PROVE  Tipada'
  <2> DEFINE s == [Head(entrada[p]) EXCEPT !.jogadorId = p]
  <2>1. /\ Head(entrada[p]) \in Solicitacoes
        /\ Tail(entrada[p]) \in Seq(Solicitacoes)
    BY <1>0, <1>5, FilaSemPrimeiro DEF Listener, TiposFilas
  <2>2. s \in Solicitacoes
    BY <2>1 DEF Solicitacoes
  <2>3. /\ filaReq' \in Seq(Solicitacoes)
        /\ Len(filaReq') = Len(filaReq) + 1
        /\ Len(filaReq) \in Nat /\ Len(filaReq) < QUEUE_CAPACITY
    <3>1. filaReq \in Seq(Solicitacoes) /\ filaReq' = Append(filaReq, s)
          /\ Len(filaReq) < QUEUE_CAPACITY
      BY <1>0, <1>5 DEF Listener, TiposFilas
    <3> HIDE DEF s
    <3> QED  BY <2>2, <3>1, AppendProperties, LenProperties
  <2>4. Len(filaReq') <= QUEUE_CAPACITY
    BY <2>3, PartidaAssumption
  <2>5. TiposFilas'
    BY <1>0, <1>5, <2>1, <2>3, <2>4 DEF Listener, TiposFilas
  <2>6. InvJogo' /\ TiposClientes' /\ TiposParada'
    BY <1>0, <1>5, JogoParado, ClientesParados, ParadaParada DEF Listener
  <2> QED  BY <2>5, <2>6 DEF Tipada
<1>6. ASSUME NEW p \in Jogadores, PushRecusado(p)
      PROVE  Tipada'
  <2>1. Corta(p)
    BY <1>6 DEF PushRecusado
  <2>2. TiposFilas'
    BY <1>0, <1>6, <2>1, TiposCorta DEF PushRecusado, TiposFilas
  <2>3. InvJogo' /\ TiposClientes'
    BY <1>0, <1>6, JogoParado, ClientesParados DEF PushRecusado
  <2>4. TiposParada'
    BY <1>0, <1>6, <2>1 DEF PushRecusado, Corta, TiposParada
  <2> QED  BY <2>2, <2>3, <2>4 DEF Tipada
<1> QED  BY <1>1, <1>2, <1>3, <1>4, <1>5, <1>6 DEF Servidor

LEMMA TiposFim ==
    ASSUME Tipada, LimpaRunning \/ Para
    PROVE  Tipada'
<1>0. InvJogo /\ TiposFilas /\ TiposClientes /\ TiposParada
  BY DEF Tipada
<1>1. parada \in Nat
  BY <1>0 DEF TiposParada
<1>2. CASE LimpaRunning
  <2>1. InvJogo' /\ TiposFilas' /\ TiposClientes'
    BY <1>0, <1>2, JogoParado, FilasParadas, ClientesParados DEF LimpaRunning
  <2>2. resta' \in [worker : BOOLEAN, writer : BOOLEAN]
    BY <1>2 DEF LimpaRunning
  <2>3. parada' \in 0 .. RESPONSES_FECHADA + MAX_PLAYERS
    BY <1>2 DEF LimpaRunning, RESPONSES_FECHADA, MAX_PLAYERS
  <2>4. TiposParada'
    BY <1>0, <1>2, <2>2, <2>3 DEF LimpaRunning, TiposParada
  <2> QED  BY <2>1, <2>4 DEF Tipada
<1>3. CASE FechaFila
  <2>1. InvJogo' /\ TiposFilas' /\ TiposClientes'
    BY <1>0, <1>3, JogoParado, FilasParadas, ClientesParados DEF FechaFila
  <2>2. parada' \in 0 .. RESPONSES_FECHADA + MAX_PLAYERS
    BY <1>3 DEF FechaFila, REQUESTS_FECHADA, RESPONSES_FECHADA, MAX_PLAYERS
  <2>3. TiposParada'
    BY <1>0, <1>3, <2>2 DEF FechaFila, TiposParada
  <2> QED  BY <2>1, <2>3 DEF Tipada
<1>4. ASSUME NEW p \in Jogadores, CortaJogador(p)
      PROVE  Tipada'
  <2>1. Corta(p)
    BY <1>4 DEF CortaJogador
  <2>2. TiposFilas'
    BY <1>0, <1>4, <2>1, TiposCorta DEF CortaJogador, TiposFilas
  <2>3. InvJogo' /\ TiposClientes'
    BY <1>0, <1>4, JogoParado, ClientesParados DEF CortaJogador
  <2>4. parada' \in 0 .. RESPONSES_FECHADA + MAX_PLAYERS
    BY <1>4, DoisJogadores DEF CortaJogador, RESPONSES_FECHADA, MAX_PLAYERS
  <2>5. TiposParada'
    BY <1>0, <1>4, <2>1, <2>4 DEF CortaJogador, Corta, TiposParada
  <2> QED  BY <2>2, <2>3, <2>5 DEF Tipada
<1> QED  BY <1>2, <1>3, <1>4 DEF Para

LEMMA TiposPasso == Tipada /\ [Next]_vars => Tipada'
<1> SUFFICES ASSUME Tipada, [Next]_vars PROVE Tipada'
  OBVIOUS
<1>1. CASE UNCHANGED vars
  BY <1>1, JogoParado, FilasParadas, ClientesParados, ParadaParada DEF vars, Tipada
<1>2. CASE Next
  BY <1>2, TiposCliente, TiposServidor, TiposFim DEF Next
<1> QED  BY <1>1, <1>2

(* Every variable of the match has its type: no queue outgrows its array, no  *)
(* message or request is anything but what its readers expect, whatever the   *)
(* order in which the threads take turns and wherever the server stops.       *)
THEOREM TiposDaPartida == Spec => []TypeOK
<1>1. Spec => []Tipada
  BY TiposNoInicio, TiposPasso, PTL DEF Spec
<1> QED  BY <1>1, TipadaBasta, PTL

-----------------------------------------------------------------------------
(* How messages travel.  Each client has one stream: what its writer and the  *)
(* connection hold, and behind it what the response queue holds for it.       *)

ACaminho(p) == Range(saida[p]) \cup {m \in Range(filaRes) : m.para = p}

\* The message m comes before n in the stream of p.
Antes(p, m, n) ==
    \/ Precede(saida[p], m, n)
    \/ m \in Range(saida[p]) /\ n \in Range(filaRes) /\ n.para = p
    \/ Precede(filaRes, m, n) /\ m.para = p /\ n.para = p

\* The states p has seen last, or is to see.
Conhecidos(p) == {vista[p]} \cup {m.estado : m \in ACaminho(p)}

(* What a step may do to the stream: take the first message out and show it,  *)
(* lose messages, and add one with the present state at the end.              *)
Transporta(p) ==
    /\ \A m \in ACaminho(p)' :
         \/ m \in ACaminho(p)
         \/ m.estado = Estado(p) /\ \E r \in Range(pendentes) : r.tipo = m.tipo
    /\ \A m, n : Antes(p, m, n)' =>
         Antes(p, m, n) \/ (m \in ACaminho(p) /\ n.estado = Estado(p))
    /\ \/ vista'[p] = vista[p]
       \/ \E m \in ACaminho(p) :
            vista'[p] = m.estado /\ \A n \in ACaminho(p)' : Antes(p, m, n)

LEMMA CaminhoTipado ==
    ASSUME Tipada, NEW p \in Jogadores
    PROVE  /\ \A m \in ACaminho(p) : m \in Mensagens /\ m.estado \in Estados
           /\ \A m, n : Antes(p, m, n) => m \in ACaminho(p) /\ n \in ACaminho(p)
           /\ \A e \in Conhecidos(p) : e \in Estados \cup {Vazio}
           /\ \A e \in Conhecidos(p) : LanceDe(p, e) \in Nat
<1>1. saida[p] \in Seq(Mensagens) /\ filaRes \in Seq(Mensagens)
  BY DEF Tipada, TiposFilas
<1>2. /\ Range(saida[p]) \subseteq Mensagens /\ Range(filaRes) \subseteq Mensagens
      /\ \A m, n : Precede(saida[p], m, n) => m \in Range(saida[p]) /\ n \in Range(saida[p])
      /\ \A m, n : Precede(filaRes, m, n) => m \in Range(filaRes) /\ n \in Range(filaRes)
  BY <1>1, FilaTipada
<1>3. \A m \in ACaminho(p) : m \in Mensagens /\ m.estado \in Estados
  BY <1>2 DEF ACaminho, Mensagens
<1>4. \A m, n : Antes(p, m, n) => m \in ACaminho(p) /\ n \in ACaminho(p)
  BY <1>2 DEF Antes, ACaminho
<1>5. \A e \in Conhecidos(p) : e \in Estados \cup {Vazio}
  BY <1>3 DEF Conhecidos, Tipada, TiposClientes
<1>6. \A e \in Conhecidos(p) : LanceDe(p, e) \in Nat
  BY <1>5, LanceTipado
<1> QED  BY <1>3, <1>4, <1>5, <1>6

LEMMA CaminhoParado ==
    ASSUME UNCHANGED <<filaRes, saida, vista>>, NEW p \in Jogadores
    PROVE  Transporta(p) /\ ACaminho(p)' = ACaminho(p) /\ Conhecidos(p)' = Conhecidos(p)
<1>1. ACaminho(p)' = ACaminho(p)
  BY DEF ACaminho
<1>2. \A m, n : Antes(p, m, n)' = Antes(p, m, n)
  BY DEF Antes
<1>3. Conhecidos(p)' = Conhecidos(p)
  BY <1>1 DEF Conhecidos
<1> QED  BY <1>1, <1>2, <1>3 DEF Transporta

\* The client takes the first message.
LEMMA TransporteAoReceber ==
    ASSUME Tipada, NEW p \in Jogadores, RecebeInicial(p) \/ Recebe(p), NEW q \in Jogadores
    PROVE  Transporta(q)
<1> DEFINE m == Head(saida[p])
<1>1. /\ saida \in [Jogadores -> Seq(Mensagens)] /\ saida[p] \in Seq(Mensagens)
      /\ vista \in [Jogadores -> Estados \cup {Vazio}]
  BY DEF Tipada, TiposFilas, TiposClientes
<1>2. /\ saida[p] # << >> /\ filaRes' = filaRes
      /\ saida' = [saida EXCEPT ![p] = Tail(saida[p])]
      /\ vista' = vista \/ vista' = [vista EXCEPT ![p] = m.estado]
  BY DEF RecebeInicial, Recebe
<1>3. /\ Range(saida[p]) = {m} \cup Range(Tail(saida[p]))
      /\ \A a, b : Precede(Tail(saida[p]), a, b) => Precede(saida[p], a, b)
      /\ \A b \in Range(Tail(saida[p])) : Precede(saida[p], m, b)
  BY <1>1, <1>2, FilaSemPrimeiro
<1> HIDE DEF m
<1>4. CASE q = p
  <2>1. saida'[p] = Tail(saida[p])
    BY <1>1, <1>2
  <2>2. /\ m \in ACaminho(p)
        /\ \A n \in ACaminho(p)' : n \in ACaminho(p)
    BY <1>2, <1>3, <2>1 DEF ACaminho
  <2>3. \A a, b : Antes(p, a, b)' => Antes(p, a, b)
    BY <1>2, <1>3, <2>1 DEF Antes
  <2>4. \A n \in ACaminho(p)' : Antes(p, m, n)
    BY <1>2, <1>3, <2>1 DEF ACaminho, Antes
  <2>5. vista'[p] = vista[p] \/ vista'[p] = m.estado
    BY <1>1, <1>2
  <2> QED  BY <1>4, <2>2, <2>3, <2>4, <2>5 DEF Transporta
<1>5. CASE q # p
  <2>1. saida'[q] = saida[q] /\ vista'[q] = vista[q]
    BY <1>1, <1>2, <1>5
  <2>2. ACaminho(q)' = ACaminho(q)
    BY <1>2, <2>1 DEF ACaminho
  <2>3. \A a, b : Antes(q, a, b)' => Antes(q, a, b)
    BY <1>2, <2>1 DEF Antes
  <2> QED  BY <2>1, <2>2, <2>3 DEF Transporta
<1> QED  BY <1>4, <1>5

\* Messages on their way are lost.
LEMMA TransporteAoPerder ==
    ASSUME Tipada, NEW p \in Jogadores, NEW q \in Jogadores,
           Sai(p) \/ PushRecusado(p) \/ CortaJogador(p)
    PROVE  Transporta(q)
<1>1. /\ saida \in [Jogadores -> Seq(Mensagens)] /\ saida[p] \in Seq(Mensagens)
  BY DEF Tipada, TiposFilas
<1>2. /\ filaRes' = filaRes /\ vista' = vista
      /\ \E k \in 0 .. Len(saida[p]) : saida' = [saida EXCEPT ![p] = SubSeq(saida[p], 1, k)]
  <2>1. filaRes' = filaRes /\ vista' = vista
    BY DEF Sai, PushRecusado, CortaJogador, clienteVars
  <2>2. CASE Sai(p)
    <3>1. saida' = [saida EXCEPT ![p] = << >>]
      BY <2>2 DEF Sai
    <3>2. SubSeq(saida[p], 1, 0) = << >> /\ 0 \in 0 .. Len(saida[p])
      BY <1>1, SubSeqEmpty, LenProperties
    <3> QED  BY <2>1, <3>1, <3>2
  <2>3. CASE PushRecusado(p) \/ CortaJogador(p)
    BY <2>1, <2>3 DEF PushRecusado, CortaJogador, Corta
  <2> QED  BY <2>2, <2>3
<1>3. PICK k \in 0 .. Len(saida[p]) : saida' = [saida EXCEPT ![p] = SubSeq(saida[p], 1, k)]
  BY <1>2
<1>4. /\ Range(SubSeq(saida[p], 1, k)) \subseteq Range(saida[p])
      /\ \A a, b : Precede(SubSeq(saida[p], 1, k), a, b) => Precede(saida[p], a, b)
  BY <1>1, FilaCortada
<1>5. /\ Range(saida'[q]) \subseteq Range(saida[q])
      /\ \A a, b : Precede(saida'[q], a, b) => Precede(saida[q], a, b)
  BY <1>1, <1>3, <1>4
<1>6. \A m \in ACaminho(q)' : m \in ACaminho(q)
  BY <1>2, <1>5 DEF ACaminho
<1>7. \A a, b : Antes(q, a, b)' => Antes(q, a, b)
  BY <1>2, <1>5 DEF Antes
<1> QED  BY <1>2, <1>6, <1>7 DEF Transporta

\* The worker adds a message at the end.
LEMMA TransporteAoResponder ==
    ASSUME Tipada, Responde, NEW q \in Jogadores
    PROVE  Transporta(q)
<1> DEFINE r == Head(pendentes)
           e == [tipo |-> r.tipo, para |-> r.para, estado |-> Estado(r.para)]
<1>1. r \in [tipo : Tipos, para : Jogadores] /\ r \in Range(pendentes)
  BY FilaSemPrimeiro DEF Responde, Tipada, TiposFilas
<1>2. e \in Mensagens /\ e.para = r.para /\ e.estado = Estado(r.para)
  BY <1>1, EstadoAgora DEF Mensagens, Tipada
<1>3. filaRes' = Append(filaRes, e) /\ saida' = saida /\ vista' = vista
  BY DEF Responde, clienteVars
<1> HIDE DEF r, e
<1>4. /\ Range(filaRes') = Range(filaRes) \cup {e}
      /\ \A a, b : Precede(filaRes', a, b) =>
           Precede(filaRes, a, b) \/ (a \in Range(filaRes) /\ b = e)
  BY <1>2, <1>3, FilaComMaisUm DEF Tipada, TiposFilas
<1>5. e.para = q => e.estado = Estado(q) /\ \E x \in Range(pendentes) : x.tipo = e.tipo
  BY <1>1, <1>2 DEF e
<1>6. \A m \in ACaminho(q)' :
        \/ m \in ACaminho(q)
        \/ m.estado = Estado(q) /\ \E x \in Range(pendentes) : x.tipo = m.tipo
  BY <1>3, <1>4, <1>5 DEF ACaminho
<1>7. \A a, b : Antes(q, a, b)' =>
        Antes(q, a, b) \/ (a \in ACaminho(q) /\ b.estado = Estado(q))
  BY <1>3, <1>4, <1>5 DEF Antes, ACaminho
<1> QED  BY <1>3, <1>6, <1>7 DEF Transporta

\* The writer passes the first message of the queue on, or drops it.
LEMMA TransporteAoEscrever ==
    ASSUME Tipada, Writer, NEW q \in Jogadores
    PROVE  Transporta(q)
<1> DEFINE m == Head(filaRes)
<1>1. /\ filaRes \in Seq(Mensagens) /\ filaRes # << >>
      /\ saida \in [Jogadores -> Seq(Mensagens)]
  BY DEF Tipada, TiposFilas, Writer
<1>2. /\ m \in Mensagens /\ Range(filaRes) = {m} \cup Range(Tail(filaRes))
      /\ \A a, b : Precede(Tail(filaRes), a, b) => Precede(filaRes, a, b)
      /\ \A b \in Range(Tail(filaRes)) : Precede(filaRes, m, b)
  BY <1>1, FilaSemPrimeiro
<1>3. m.para \in Jogadores
  BY <1>2 DEF Mensagens
<1>4. /\ filaRes' = Tail(filaRes) /\ vista' = vista
      /\ saida' = saida \/ saida' = [saida EXCEPT ![m.para] = Append(saida[m.para], m)]
  BY DEF Writer, clienteVars
<1>5. saida[q] \in Seq(Mensagens)
  BY <1>1
<1>6. /\ Range(Append(saida[q], m)) = Range(saida[q]) \cup {m}
      /\ \A a, b : Precede(Append(saida[q], m), a, b) =>
           Precede(saida[q], a, b) \/ (a \in Range(saida[q]) /\ b = m)
  BY <1>2, <1>5, FilaComMaisUm
<1> HIDE DEF m
<1>7. saida'[q] = saida[q] \/ (m.para = q /\ saida'[q] = Append(saida[q], m))
  BY <1>1, <1>3, <1>4
<1>8. \A n \in ACaminho(q)' : n \in ACaminho(q)
  BY <1>2, <1>4, <1>6, <1>7 DEF ACaminho
<1>9. ASSUME NEW a, NEW b, Antes(q, a, b)'
      PROVE  Antes(q, a, b)
  <2>1. CASE Precede(saida'[q], a, b)
    <3>1. CASE Precede(saida[q], a, b)
      BY <3>1 DEF Antes
    <3>2. CASE a \in Range(saida[q]) /\ b = m /\ m.para = q
      <4>1. m \in Range(filaRes)
        BY <1>2
      <4> QED  BY <3>2, <4>1 DEF Antes
    <3>3. CASE saida'[q] = saida[q]
      <4>1. Precede(saida[q], a, b)
        BY <2>1, <3>3
      <4> QED  BY <3>1, <4>1
    <3>4. CASE m.para = q /\ saida'[q] = Append(saida[q], m)
      <4>1. Precede(Append(saida[q], m), a, b)
        BY <2>1, <3>4
      <4>2. Precede(saida[q], a, b) \/ (a \in Range(saida[q]) /\ b = m)
        BY <1>6, <4>1
      <4> QED  BY <3>1, <3>2, <3>4, <4>2
    <3> QED  BY <1>7, <3>3, <3>4
  <2>2. CASE a \in Range(saida'[q]) /\ b \in Range(filaRes') /\ b.para = q
    <3>1. b \in Range(Tail(filaRes)) /\ b \in Range(filaRes)
      BY <1>2, <1>4, <2>2
    <3>2. a \in Range(saida[q]) \/ (a = m /\ m.para = q)
      BY <1>6, <1>7, <2>2
    <3> QED  BY <1>2, <2>2, <3>1, <3>2 DEF Antes
  <2>3. CASE Precede(filaRes', a, b) /\ a.para = q /\ b.para = q
    BY <1>2, <1>4, <2>3 DEF Antes
  <2> QED  BY <1>9, <2>1, <2>2, <2>3 DEF Antes
<1> QED  BY <1>4, <1>8, <1>9 DEF Transporta

LEMMA Transporte ==
    ASSUME Tipada, [Next]_vars, NEW q \in Jogadores
    PROVE  Transporta(q)
<1>1. CASE UNCHANGED <<filaRes, saida, vista>>
  BY <1>1, CaminhoParado
<1>2. CASE UNCHANGED vars
  BY <1>1, <1>2 DEF vars, filaVars, clienteVars
<1>3. CASE Atende \/ RespostaRecusada \/ LimpaRunning \/ FechaFila
  BY <1>1, <1>3 DEF Atende, RespostaRecusada, LimpaRunning, FechaFila, filaVars, clienteVars
<1>4. ASSUME NEW p \in Jogadores,
             PerdeConexao(p) \/ Copia(p) \/ NaoPede(p) \/ Pede(p) \/ Listener(p)
      PROVE  Transporta(q)
  BY <1>1, <1>4 DEF PerdeConexao, Copia, NaoPede, Pede, Listener, filaVars, clienteVars
<1> QED
  BY <1>2, <1>3, <1>4, TransporteAoReceber, TransporteAoPerder, TransporteAoResponder,
     TransporteAoEscrever
  DEF Next, Servidor, Cliente, Para

-----------------------------------------------------------------------------
(* What a client knows is a past of the match, or its present; and the two    *)
(* know the same of the same point.                                           *)

Passado ==
    \A p \in Jogadores : \A e \in Conhecidos(p) :
        /\ LanceDe(p, e) <= Agora
        /\ LanceDe(p, e) = Agora => e = Estado(p)

TodasIrmas ==
    \A p \in Jogadores :
        \A v \in Conhecidos(p), w \in Conhecidos(Adversario(p)) :
            LanceDe(p, v) = LanceDe(Adversario(p), w) /\ v # Vazio => Irmas(v, w)

\* States reach a client in the order of the match.
Ordem ==
    \A p \in Jogadores :
        /\ \A m \in ACaminho(p) : LanceDe(p, vista[p]) <= LanceDe(p, m.estado)
        /\ \A m, n : Antes(p, m, n) => LanceDe(p, m.estado) <= LanceDe(p, n.estado)

\* Either the match stands still, or it makes a move and messages stand still.
LEMMA Relogio ==
    ASSUME Tipada, [Next]_vars
    PROVE  \/ /\ Agora' = Agora /\ UNCHANGED <<jogadorDaVez, partidaFinalizada>>
              /\ \A p \in Jogadores : Estado(p)' = Estado(p)
           \/ /\ Agora' = Agora + 1 /\ ~partidaFinalizada
              /\ UNCHANGED <<filaRes, saida, vista, terminou>>
<1>1. CASE UNCHANGED jogoVars
  BY <1>1, JogoParado DEF Tipada, jogoVars
<1>2. CASE Atende /\ Aceita(Head(filaReq))
  <2>1. Head(filaReq) \in Solicitacoes
    BY <1>2, FilaSemPrimeiro DEF Atende, Tipada, TiposFilas
  <2>2. Agora' = Agora + 1 /\ ~partidaFinalizada
    BY <1>2, <2>1, PassoDoJogo DEF Tipada
  <2> QED  BY <1>2, <2>2 DEF Atende, clienteVars
<1>3. CASE Atende
  BY <1>1, <1>2, <1>3 DEF Atende
<1>4. CASE Responde \/ RespostaRecusada \/ Writer \/ LimpaRunning \/ Para
  BY <1>1, <1>4 DEF Responde, RespostaRecusada, Writer, LimpaRunning, Para, FechaFila,
     CortaJogador
<1>5. ASSUME NEW p \in Jogadores,
             Listener(p) \/ PushRecusado(p) \/ Cliente(p) \/ Pede(p) \/ Sai(p)
      PROVE  UNCHANGED jogoVars
  BY <1>5 DEF Listener, PushRecusado, Cliente, RecebeInicial, Recebe, PerdeConexao, Copia,
     NaoPede, Pede, Sai
<1> QED
  BY <1>1, <1>3, <1>4, <1>5 DEF Next, Servidor, vars

LEMMA PassadoNoInicio == Init => Passado /\ TodasIrmas /\ Ordem
<1> SUFFICES ASSUME Init PROVE Passado /\ TodasIrmas /\ Ordem
  OBVIOUS
<1>1. Tipada /\ Agora \in Nat \ {0}
  BY TiposNoInicio, EstadoAgora, DoisJogadores DEF Tipada
<1>2. \A p \in Jogadores : ACaminho(p) = {} /\ vista[p] = Vazio
  BY FilaVazia DEF Init, ACaminho
<1>3. \A p \in Jogadores : Conhecidos(p) = {Vazio} /\ LanceDe(p, Vazio) = 0
  BY <1>2, LanceTipado DEF Conhecidos
<1>4. \A p \in Jogadores : \A m, n : ~Antes(p, m, n)
  BY FilaVazia DEF Init, Antes
<1> QED
  BY <1>1, <1>2, <1>3, <1>4, DoisJogadores DEF Passado, TodasIrmas, Ordem

LEMMA ConhecidosDepois ==
    ASSUME NEW p \in Jogadores, Transporta(p)
    PROVE  \A e \in Conhecidos(p)' : e \in Conhecidos(p) \/ e = Estado(p)
BY DEF Transporta, Conhecidos

LEMMA PassadoPasso ==
    ASSUME Tipada, Passado, [Next]_vars
    PROVE  Passado'
<1>1. \A p \in Jogadores : Transporta(p)
  BY Transporte
<1>2. /\ Agora \in Nat
      /\ \A p \in Jogadores : LanceDe(p, Estado(p)) = Agora
      /\ \A p \in Jogadores : \A e \in Conhecidos(p) : LanceDe(p, e) \in Nat
  BY EstadoAgora, CaminhoTipado, DoisJogadores DEF Tipada
<1>3. CASE /\ Agora' = Agora /\ partidaFinalizada' = partidaFinalizada
           /\ \A p \in Jogadores : Estado(p)' = Estado(p)
  BY <1>1, <1>2, <1>3, ConhecidosDepois DEF Passado
<1>4. CASE Agora' = Agora + 1 /\ UNCHANGED <<filaRes, saida, vista>>
  <2>1. \A p \in Jogadores : Conhecidos(p)' = Conhecidos(p)
    BY <1>4, CaminhoParado
  <2>2. \A p \in Jogadores : \A e \in Conhecidos(p)' :
          LanceDe(p, e) <= Agora' /\ LanceDe(p, e) # Agora'
    BY <1>2, <1>4, <2>1 DEF Passado
  <2> QED  BY <2>2 DEF Passado
<1> QED  BY <1>3, <1>4, Relogio

LEMMA IrmasPasso ==
    ASSUME Tipada, Passado, TodasIrmas, [Next]_vars
    PROVE  TodasIrmas'
<1>1. \A p \in Jogadores : Transporta(p)
  BY Transporte
<1> SUFFICES ASSUME NEW p \in Jogadores, NEW v \in Conhecidos(p)',
                    NEW w \in Conhecidos(Adversario(p))',
                    LanceDe(p, v) = LanceDe(Adversario(p), w), v # Vazio
             PROVE  Irmas(v, w)
  BY DEF TodasIrmas
<1> DEFINE q == Adversario(p)
<1>2. q \in Jogadores /\ Adversario(q) = p
  BY DoisJogadores
<1>3. /\ v \in Conhecidos(p) \/ v = Estado(p)
      /\ w \in Conhecidos(q) \/ w = Estado(q)
  BY <1>1, <1>2, ConhecidosDepois
<1>4. LanceDe(p, Estado(p)) = Agora /\ LanceDe(q, Estado(q)) = Agora
  BY <1>2, EstadoAgora DEF Tipada
<1>5. CASE v \in Conhecidos(p) /\ w \in Conhecidos(q)
  BY <1>5 DEF TodasIrmas
<1>6. CASE v = Estado(p) \/ w = Estado(q)
  <2>1. v = Estado(p) /\ w = Estado(q)
    BY <1>2, <1>3, <1>4, <1>6 DEF Passado
  <2> QED  BY <2>1, EstadoAgora DEF Tipada
<1> QED  BY <1>3, <1>5, <1>6

LEMMA OrdemPasso ==
    ASSUME Tipada, Passado, Ordem, [Next]_vars
    PROVE  Ordem'
<1> SUFFICES ASSUME NEW p \in Jogadores
             PROVE  /\ \A m \in ACaminho(p)' : LanceDe(p, vista'[p]) <= LanceDe(p, m.estado)
                    /\ \A m, n : Antes(p, m, n)' =>
                         LanceDe(p, m.estado) <= LanceDe(p, n.estado)
  BY DEF Ordem
<1>1. Transporta(p)
  BY Transporte
<1>2. /\ LanceDe(p, Estado(p)) = Agora
      /\ \A e \in Conhecidos(p) : LanceDe(p, e) <= Agora
      /\ vista[p] \in Conhecidos(p)
      /\ \A m \in ACaminho(p) : m.estado \in Conhecidos(p)
  BY EstadoAgora DEF Tipada, Passado, Conhecidos
<1>3. ASSUME NEW m, NEW n, Antes(p, m, n)'
      PROVE  LanceDe(p, m.estado) <= LanceDe(p, n.estado)
  BY <1>1, <1>2, <1>3 DEF Transporta, Ordem
<1>4. ASSUME NEW n \in ACaminho(p)'
      PROVE  LanceDe(p, vista'[p]) <= LanceDe(p, n.estado)
  <2>1. CASE vista'[p] = vista[p]
    BY <1>1, <1>2, <2>1 DEF Transporta, Ordem
  <2>2. CASE vista'[p] # vista[p]
    BY <1>1, <2>2 DEF Transporta, Ordem
  <2> QED  BY <2>1, <2>2
<1> QED  BY <1>3, <1>4

-----------------------------------------------------------------------------
(* The end of the match, and of the connections.                              *)

\* Where a client is, and what it has been told.
Situacao ==
    \A p \in Jogadores :
        /\ ~avisado[p]
        /\ parada = 0 => ~cortada[p] /\ ~perdida[p]
        /\ fase[p] = "inicial" => ~terminou[p]
        /\ fase[p] = "resultado" => terminou[p] \/ perdida[p]

\* The last state is announced as the last one, and no other is.
FimJusto ==
    /\ \A r \in Range(pendentes) : r.tipo = "finalizada" => partidaFinalizada
    /\ \A p \in Jogadores : \A m \in ACaminho(p) :
         m.tipo = "finalizada" => partidaFinalizada /\ m.estado = Estado(p)
    /\ \A p \in Jogadores : terminou[p] => partidaFinalizada /\ vista[p] = Estado(p)

LEMMA SituacaoPasso ==
    ASSUME Tipada, Situacao, [Next]_vars
    PROVE  Situacao'
<1>0. parada \in Nat
  BY DEF Tipada, TiposParada
<1>1. CASE UNCHANGED <<clienteVars, paradaVars>>
  BY <1>1 DEF Situacao, clienteVars, paradaVars
<1>2. CASE UNCHANGED vars
  BY <1>1, <1>2 DEF vars
<1>3. CASE Atende \/ Writer
  BY <1>3 DEF Situacao, Atende, Writer, clienteVars
<1>4. CASE Responde \/ RespostaRecusada
  BY <1>1, <1>4 DEF Responde, RespostaRecusada
<1>5. CASE LimpaRunning \/ FechaFila
  <2>1. parada' # 0
    <3>1. \/ parada' = 1
          \/ parada' = parada + 1 /\ (parada = 1 \/ parada = 2)
      BY <1>5 DEF LimpaRunning, FechaFila, REQUESTS_FECHADA
    <3> QED  BY <3>1
  <2>2. UNCHANGED clienteVars
    BY <1>5 DEF LimpaRunning, FechaFila
  <2> QED  BY <2>1, <2>2 DEF Situacao, clienteVars
<1>6. ASSUME NEW p \in Jogadores, PushRecusado(p) \/ CortaJogador(p)
      PROVE  Situacao'
  <2>1. UNCHANGED clienteVars
    BY <1>6 DEF PushRecusado, CortaJogador
  <2>2. CASE PushRecusado(p)
    <3>1. parada' # 0
      BY <1>0, <2>2 DEF PushRecusado, REQUESTS_FECHADA
    <3> QED  BY <2>1, <3>1 DEF Situacao, clienteVars
  <2>3. CASE CortaJogador(p)
    <3>1. parada' # 0
      BY <1>0, <2>3, DoisJogadores DEF CortaJogador, RESPONSES_FECHADA
    <3> QED  BY <2>1, <3>1 DEF Situacao, clienteVars
  <2> QED  BY <1>6, <2>2, <2>3
<1>7. ASSUME NEW p \in Jogadores, Listener(p)
      PROVE  Situacao'
  BY <1>1, <1>7 DEF Listener
<1>8. ASSUME NEW p \in Jogadores, RecebeInicial(p) \/ PerdeConexao(p) \/ Copia(p)
      PROVE  Situacao'
  <2>1. CASE RecebeInicial(p)
    BY <2>1 DEF Situacao, RecebeInicial, paradaVars, Tipada, TiposClientes
  <2>2. CASE PerdeConexao(p)
    BY <2>2 DEF Situacao, PerdeConexao, paradaVars, Tipada, TiposClientes
  <2>3. CASE Copia(p)
    BY <2>3 DEF Situacao, Copia, paradaVars, Tipada, TiposClientes
  <2> QED  BY <1>8, <2>1, <2>2, <2>3
<1>9. ASSUME NEW p \in Jogadores, NaoPede(p) \/ Pede(p) \/ Sai(p)
      PROVE  Situacao'
  BY <1>9 DEF Situacao, NaoPede, Pede, Sai, paradaVars, Tipada, TiposClientes
<1>10. ASSUME NEW p \in Jogadores, Recebe(p)
       PROVE  Situacao'
  <2>1. Head(saida[p]) \in Mensagens
    BY <1>10, FilaSemPrimeiro DEF Recebe, Tipada, TiposFilas
  <2>2. Head(saida[p]).tipo # "saiu"
    BY <2>1 DEF Mensagens, Tipos
  <2> QED  BY <1>10, <2>2 DEF Situacao, Recebe, paradaVars, Tipada, TiposClientes
<1> QED
  BY <1>2, <1>3, <1>4, <1>5, <1>6, <1>7, <1>8, <1>9, <1>10 DEF Next, Servidor, Cliente, Para

\* What the worker is about to say follows what it has done.
LEMMA PendentesDepois ==
    ASSUME Tipada, FimJusto, [Next]_vars
    PROVE  \A r \in Range(pendentes') : r.tipo = "finalizada" => partidaFinalizada'
<1>1. \A r \in Range(pendentes) : r.tipo = "finalizada" => partidaFinalizada
  BY DEF FimJusto
<1>2. partidaFinalizada => partidaFinalizada'
  BY Relogio
<1>3. CASE \A r \in Range(pendentes') : r \in Range(pendentes)
  BY <1>1, <1>2, <1>3
<1>4. CASE Atende
  <2>1. CASE UNCHANGED pendentes
    BY <1>3, <2>1
  <2>2. CASE pendentes' = ParaTodos(IF partidaFinalizada' THEN "finalizada" ELSE "estado")
    <3> DEFINE t == IF partidaFinalizada' THEN "finalizada" ELSE "estado"
    <3>1. t \in Tipos /\ (t = "finalizada" <=> partidaFinalizada')
      BY DEF Tipos
    <3> HIDE DEF t
    <3>2. \A r \in Range(ParaTodos(t)) : r.tipo = t
      BY <3>1, RespostaParaTodos
    <3>3. pendentes' = ParaTodos(t)
      BY <2>2 DEF t
    <3> QED  BY <3>1, <3>2, <3>3
  <2>3. CASE pendentes' = <<[tipo |-> "invalida", para |-> Head(filaReq).jogadorId]>>
    BY <2>3 DEF Range
  <2> QED  BY <1>4, <2>1, <2>2, <2>3 DEF Atende
<1>5. CASE Responde
  <2>1. pendentes' = Tail(pendentes) /\ pendentes # << >>
    BY <1>5 DEF Responde
  <2>2. Range(pendentes') \subseteq Range(pendentes)
    BY <2>1, FilaSemPrimeiro DEF Tipada, TiposFilas
  <2> QED  BY <1>3, <2>2
<1>6. CASE RespostaRecusada
  BY <1>6, FilaVazia DEF RespostaRecusada
<1>7. CASE UNCHANGED pendentes
  BY <1>3, <1>7
<1> QED
  BY <1>4, <1>5, <1>6, <1>7
  DEF Next, Servidor, Cliente, Para, Writer, LimpaRunning, FechaFila, CortaJogador, Listener,
      PushRecusado, RecebeInicial, Recebe, PerdeConexao, Copia, NaoPede, Pede, Sai, filaVars,
      vars

\* A client is told of the end by a message that says so.
LEMMA TerminouDepois ==
    ASSUME Tipada, Situacao, [Next]_vars, NEW p \in Jogadores, terminou'[p]
    PROVE  \/ terminou[p] /\ vista'[p] = vista[p]
           \/ \E m \in ACaminho(p) : m.tipo = "finalizada" /\ vista'[p] = m.estado
<1>1. CASE UNCHANGED <<vista, terminou>>
  BY <1>1
<1>2. ASSUME NEW q \in Jogadores, RecebeInicial(q) \/ Recebe(q)
      PROVE  \/ terminou[p] /\ vista'[p] = vista[p]
             \/ \E m \in ACaminho(p) : m.tipo = "finalizada" /\ vista'[p] = m.estado
  <2>0. /\ vista \in [Jogadores -> Estados \cup {Vazio}]
        /\ terminou \in [Jogadores -> BOOLEAN]
    BY DEF Tipada, TiposClientes
  <2>1. CASE q # p
    BY <1>2, <2>0, <2>1 DEF RecebeInicial, Recebe
  <2>2. CASE q = p /\ RecebeInicial(p)
    BY <2>2 DEF RecebeInicial, Situacao
  <2>3. CASE q = p /\ Recebe(p)
    <3>1. Head(saida[p]).tipo = "finalizada" /\ vista'[p] = Head(saida[p]).estado
      BY <2>0, <2>3 DEF Recebe
    <3>2. Head(saida[p]) \in Range(saida[p])
      BY <2>3, FilaSemPrimeiro DEF Recebe, Tipada, TiposFilas
    <3> QED  BY <3>1, <3>2 DEF ACaminho
  <2> QED  BY <1>2, <2>1, <2>2, <2>3
<1> QED
  BY <1>1, <1>2
  DEF Next, Servidor, Cliente, Para, Atende, Responde, RespostaRecusada, Writer, LimpaRunning,
      FechaFila, CortaJogador, Listener, PushRecusado, PerdeConexao, Copia, NaoPede, Pede,
      Sai, clienteVars, vars

LEMMA FimJustoPasso ==
    ASSUME Tipada, Situacao, FimJusto, [Next]_vars
    PROVE  FimJusto'
<1>1. \A r \in Range(pendentes') : r.tipo = "finalizada" => partidaFinalizada'
  BY PendentesDepois
<1>2. ASSUME NEW p \in Jogadores
      PROVE  /\ \A m \in ACaminho(p)' :
                  m.tipo = "finalizada" => partidaFinalizada' /\ m.estado = Estado(p)'
             /\ terminou'[p] => partidaFinalizada' /\ vista'[p] = Estado(p)'
  <2>1. CASE /\ partidaFinalizada' = partidaFinalizada
             /\ \A q \in Jogadores : Estado(q)' = Estado(q)
    <3>1. \A m \in ACaminho(p)' :
            m.tipo = "finalizada" => partidaFinalizada /\ m.estado = Estado(p)
      BY Transporte DEF Transporta, FimJusto
    <3>2. terminou'[p] => partidaFinalizada /\ vista'[p] = Estado(p)
      BY TerminouDepois DEF FimJusto
    <3> QED  BY <2>1, <3>1, <3>2
  <2>2. CASE ~partidaFinalizada /\ UNCHANGED <<filaRes, saida, vista, terminou>>
    <3>1. ACaminho(p)' = ACaminho(p)
      BY <2>2, CaminhoParado
    <3>2. terminou' = terminou
      BY <2>2
    <3> QED  BY <2>2, <3>1, <3>2 DEF FimJusto
  <2> QED  BY <2>1, <2>2, Relogio
<1> QED  BY <1>1, <1>2 DEF FimJusto

LEMMA FimNoInicio == Init => Situacao /\ FimJusto
<1> SUFFICES ASSUME Init PROVE Situacao /\ FimJusto
  OBVIOUS
<1>1. Situacao
  BY DEF Init, Situacao
<1>2. \A r \in Range(pendentes) : r.tipo # "finalizada"
  BY RespostaParaTodos DEF Init, Tipos
<1>3. \A p \in Jogadores : ACaminho(p) = {} /\ ~terminou[p]
  BY FilaVazia DEF Init, ACaminho
<1> QED  BY <1>1, <1>2, <1>3 DEF FimJusto

-----------------------------------------------------------------------------
(* The first message: wherever it is, nothing for the same client is before   *)
(* it, until the client gets it or its connection ends.                       *)

PrimeiraChega(p) ==
    \/ saida[p] # << >> /\ Head(saida[p]).tipo = "iniciada"
    \/ /\ saida[p] = << >>
       /\ \/ cortada[p]
          \/ PrimeiraDe(filaRes, p)
          \/ NenhumaPara(filaRes, p) /\ PrimeiraDe(pendentes, p)
          \/ NenhumaPara(filaRes, p) /\ parada >= RESPONSES_FECHADA

Primeira ==
    \A p \in Jogadores :
        fase[p] # "erro" /\ (fase[p] = "inicial" => PrimeiraChega(p))

LEMMA PrimeiraNoInicio == Init => Primeira
<1> SUFFICES ASSUME Init, NEW p \in Jogadores
             PROVE  fase[p] = "inicial" /\ PrimeiraChega(p)
  BY DEF Primeira
<1>1. fase[p] = "inicial" /\ saida[p] = << >> /\ NenhumaPara(filaRes, p)
  BY FilaVazia DEF Init
<1>2. PrimeiraDe(pendentes, p)
  BY RespostaParaTodos DEF Init, Tipos
<1> QED  BY <1>1, <1>2 DEF PrimeiraChega

\* No client that waits finds another message first, and no other waits again.
LEMMA FaseDepois ==
    ASSUME Tipada, Primeira, [Next]_vars, NEW p \in Jogadores
    PROVE  /\ fase'[p] # "erro"
           /\ fase'[p] = "inicial" => fase[p] = "inicial"
<1>0. fase[p] # "erro" /\ fase \in [Jogadores -> {"inicial", "copia", "tecla", "resultado",
                                                   "saiu", "erro", "desligado"}]
  BY DEF Primeira, Tipada, TiposClientes
<1>1. CASE fase' = fase
  BY <1>0, <1>1
<1>2. ASSUME NEW q \in Jogadores, RecebeInicial(q)
      PROVE  fase'[p] # "erro" /\ (fase'[p] = "inicial" => fase[p] = "inicial")
  <2>1. Head(saida[q]).tipo = "iniciada"
    BY <1>2 DEF RecebeInicial, Primeira, PrimeiraChega
  <2> QED  BY <1>0, <1>2, <2>1 DEF RecebeInicial
<1>3. ASSUME NEW q \in Jogadores, PerdeConexao(q) \/ Copia(q) \/ NaoPede(q) \/ Pede(q) \/ Sai(q)
      PROVE  fase'[p] # "erro" /\ (fase'[p] = "inicial" => fase[p] = "inicial")
  BY <1>0, <1>3 DEF PerdeConexao, Copia, NaoPede, Pede, Sai
<1> QED
  BY <1>1, <1>2, <1>3
  DEF Next, Servidor, Cliente, Para, Atende, Responde, RespostaRecusada, Writer, LimpaRunning,
      FechaFila, CortaJogador, Listener, PushRecusado, Recebe, clienteVars, vars

\* Only the step of the client itself takes a message out of its stream.
LEMMA PrimeiraChegaAoEscrever ==
    ASSUME Tipada, Writer, NEW p \in Jogadores, fase[p] = "inicial", PrimeiraChega(p)
    PROVE  PrimeiraChega(p)'
<1> DEFINE m == Head(filaRes)
<1>1. /\ filaRes \in Seq(Mensagens) /\ filaRes # << >>
      /\ saida \in [Jogadores -> Seq(Mensagens)] /\ saida[p] \in Seq(Mensagens)
      /\ filaRes' = Tail(filaRes) /\ UNCHANGED <<pendentes, parada, cortada>>
  BY DEF Tipada, TiposFilas, Writer
<1>2. /\ m \in Mensagens
      /\ Range(filaRes) = {m} \cup Range(Tail(filaRes))
      /\ PrimeiraDe(filaRes, p) =>
           IF m.para = p THEN m.tipo = "iniciada" ELSE PrimeiraDe(Tail(filaRes), p)
  BY <1>1, FilaSemPrimeiro
<1>3. m.para \in Jogadores
  BY <1>2 DEF Mensagens
<1>4. /\ Append(saida[p], m) # << >>
      /\ Head(Append(saida[p], m)) = IF saida[p] = << >> THEN m ELSE Head(saida[p])
  BY <1>1, <1>2, FilaComMaisUm
<1>5. saida' = IF Ausente(m.para) \/ cortada[m.para]
                 THEN saida ELSE [saida EXCEPT ![m.para] = Append(@, m)]
  BY DEF Writer
<1> HIDE DEF m
<1>6. m.para # p => saida'[p] = saida[p]
  BY <1>1, <1>3, <1>5
<1>7. ~cortada[p] /\ m.para = p => saida'[p] = Append(saida[p], m)
  BY <1>1, <1>5 DEF Ausente
<1>8. cortada[p] => saida'[p] = saida[p]
  BY <1>1, <1>3, <1>5
<1>9. NenhumaPara(filaRes, p) => NenhumaPara(Tail(filaRes), p) /\ m.para # p
  BY <1>2 DEF NenhumaPara
<1>10. CASE saida[p] # << >> /\ Head(saida[p]).tipo = "iniciada"
  BY <1>4, <1>6, <1>7, <1>8, <1>10 DEF PrimeiraChega
<1>11. CASE saida[p] = << >> /\ cortada[p]
  BY <1>1, <1>8, <1>11 DEF PrimeiraChega
<1>12. CASE saida[p] = << >> /\ ~cortada[p] /\ PrimeiraDe(filaRes, p)
  BY <1>1, <1>2, <1>4, <1>6, <1>7, <1>12 DEF PrimeiraChega
<1>13. CASE /\ saida[p] = << >>
            /\ NenhumaPara(filaRes, p)
            /\ PrimeiraDe(pendentes, p) \/ parada >= RESPONSES_FECHADA
  BY <1>1, <1>6, <1>9, <1>13 DEF PrimeiraChega
<1> QED  BY <1>10, <1>11, <1>12, <1>13 DEF PrimeiraChega

LEMMA PrimeiraChegaAoResponder ==
    ASSUME Tipada, Responde, NEW p \in Jogadores, PrimeiraChega(p)
    PROVE  PrimeiraChega(p)'
<1> DEFINE r == Head(pendentes)
           e == [tipo |-> r.tipo, para |-> r.para, estado |-> Estado(r.para)]
<1>1. /\ filaRes \in Seq(Mensagens) /\ pendentes # << >>
      /\ pendentes \in Seq([tipo : Tipos, para : Jogadores])
      /\ filaRes' = Append(filaRes, e) /\ pendentes' = Tail(pendentes)
      /\ UNCHANGED <<saida, parada, cortada>> /\ parada < RESPONSES_FECHADA
      /\ parada \in Nat
  BY DEF Tipada, TiposFilas, TiposParada, Responde, paradaVars
<1>2. /\ r \in [tipo : Tipos, para : Jogadores]
      /\ PrimeiraDe(pendentes, p) =>
           IF r.para = p THEN r.tipo = "iniciada" ELSE PrimeiraDe(Tail(pendentes), p)
  BY <1>1, FilaSemPrimeiro
<1>3. e \in Mensagens /\ e.para = r.para /\ e.tipo = r.tipo
  BY <1>2, EstadoAgora DEF Mensagens, Tipada
<1> HIDE DEF r, e
<1>4. /\ Range(Append(filaRes, e)) = Range(filaRes) \cup {e}
      /\ PrimeiraDe(filaRes, p) => PrimeiraDe(Append(filaRes, e), p)
      /\ NenhumaPara(filaRes, p) /\ e.para = p /\ e.tipo = "iniciada" =>
           PrimeiraDe(Append(filaRes, e), p)
  BY <1>1, <1>3, FilaComMaisUm
<1>5. NenhumaPara(filaRes, p) /\ e.para # p => NenhumaPara(Append(filaRes, e), p)
  BY <1>4 DEF NenhumaPara
<1>6. ~(parada >= RESPONSES_FECHADA)
  BY <1>1 DEF RESPONSES_FECHADA
<1> QED  BY <1>1, <1>2, <1>3, <1>4, <1>5, <1>6 DEF PrimeiraChega

LEMMA PrimeiraChegaAoPerder ==
    ASSUME Tipada, NEW q \in Jogadores, PushRecusado(q) \/ CortaJogador(q),
           NEW p \in Jogadores, PrimeiraChega(p)
    PROVE  PrimeiraChega(p)'
<1>1. /\ saida \in [Jogadores -> Seq(Mensagens)] /\ saida[q] \in Seq(Mensagens)
      /\ cortada \in [Jogadores -> BOOLEAN] /\ parada \in Nat
  BY DEF Tipada, TiposFilas, TiposParada
<1>2. /\ UNCHANGED <<filaRes, pendentes>> /\ Corta(q)
      /\ parada' = parada \/ parada' = parada + 1
  BY DEF PushRecusado, CortaJogador
<1>3. PICK k \in 0 .. Len(saida[q]) : saida' = [saida EXCEPT ![q] = SubSeq(saida[q], 1, k)]
  BY <1>2 DEF Corta
<1> DEFINE t == SubSeq(saida[q], 1, k)
<1>4. /\ saida[q] = << >> => t = << >>
      /\ t # << >> => Head(t) = Head(saida[q])
  BY <1>1, FilaCortada
<1>5. saida' = [saida EXCEPT ![q] = t]
  BY <1>3
<1> HIDE DEF t
<1>6. cortada' = [cortada EXCEPT ![q] = TRUE]
  BY <1>2 DEF Corta
<1>7. parada >= RESPONSES_FECHADA => parada' >= RESPONSES_FECHADA
  BY <1>1, <1>2 DEF RESPONSES_FECHADA
<1>8. CASE p = q
  <2>1. cortada'[p] /\ saida'[p] = t
    BY <1>1, <1>5, <1>6, <1>8
  <2>2. t # << >> => Head(t).tipo = "iniciada"
    BY <1>4, <1>8 DEF PrimeiraChega
  <2> QED  BY <2>1, <2>2 DEF PrimeiraChega
<1>9. CASE p # q
  <2>1. cortada'[p] = cortada[p] /\ saida'[p] = saida[p]
    BY <1>1, <1>5, <1>6, <1>9
  <2> QED  BY <1>2, <1>7, <2>1 DEF PrimeiraChega
<1> QED  BY <1>8, <1>9

LEMMA PrimeiraPasso ==
    ASSUME Tipada, Primeira, [Next]_vars
    PROVE  Primeira'
<1> SUFFICES ASSUME NEW p \in Jogadores, fase'[p] = "inicial"
             PROVE  PrimeiraChega(p)'
  BY FaseDepois DEF Primeira
<1>1. fase[p] = "inicial" /\ PrimeiraChega(p)
  BY FaseDepois DEF Primeira
<1>2. parada \in Nat
  BY DEF Tipada, TiposParada
<1>3. CASE UNCHANGED <<saida, filaRes, pendentes, parada, cortada>>
  BY <1>1, <1>3 DEF PrimeiraChega
<1>4. CASE UNCHANGED vars
  BY <1>3, <1>4 DEF vars, filaVars, paradaVars
<1>5. CASE LimpaRunning \/ FechaFila
  <2>1. UNCHANGED <<saida, filaRes, pendentes, cortada>>
    BY <1>5 DEF LimpaRunning, FechaFila, filaVars
  <2>2. parada >= RESPONSES_FECHADA => parada' >= RESPONSES_FECHADA
    <3>1. parada = 0 \/ parada' = parada + 1
      BY <1>5 DEF LimpaRunning, FechaFila
    <3> QED  BY <1>2, <3>1 DEF RESPONSES_FECHADA
  <2> QED  BY <1>1, <2>1, <2>2 DEF PrimeiraChega
<1>6. CASE Atende
  <2>1. UNCHANGED <<saida, filaRes, parada, cortada>> /\ pendentes = << >>
    BY <1>6 DEF Atende
  <2>2. ~PrimeiraDe(pendentes, p)
    BY <2>1, FilaVazia
  <2> QED  BY <1>1, <2>1, <2>2 DEF PrimeiraChega
<1>7. CASE RespostaRecusada
  <2>1. UNCHANGED <<saida, filaRes, parada, cortada>> /\ parada >= RESPONSES_FECHADA
    BY <1>7 DEF RespostaRecusada, paradaVars
  <2> QED  BY <1>1, <2>1 DEF PrimeiraChega
<1>8. ASSUME NEW q \in Jogadores,
             PerdeConexao(q) \/ Copia(q) \/ NaoPede(q) \/ Pede(q) \/ Listener(q)
      PROVE  PrimeiraChega(p)'
  BY <1>3, <1>8 DEF PerdeConexao, Copia, NaoPede, Pede, Listener, filaVars, paradaVars
<1>9. ASSUME NEW q \in Jogadores, RecebeInicial(q) \/ Recebe(q) \/ Sai(q)
      PROVE  PrimeiraChega(p)'
  <2>0. saida \in [Jogadores -> Seq(Mensagens)]
        /\ fase \in [Jogadores -> {"inicial", "copia", "tecla", "resultado", "saiu", "erro",
                                   "desligado"}]
    BY DEF Tipada, TiposFilas, TiposClientes
  <2>1. q # p
    BY <1>1, <1>9, <2>0 DEF RecebeInicial, Recebe, Sai
  <2>2. saida'[p] = saida[p]
    BY <1>9, <2>0, <2>1 DEF RecebeInicial, Recebe, Sai
  <2>3. UNCHANGED <<filaRes, pendentes, parada, cortada>>
    BY <1>9 DEF RecebeInicial, Recebe, Sai, paradaVars
  <2> QED  BY <1>1, <2>2, <2>3 DEF PrimeiraChega
<1> QED
  BY <1>1, <1>4, <1>5, <1>6, <1>7, <1>8, <1>9, PrimeiraChegaAoEscrever,
     PrimeiraChegaAoResponder, PrimeiraChegaAoPerder
  DEF Next, Servidor, Cliente, Para

-----------------------------------------------------------------------------
(* Convergence: as long as nothing is being stopped, the present state is     *)
(* what the client shows, or is on its way to it, or is about to be sent.     *)

Presente == {"inicial", "copia", "tecla", "resultado"}

Chegara(p) ==
    \/ vista[p] = Estado(p)
    \/ \E m \in ACaminho(p) : m.tipo # "invalida" /\ m.estado = Estado(p)
    \/ \E r \in Range(pendentes) : r.tipo # "invalida" /\ r.para = p

Atual == \A p \in Jogadores : parada = 0 /\ fase[p] \in Presente => Chegara(p)

LEMMA AtualNoInicio == Init => Atual
<1> SUFFICES ASSUME Init, NEW p \in Jogadores PROVE Chegara(p)
  BY DEF Atual
<1>1. [tipo |-> "iniciada", para |-> p] \in Range(pendentes)
  BY RespostaParaTodos DEF Init, Tipos
<1> QED  BY <1>1 DEF Chegara

\* Nothing starts again.
LEMMA SemVolta ==
    ASSUME Tipada, [Next]_vars
    PROVE  /\ parada' = 0 => parada = 0
           /\ \A p \in Jogadores : fase'[p] \in Presente => fase[p] \in Presente
<1>0. /\ parada \in Nat
      /\ fase \in [Jogadores -> {"inicial", "copia", "tecla", "resultado", "saiu", "erro",
                                 "desligado"}]
  BY DEF Tipada, TiposParada, TiposClientes
<1>1. parada = 0 \/ parada' = parada \/ parada' = parada + 1
  BY DEF Next, Servidor, Cliente, Para, Atende, Responde, RespostaRecusada, Writer,
     LimpaRunning, FechaFila, CortaJogador, Listener, PushRecusado, RecebeInicial, Recebe,
     PerdeConexao, Copia, NaoPede, Pede, Sai, paradaVars, vars
<1>2. ASSUME NEW q \in Jogadores,
             RecebeInicial(q) \/ PerdeConexao(q) \/ Copia(q) \/ NaoPede(q) \/ Pede(q) \/ Sai(q)
      PROVE  \A p \in Jogadores : fase'[p] \in Presente => fase[p] \in Presente
  BY <1>0, <1>2 DEF Presente, RecebeInicial, PerdeConexao, Copia, NaoPede, Pede, Sai
<1>3. UNCHANGED fase => \A p \in Jogadores : fase'[p] \in Presente => fase[p] \in Presente
  OBVIOUS
<1>4. \A p \in Jogadores : fase'[p] \in Presente => fase[p] \in Presente
  BY <1>2, <1>3
  DEF Next, Servidor, Cliente, Para, Atende, Responde, RespostaRecusada, Writer,
      LimpaRunning, FechaFila, CortaJogador, Listener, PushRecusado, Recebe, clienteVars, vars
<1>5. parada' = 0 => parada = 0
  BY <1>0, <1>1
<1> QED  BY <1>4, <1>5

LEMMA AtualAoAtender ==
    ASSUME Tipada, Atende, NEW p \in Jogadores, Chegara(p)
    PROVE  Chegara(p)'
<1> DEFINE t == IF partidaFinalizada' THEN "finalizada" ELSE "estado"
<1>1. UNCHANGED <<filaRes, saida, vista>>
  BY DEF Atende, clienteVars
<1>2. CASE pendentes' = ParaTodos(t)
  <2>1. t \in Tipos /\ t # "invalida"
    BY DEF Tipos
  <2> HIDE DEF t
  <2>2. [tipo |-> t, para |-> p] \in Range(pendentes')
    BY <1>2, <2>1, RespostaParaTodos
  <2> QED  BY <2>1, <2>2 DEF Chegara
<1>3. CASE UNCHANGED jogoVars
  <2>1. Estado(p)' = Estado(p) /\ ACaminho(p)' = ACaminho(p) /\ vista' = vista
    BY <1>1, <1>3, JogoParado, CaminhoParado DEF Tipada
  <2>2. Range(pendentes) = {}
    BY FilaVazia DEF Atende
  <2> QED  BY <2>1, <2>2 DEF Chegara
<1> QED  BY <1>2, <1>3 DEF Atende

LEMMA AtualAoResponder ==
    ASSUME Tipada, Responde, NEW p \in Jogadores, Chegara(p)
    PROVE  Chegara(p)'
<1> DEFINE r == Head(pendentes)
           e == [tipo |-> r.tipo, para |-> r.para, estado |-> Estado(r.para)]
<1>1. /\ r \in [tipo : Tipos, para : Jogadores]
      /\ Range(pendentes) = {r} \cup Range(Tail(pendentes))
  BY FilaSemPrimeiro DEF Responde, Tipada, TiposFilas
<1>2. e \in Mensagens /\ e.para = r.para /\ e.tipo = r.tipo /\ e.estado = Estado(r.para)
  BY <1>1, EstadoAgora DEF Mensagens, Tipada
<1>3. filaRes' = Append(filaRes, e) /\ pendentes' = Tail(pendentes) /\ UNCHANGED <<saida, vista>>
  BY DEF Responde, clienteVars
<1>4. Estado(p)' = Estado(p)
  BY JogoParado DEF Responde, Tipada
<1> HIDE DEF r, e
<1>5. Range(filaRes') = Range(filaRes) \cup {e}
  BY <1>2, <1>3, FilaComMaisUm DEF Tipada, TiposFilas
<1>6. \A m \in ACaminho(p) : m \in ACaminho(p)'
  BY <1>3, <1>5 DEF ACaminho
<1>7. r.para = p => e \in ACaminho(p)'
  BY <1>2, <1>5 DEF ACaminho
<1>8. CASE vista[p] = Estado(p)
  BY <1>3, <1>4, <1>8 DEF Chegara
<1>9. CASE \E m \in ACaminho(p) : m.tipo # "invalida" /\ m.estado = Estado(p)
  BY <1>4, <1>6, <1>9 DEF Chegara
<1>10. CASE \E x \in Range(pendentes) : x.tipo # "invalida" /\ x.para = p
  <2>1. PICK x \in Range(pendentes) : x.tipo # "invalida" /\ x.para = p
    BY <1>10
  <2>2. CASE x = r
    BY <1>2, <1>4, <1>7, <2>1, <2>2 DEF Chegara
  <2>3. CASE x \in Range(pendentes')
    BY <2>1, <2>3 DEF Chegara
  <2> QED  BY <1>1, <1>3, <2>2, <2>3
<1> QED  BY <1>8, <1>9, <1>10 DEF Chegara

\* The writer drops nothing that is news to the client.
LEMMA AtualAoEscrever ==
    ASSUME Tipada, Situacao, FimJusto, Writer, parada = 0,
           NEW p \in Jogadores, fase[p] \in Presente, Chegara(p)
    PROVE  Chegara(p)'
<1> DEFINE m == Head(filaRes)
<1>1. /\ filaRes \in Seq(Mensagens) /\ filaRes # << >>
      /\ saida \in [Jogadores -> Seq(Mensagens)] /\ saida[p] \in Seq(Mensagens)
      /\ filaRes' = Tail(filaRes) /\ UNCHANGED <<pendentes, vista>>
  BY DEF Tipada, TiposFilas, Writer, clienteVars
<1>2. m \in Mensagens /\ m.para \in Jogadores /\ Range(filaRes) = {m} \cup Range(Tail(filaRes))
  <2>1. m \in Mensagens /\ Range(filaRes) = {m} \cup Range(Tail(filaRes))
    BY <1>1, FilaSemPrimeiro
  <2> QED  BY <2>1 DEF Mensagens
<1>3. Estado(p)' = Estado(p)
  BY JogoParado DEF Writer, Tipada
<1>4. CASE fase[p] = "resultado"
  <2>1. vista[p] = Estado(p)
    BY <1>4 DEF Situacao, FimJusto
  <2> QED  BY <1>1, <1>3, <2>1 DEF Chegara
<1>5. CASE fase[p] # "resultado"
  <2>1. ~Ausente(p) /\ ~cortada[p]
    BY <1>5 DEF Situacao, Presente, Ausente
  <2>2. saida' = IF Ausente(m.para) \/ cortada[m.para]
                   THEN saida ELSE [saida EXCEPT ![m.para] = Append(@, m)]
    BY DEF Writer
  <2>3. Range(Append(saida[p], m)) = Range(saida[p]) \cup {m}
    BY <1>1, <1>2, FilaComMaisUm
  <2> HIDE DEF m
  <2>4. m.para = p => saida'[p] = Append(saida[p], m)
    BY <1>1, <2>1, <2>2
  <2>5. m.para # p => saida'[p] = saida[p]
    BY <1>1, <1>2, <2>2
  <2>6. \A n \in ACaminho(p) : n \in ACaminho(p)'
    BY <1>1, <1>2, <2>3, <2>4, <2>5 DEF ACaminho
  <2> QED  BY <1>1, <1>3, <2>6 DEF Chegara
<1> QED  BY <1>4, <1>5

\* What the client takes out it shows, or has nothing newer than what it shows.
LEMMA AtualAoReceber ==
    ASSUME Tipada, Passado, Ordem, Primeira, NEW p \in Jogadores,
           RecebeInicial(p) \/ Recebe(p), Chegara(p)
    PROVE  Chegara(p)'
<1> DEFINE m == Head(saida[p])
<1>1. /\ saida \in [Jogadores -> Seq(Mensagens)] /\ saida[p] \in Seq(Mensagens)
      /\ vista \in [Jogadores -> Estados \cup {Vazio}]
      /\ saida[p] # << >> /\ saida' = [saida EXCEPT ![p] = Tail(saida[p])]
      /\ UNCHANGED <<filaRes, pendentes>>
  BY DEF Tipada, TiposFilas, TiposClientes, RecebeInicial, Recebe
<1>2. m \in Mensagens /\ Range(saida[p]) = {m} \cup Range(Tail(saida[p]))
  BY <1>1, FilaSemPrimeiro
<1>3. m \in ACaminho(p)
  BY <1>2 DEF ACaminho
<1>4. Estado(p)' = Estado(p)
  BY JogoParado DEF RecebeInicial, Recebe, Tipada
<1>5. m.tipo # "invalida" => vista'[p] = m.estado
  <2>1. CASE RecebeInicial(p)
    <3>1. m.tipo = "iniciada"
      BY <2>1 DEF RecebeInicial, Primeira, PrimeiraChega
    <3> QED  BY <1>1, <2>1, <3>1 DEF RecebeInicial
  <2>2. CASE Recebe(p)
    <3>1. m.tipo \in {"iniciada", "estado", "invalida", "finalizada"}
      BY <1>2 DEF Mensagens, Tipos
    <3> QED  BY <1>1, <2>2, <3>1 DEF Recebe
  <2> QED  BY <2>1, <2>2
<1>6. vista'[p] = vista[p] \/ vista'[p] = m.estado
  BY <1>1 DEF RecebeInicial, Recebe
<1> HIDE DEF m
<1>7. CASE vista[p] = Estado(p)
  <2>1. /\ m.estado \in Conhecidos(p) /\ LanceDe(p, m.estado) \in Nat
        /\ LanceDe(p, Estado(p)) = Agora /\ Agora \in Nat
    <3>1. m.estado \in Conhecidos(p)
      BY <1>3 DEF Conhecidos
    <3> QED  BY <3>1, CaminhoTipado, EstadoAgora DEF Tipada
  <2>2. LanceDe(p, vista[p]) <= LanceDe(p, m.estado) /\ LanceDe(p, m.estado) <= Agora
    BY <1>3, <2>1 DEF Ordem, Passado
  <2>3. LanceDe(p, m.estado) = Agora
    BY <1>7, <2>1, <2>2
  <2>4. m.estado = Estado(p)
    BY <2>1, <2>3 DEF Passado
  <2> QED  BY <1>4, <1>6, <1>7, <2>4 DEF Chegara
<1>8. CASE \E n \in ACaminho(p) : n.tipo # "invalida" /\ n.estado = Estado(p)
  <2>1. PICK n \in ACaminho(p) : n.tipo # "invalida" /\ n.estado = Estado(p)
    BY <1>8
  <2>2. CASE n = m
    BY <1>4, <1>5, <2>1, <2>2 DEF Chegara
  <2>3. CASE n # m
    <3>1. saida'[p] = Tail(saida[p])
      BY <1>1
    <3>2. n \in ACaminho(p)'
      BY <1>1, <1>2, <2>3, <3>1 DEF ACaminho
    <3> QED  BY <1>4, <2>1, <3>2 DEF Chegara
  <2> QED  BY <2>2, <2>3
<1>9. CASE \E r \in Range(pendentes) : r.tipo # "invalida" /\ r.para = p
  BY <1>1, <1>9 DEF Chegara
<1> QED  BY <1>7, <1>8, <1>9 DEF Chegara

LEMMA AtualPasso ==
    ASSUME Tipada, Passado, Ordem, Situacao, FimJusto, Primeira, Atual, [Next]_vars
    PROVE  Atual'
<1> SUFFICES ASSUME NEW p \in Jogadores, parada' = 0, fase'[p] \in Presente
             PROVE  Chegara(p)'
  BY DEF Atual
<1>1. parada = 0 /\ fase[p] \in Presente /\ Chegara(p)
  BY SemVolta DEF Atual
<1>2. CASE UNCHANGED <<jogoVars, filaRes, pendentes>> /\ vista'[p] = vista[p]
           /\ saida'[p] = saida[p]
  <2>1. Estado(p)' = Estado(p)
    BY <1>2, JogoParado DEF Tipada
  <2>2. ACaminho(p)' = ACaminho(p)
    BY <1>2 DEF ACaminho
  <2> QED  BY <1>1, <1>2, <2>1, <2>2 DEF Chegara
<1>3. CASE UNCHANGED vars
  BY <1>2, <1>3 DEF vars, filaVars, clienteVars
<1>4. ~RespostaRecusada /\ ~LimpaRunning /\ ~FechaFila
  <2>1. ~RespostaRecusada
    BY <1>1 DEF RespostaRecusada, RESPONSES_FECHADA
  <2>2. ~LimpaRunning /\ ~FechaFila
    BY <1>1 DEF LimpaRunning, FechaFila, REQUESTS_FECHADA
  <2> QED  BY <2>1, <2>2
<1>5. ASSUME NEW q \in Jogadores PROVE ~PushRecusado(q) /\ ~CortaJogador(q)
  <2>1. ~PushRecusado(q)
    BY <1>1 DEF PushRecusado, REQUESTS_FECHADA
  <2>2. ~CortaJogador(q)
    BY <1>1, DoisJogadores DEF CortaJogador, RESPONSES_FECHADA
  <2> QED  BY <2>1, <2>2
<1>6. ASSUME NEW q \in Jogadores,
             PerdeConexao(q) \/ Copia(q) \/ NaoPede(q) \/ Pede(q) \/ Listener(q)
      PROVE  Chegara(p)'
  BY <1>2, <1>6 DEF PerdeConexao, Copia, NaoPede, Pede, Listener, filaVars, clienteVars
<1>7. ASSUME NEW q \in Jogadores, RecebeInicial(q) \/ Recebe(q) \/ Sai(q)
      PROVE  Chegara(p)'
  <2>1. CASE q = p
    <3>1. ~Sai(p)
      BY DEF Sai, Presente, Tipada, TiposClientes
    <3> QED  BY <1>1, <1>7, <2>1, <3>1, AtualAoReceber
  <2>2. CASE q # p
    <3>1. /\ saida \in [Jogadores -> Seq(Mensagens)]
          /\ vista \in [Jogadores -> Estados \cup {Vazio}]
      BY DEF Tipada, TiposFilas, TiposClientes
    <3>2. vista'[p] = vista[p] /\ saida'[p] = saida[p]
      BY <1>7, <2>2, <3>1 DEF RecebeInicial, Recebe, Sai
    <3>3. UNCHANGED <<jogoVars, filaRes, pendentes>>
      BY <1>7 DEF RecebeInicial, Recebe, Sai
    <3> QED  BY <1>2, <3>2, <3>3
  <2> QED  BY <2>1, <2>2
<1>8. CASE Atende \/ Responde \/ Writer
  BY <1>1, <1>8, AtualAoAtender, AtualAoResponder, AtualAoEscrever
<1> QED
  BY <1>3, <1>4, <1>5, <1>6, <1>7, <1>8 DEF Next, Servidor, Cliente, Para

-----------------------------------------------------------------------------
(* All of it together is inductive.                                           *)

InvPartida ==
    Tipada /\ Passado /\ TodasIrmas /\ Ordem /\ Situacao /\ FimJusto /\ Primeira /\ Atual

LEMMA Invariancia == Spec => []InvPartida
<1>1. Init => InvPartida
  BY TiposNoInicio, PassadoNoInicio, FimNoInicio, PrimeiraNoInicio, AtualNoInicio
  DEF InvPartida
<1>2. InvPartida /\ [Next]_vars => InvPartida'
  BY TiposPasso, PassadoPasso, IrmasPasso, OrdemPasso, SituacaoPasso, FimJustoPasso,
     PrimeiraPasso, AtualPasso DEF InvPartida
<1> QED  BY <1>1, <1>2, PTL DEF Spec

(* The first message a client gets is MSG_PARTIDA_INICIADA, however the       *)
(* worker, the writer and the other client, who may already play, take turns. *)
THEOREM PrimeiraCerta == Spec => []PrimeiraMensagem
<1>1. InvPartida => PrimeiraMensagem
  BY DEF InvPartida, Primeira, PrimeiraMensagem
<1> QED  BY <1>1, Invariancia, PTL

(* A client to which nothing is on its way shows the state of the match, as   *)
(* long as main has not begun to stop the server: no answer is lost, and what *)
(* the writer does not send to a client that has left was no news to it.      *)
THEOREM Convergencia == Spec => []VisoesConvergem
<1>1. ASSUME InvPartida, NEW p \in Jogadores, parada = 0, NadaACaminho(p),
             fase[p] \in {"copia", "tecla", "resultado"}
      PROVE  vista[p] = Estado(p)
  <2>1. Chegara(p)
    BY <1>1 DEF InvPartida, Atual, Presente
  <2>2. ACaminho(p) = {}
    <3>1. Range(saida[p]) = {}
      BY <1>1, FilaVazia DEF NadaACaminho
    <3>2. \A m \in Range(filaRes) : m.para # p
      BY <1>1 DEF NadaACaminho, Range
    <3> QED  BY <3>1, <3>2 DEF ACaminho
  <2>3. \A r \in Range(pendentes) : r.para # p
    BY <1>1 DEF NadaACaminho, Range
  <2> QED  BY <2>1, <2>2, <2>3 DEF Chegara
<1>2. InvPartida => VisoesConvergem
  BY <1>1 DEF VisoesConvergem
<1> QED  BY <1>2, Invariancia, PTL

LEMMA LanceVistoDe == \A p \in Jogadores : LanceVisto(p) = LanceDe(p, vista[p])
BY DEF LanceVisto, LanceDe

(* Two clients that show the same point of the match show its two sides: the  *)
(* same table, one of them on turn, and each the number of cards of the other *)
(* one, who holds none of the same cards.                                     *)
THEOREM MesmaPartida == Spec => []VisoesIrmas
<1>1. ASSUME InvPartida, NEW p \in Jogadores, vista[p] # Vazio,
             LanceVisto(p) = LanceVisto(Adversario(p))
      PROVE  Irmas(vista[p], vista[Adversario(p)])
  <2>1. Adversario(p) \in Jogadores
    BY DoisJogadores
  <2>2. LanceDe(p, vista[p]) = LanceDe(Adversario(p), vista[Adversario(p)])
    BY <1>1, <2>1, LanceVistoDe
  <2>3. vista[p] \in Conhecidos(p) /\ vista[Adversario(p)] \in Conhecidos(Adversario(p))
    BY DEF Conhecidos
  <2> QED  BY <1>1, <2>2, <2>3 DEF InvPartida, TodasIrmas
<1>2. InvPartida => VisoesIrmas
  BY <1>1 DEF VisoesIrmas, Irmas
<1> QED  BY <1>2, Invariancia, PTL

-----------------------------------------------------------------------------
(* The refinement.                                                            *)

\* Before the end is announced nothing is said of it, and then the truth.
AnunciosCertos ==
    \A p \in Jogadores :
        /\ ~terminou[p] => Anuncio(p) = "nada"
        /\ terminou[p] =>
             /\ partidaFinalizada
             /\ Anuncio(p) = IF p = jogadorDaVez THEN "venceu" ELSE "perdeu"
             /\ LanceVisto(p) = Agora

LEMMA AnunciosDaPartida == InvPartida => AnunciosCertos
<1> SUFFICES ASSUME InvPartida, NEW p \in Jogadores
             PROVE  /\ ~terminou[p] => Anuncio(p) = "nada"
                    /\ terminou[p] =>
                         /\ partidaFinalizada
                         /\ Anuncio(p) = IF p = jogadorDaVez THEN "venceu" ELSE "perdeu"
                         /\ LanceVisto(p) = Agora
  BY DEF AnunciosCertos
<1>1. terminou[p] => partidaFinalizada /\ vista[p] = Estado(p)
  BY DEF InvPartida, FimJusto
<1>2. /\ LanceDe(p, Estado(p)) = Agora
      /\ Estado(p).mao = << >> <=> partidaFinalizada /\ p = jogadorDaVez
      /\ Estado(p).numeroCartasAdversario = 0 <=> partidaFinalizada /\ p # jogadorDaVez
  BY EstadoAgora DEF InvPartida, Tipada
<1>3. terminou[p] => LanceVisto(p) = Agora
  BY <1>1, <1>2, LanceVistoDe
<1>4. terminou[p] => Anuncio(p) = IF p = jogadorDaVez THEN "venceu" ELSE "perdeu"
  BY <1>1, <1>2 DEF Anuncio
<1> QED  BY <1>1, <1>3, <1>4 DEF Anuncio

LEMMA AnunciosDepois == InvPartida' => AnunciosCertos'
  BY AnunciosDaPartida, PTL

\* A screen that changes goes forward, and no further than the match.
LEMMA VistaAvanca ==
    ASSUME InvPartida, InvPartida', [Next]_vars, Agora' = Agora, NEW p \in Jogadores
    PROVE  /\ LanceVisto(p) \in Nat /\ LanceVisto(p)' \in Nat
           /\ LanceVisto(p) <= LanceVisto(p)' /\ LanceVisto(p)' <= Agora
<1>1. Transporta(p)
  BY Transporte DEF InvPartida
<1>2. /\ vista[p] \in Conhecidos(p) /\ \A m \in ACaminho(p) : m.estado \in Conhecidos(p)
      /\ \A e \in Conhecidos(p) : LanceDe(p, e) \in Nat /\ LanceDe(p, e) <= Agora
      /\ \A m \in ACaminho(p) : LanceDe(p, vista[p]) <= LanceDe(p, m.estado)
  BY CaminhoTipado DEF InvPartida, Passado, Ordem, Conhecidos
<1>3. LanceVisto(p) = LanceDe(p, vista[p]) /\ LanceVisto(p)' = LanceDe(p, vista'[p])
  BY DEF LanceVisto, LanceDe
<1>4. vista'[p] = vista[p] \/ \E m \in ACaminho(p) : vista'[p] = m.estado
  BY <1>1 DEF Transporta
<1> QED  BY <1>2, <1>3, <1>4

\* A step that is not a move changes one screen at most.
LEMMA UmaVista ==
    ASSUME InvPartida, [Next]_vars
    PROVE  \/ UNCHANGED <<vista, terminou>>
           \/ \E p \in Jogadores :
                /\ ~terminou[p]
                /\ \A q \in Jogadores \ {p} : vista'[q] = vista[q] /\ terminou'[q] = terminou[q]
<1>1. ASSUME NEW p \in Jogadores, RecebeInicial(p) \/ Recebe(p)
      PROVE  /\ ~terminou[p]
             /\ \A q \in Jogadores \ {p} : vista'[q] = vista[q] /\ terminou'[q] = terminou[q]
  BY <1>1 DEF InvPartida, Situacao, Tipada, TiposClientes, RecebeInicial, Recebe
<1> QED
  BY <1>1
  DEF Next, Servidor, Cliente, Para, Atende, Responde, RespostaRecusada, Writer, LimpaRunning,
      FechaFila, CortaJogador, Listener, PushRecusado, PerdeConexao, Copia, NaoPede, Pede,
      Sai, clienteVars, vars

LEMMA PartidaComeca == Init => Partida!Init
<1> SUFFICES ASSUME Init PROVE Partida!Init
  OBVIOUS
<1>1. Lance(numeroRodada, jogadorDaVez, partidaFinalizada) = 1 /\ ~partidaFinalizada
  BY DEF Init, Jogo!Init, Lance, MAX_PLAYERS
<1>2. \A p \in Jogadores : LanceVisto(p) = 0 /\ Anuncio(p) = "nada"
  BY DEF Init, LanceVisto, Anuncio
<1> QED  BY <1>1, <1>2 DEF Partida!Init

LEMMA PartidaAvanca ==
    ASSUME InvPartida, InvPartida', [Next]_vars
    PROVE  [Partida!Next]_(Partida!partidaVars)
<1> DEFINE visto == [p \in Jogadores |-> LanceVisto(p)]
           anunciado == [p \in Jogadores |-> Anuncio(p)]
           vencedor == IF partidaFinalizada THEN {jogadorDaVez} ELSE {}
<1>1. ASSUME NEW p \in Jogadores, vista'[p] = vista[p], terminou'[p] = terminou[p]
      PROVE  LanceVisto(p)' = LanceVisto(p) /\ Anuncio(p)' = Anuncio(p)
  BY <1>1 DEF LanceVisto, Anuncio
<1>2. CASE Agora' = Agora + 1 /\ ~partidaFinalizada /\ UNCHANGED <<vista, terminou>>
  <2>1. visto' = visto /\ anunciado' = anunciado
    BY <1>1, <1>2
  <2>2. vencedor = {} /\ vencedor' \in {{}} \cup {{p} : p \in Jogadores}
    <3>1. jogadorDaVez' \in Jogadores
      BY FatosDepois DEF FatosDoJogo, InvPartida, Tipada
    <3> QED  BY <1>2, <3>1
  <2>3. Partida!Joga
    BY <1>2, <2>1, <2>2 DEF Partida!Joga, Agora
  <2> QED  BY <2>3 DEF Partida!Next
<1>3. CASE Agora' = Agora /\ UNCHANGED <<jogadorDaVez, partidaFinalizada>>
  <2>1. vencedor' = vencedor
    BY <1>3
  <2>2. CASE UNCHANGED <<vista, terminou>>
    <3>1. visto' = visto /\ anunciado' = anunciado
      BY <1>1, <2>2
    <3> QED  BY <1>3, <2>1, <3>1 DEF Partida!partidaVars, Agora
  <2>3. ASSUME NEW p \in Jogadores, ~terminou[p],
               \A q \in Jogadores \ {p} : vista'[q] = vista[q] /\ terminou'[q] = terminou[q]
        PROVE  [Partida!Next]_(Partida!partidaVars)
    <3>1. \A q \in Jogadores \ {p} :
            LanceVisto(q)' = LanceVisto(q) /\ Anuncio(q)' = Anuncio(q)
      BY <1>1, <2>3
    <3>2. /\ LanceVisto(p) \in Nat /\ LanceVisto(p)' \in Nat
          /\ LanceVisto(p) <= LanceVisto(p)' /\ LanceVisto(p)' <= Agora
      BY <1>3, VistaAvanca
    <3>3. Anuncio(p) = "nada"
      BY <2>3, AnunciosDaPartida DEF AnunciosCertos
    <3>4. visto' = [visto EXCEPT ![p] = LanceVisto(p)']
      BY <3>1
    <3>5. anunciado' = [anunciado EXCEPT ![p] = Anuncio(p)']
      BY <3>1
    <3>6. CASE terminou'[p]
      <4>1. /\ partidaFinalizada
            /\ Anuncio(p)' = IF p = jogadorDaVez THEN "venceu" ELSE "perdeu"
            /\ LanceVisto(p)' = Agora
        BY <1>3, <3>6, AnunciosDepois DEF AnunciosCertos
      <4>2. vencedor # {} /\ (p \in vencedor <=> p = jogadorDaVez)
        BY <4>1
      <4>3. Partida!VeFim(p)
        BY <1>3, <2>1, <3>3, <3>4, <3>5, <4>1, <4>2 DEF Partida!VeFim, Agora
      <4> QED  BY <4>3 DEF Partida!Next
    <3>7. CASE ~terminou'[p]
      <4>1. Anuncio(p)' = "nada"
        BY <3>7, AnunciosDepois DEF AnunciosCertos
      <4>2. anunciado' = anunciado
        BY <3>3, <3>5, <4>1
      <4>3. CASE LanceVisto(p)' = LanceVisto(p)
        <5>1. visto' = visto
          BY <3>1, <4>3
        <5> QED  BY <1>3, <2>1, <4>2, <5>1 DEF Partida!partidaVars, Agora
      <4>4. CASE LanceVisto(p)' # LanceVisto(p)
        <5>1. Agora \in Nat
          BY EstadoAgora, DoisJogadores DEF InvPartida, Tipada
        <5>2. LanceVisto(p)' \in LanceVisto(p) + 1 .. Agora
          BY <3>2, <4>4, <5>1
        <5>3. Partida!Ve(p)
          BY <1>3, <2>1, <3>4, <4>2, <5>2 DEF Partida!Ve, Agora
        <5> QED  BY <5>3 DEF Partida!Next
      <4> QED  BY <4>3, <4>4
    <3> QED  BY <3>6, <3>7
  <2> QED  BY <2>2, <2>3, UmaVista
<1> QED  BY <1>2, <1>3, Relogio DEF InvPartida

(* Whatever the threads, the two queues and the network do with the messages, *)
(* to the people at the screens it is the one match of UnoPartida: moves in   *)
(* one order, screens that only go forward, and after the last move the same  *)
(* winner announced to both, by clients that work it out from two different   *)
(* numbers of cards.                                                          *)
THEOREM Implementacao == Spec => ImplementaPartida
<1>1. Spec => []InvPartida
  BY Invariancia
<1>2. InvPartida /\ InvPartida' /\ [Next]_vars => [Partida!Next]_(Partida!partidaVars)
  BY PartidaAvanca
<1> QED
  BY <1>1, <1>2, PartidaComeca, PTL DEF Spec, ImplementaPartida, Partida!Spec

-----------------------------------------------------------------------------
(* The server of a match carries out the service of Atendimento.              *)

\* Requests and responses without their content are queues of players.
LEMMA ListaDeNomes ==
    ASSUME NEW S, NEW s \in Seq(S)
    PROVE  /\ Len(Remetentes(s)) = Len(s) /\ Len(Destinos(s)) = Len(s)
           /\ Remetentes(s) = << >> <=> s = << >>
           /\ Destinos(s) = << >> <=> s = << >>
<1>1. Len(s) \in Nat /\ DOMAIN s = 1 .. Len(s) /\ (s = << >> <=> Len(s) = 0)
  BY LenProperties, EmptySeq
<1>2. /\ Remetentes(s) = [i \in 1 .. Len(s) |-> s[i].jogadorId]
      /\ Destinos(s) = [i \in 1 .. Len(s) |-> s[i].para]
  BY <1>1 DEF Remetentes, Destinos
<1> QED  BY <1>1, <1>2

LEMMA NomesSemPrimeiro ==
    ASSUME NEW S, NEW s \in Seq(S), s # << >>
    PROVE  /\ Remetentes(Tail(s)) = Tail(Remetentes(s))
           /\ Head(Remetentes(s)) = Head(s).jogadorId
           /\ Destinos(Tail(s)) = Tail(Destinos(s))
           /\ Head(Destinos(s)) = Head(s).para
<1> DEFINE t == Tail(s)
<1>1. /\ Len(s) \in Nat \ {0} /\ DOMAIN s = 1 .. Len(s) /\ Head(s) = s[1]
      /\ t \in Seq(S) /\ Len(t) = Len(s) - 1
      /\ \A i \in 1 .. Len(t) : t[i] = s[i + 1]
  BY LenProperties, EmptySeq, HeadTailProperties
<1>5. DOMAIN t = 1 .. Len(s) - 1 /\ \A i \in 1 .. Len(s) - 1 : t[i] = s[i + 1]
  BY <1>1, LenProperties
<1> HIDE DEF t
<1> DEFINE r == [i \in 1 .. Len(s) |-> s[i].jogadorId]
           d == [i \in 1 .. Len(s) |-> s[i].para]
<1>2. Remetentes(s) = r /\ Destinos(s) = d
  BY <1>1 DEF Remetentes, Destinos
<1>3. /\ Remetentes(t) = [i \in 1 .. Len(s) - 1 |-> s[i + 1].jogadorId]
      /\ Destinos(t) = [i \in 1 .. Len(s) - 1 |-> s[i + 1].para]
  BY <1>5 DEF Remetentes, Destinos
<1>4. /\ Tail(r) = [i \in 1 .. Len(s) - 1 |-> s[i + 1].jogadorId]
      /\ Head(r) = s[1].jogadorId
      /\ Tail(d) = [i \in 1 .. Len(s) - 1 |-> s[i + 1].para]
      /\ Head(d) = s[1].para
  BY <1>1
<1> QED  BY <1>1, <1>2, <1>3, <1>4 DEF t

LEMMA NomesComMaisUm ==
    ASSUME NEW S, NEW s \in Seq(S), NEW e \in S
    PROVE  /\ Remetentes(Append(s, e)) = Append(Remetentes(s), e.jogadorId)
           /\ Destinos(Append(s, e)) = Append(Destinos(s), e.para)
<1> DEFINE t == Append(s, e)
<1>1. /\ Len(s) \in Nat /\ DOMAIN s = 1 .. Len(s)
      /\ t \in Seq(S) /\ Len(t) = Len(s) + 1
      /\ \A i \in 1 .. Len(s) : t[i] = s[i]
      /\ t[Len(s) + 1] = e
  BY LenProperties, AppendProperties
<1>5. /\ DOMAIN t = 1 .. Len(s) + 1
      /\ \A i \in 1 .. Len(s) + 1 : t[i] = IF i = Len(s) + 1 THEN e ELSE s[i]
  BY <1>1, LenProperties
<1> HIDE DEF t
<1> DEFINE r == [i \in 1 .. Len(s) |-> s[i].jogadorId]
           d == [i \in 1 .. Len(s) |-> s[i].para]
<1>2. Remetentes(s) = r /\ Destinos(s) = d
  BY <1>1 DEF Remetentes, Destinos
<1>3. /\ Remetentes(t) =
           [i \in 1 .. Len(s) + 1 |-> IF i = Len(s) + 1 THEN e.jogadorId ELSE s[i].jogadorId]
      /\ Destinos(t) =
           [i \in 1 .. Len(s) + 1 |-> IF i = Len(s) + 1 THEN e.para ELSE s[i].para]
  BY <1>5 DEF Remetentes, Destinos
<1>4. /\ Append(r, e.jogadorId) =
           [i \in 1 .. Len(s) + 1 |-> IF i = Len(s) + 1 THEN e.jogadorId ELSE s[i].jogadorId]
      /\ Append(d, e.para) =
           [i \in 1 .. Len(s) + 1 |-> IF i = Len(s) + 1 THEN e.para ELSE s[i].para]
  BY <1>1
<1> QED  BY <1>2, <1>3, <1>4 DEF t

LEMMA NomesDaResposta ==
    /\ \A t \in Tipos : Destinos(ParaTodos(t)) = Servico!Todos
    /\ \A p : Destinos(<<[tipo |-> "invalida", para |-> p]>>) = <<p>>
BY DEF Destinos, ParaTodos, Servico!Todos, MAX_PLAYERS

LEMMA ServicoNoInicio == Init => Servico!Init
<1> SUFFICES ASSUME Init PROVE Servico!Init
  OBVIOUS
<1>1. Destinos(pendentes) = Servico!Todos
  BY NomesDaResposta DEF Init, Tipos
<1>2. Remetentes(filaReq) = << >> /\ Destinos(filaRes) = << >>
  <2>1. << >> \in Seq(Jogadores)
    BY EmptySeq
  <2> QED  BY <2>1, ListaDeNomes DEF Init
<1>3. /\ ~partidaFinalizada /\ parada = 0
      /\ DOMAIN resta = {"worker", "writer"}
  BY DEF Init, Jogo!Init
<1>4. {t \in DOMAIN resta : parada = 0 \/ resta[t]} = {"worker", "writer"}
  BY <1>3
<1>5. partidaFinalizada = FALSE
  BY DEF Init, Jogo!Init
<1> QED  BY <1>1, <1>2, <1>3, <1>4, <1>5 DEF Servico!Init, REQUESTS_FECHADA, RESPONSES_FECHADA

LEMMA ServicoPasso ==
    ASSUME Tipada, Tipada', [Next]_vars
    PROVE  [Servico!Next]_(Servico!atendimentoVars)
<1> DEFINE ainda == {t \in DOMAIN resta : parada = 0 \/ resta[t]}
           reqFechada == parada >= REQUESTS_FECHADA
           resFechada == parada >= RESPONSES_FECHADA
           parando == parada > 0
<1>0. /\ filaReq \in Seq(Solicitacoes) /\ filaRes \in Seq(Mensagens)
      /\ pendentes \in Seq([tipo : Tipos, para : Jogadores])
      /\ parada \in 0 .. RESPONSES_FECHADA + MAX_PLAYERS
      /\ parada' \in 0 .. RESPONSES_FECHADA + MAX_PLAYERS
      /\ resta \in [worker : BOOLEAN, writer : BOOLEAN]
      /\ DOMAIN resta = {"worker", "writer"} /\ DOMAIN resta' = {"worker", "writer"}
      /\ partidaFinalizada \in BOOLEAN /\ partidaFinalizada' \in BOOLEAN
      /\ InvJogo
  <2>1. FatosDoJogo /\ FatosDoJogo'
    BY FatosAgora, FatosDepois DEF Tipada
  <2> QED  BY <2>1 DEF Tipada, TiposFilas, TiposParada, FatosDoJogo
<1>p. ASSUME UNCHANGED <<filaReq, filaRes, pendentes, partidaFinalizada, ainda, reqFechada,
                         resFechada, parando>>
      PROVE  UNCHANGED Servico!atendimentoVars
  BY <1>p DEF Servico!atendimentoVars
<1>1. CASE UNCHANGED <<jogoVars, filaReq, filaRes, pendentes, parada, resta>>
  BY <1>p, <1>1 DEF jogoVars
<1>2. CASE Atende
  <2> DEFINE s == Head(filaReq)
  <2>1. /\ filaReq # << >> /\ pendentes = << >> /\ filaReq' = Tail(filaReq)
        /\ UNCHANGED <<filaRes, parada>>
    BY <1>2 DEF Atende
  <2>2. s \in Solicitacoes
    BY <1>0, <2>1, FilaSemPrimeiro
  <2>3. /\ Remetentes(filaReq) # << >> /\ Destinos(pendentes) = << >>
        /\ Remetentes(filaReq)' = Tail(Remetentes(filaReq))
        /\ Head(Remetentes(filaReq)) = s.jogadorId
    <3>1. filaReq \in Seq(Solicitacoes) /\ filaReq # << >>
      BY <1>0, <2>1
    <3>2. Remetentes(filaReq) # << >>
      BY <3>1, ListaDeNomes
    <3>3. /\ Remetentes(Tail(filaReq)) = Tail(Remetentes(filaReq))
          /\ Head(Remetentes(filaReq)) = s.jogadorId
      BY <3>1, NomesSemPrimeiro
    <3>4. Destinos(pendentes) = << >>
      BY <1>0, <2>1, ListaDeNomes
    <3> QED  BY <2>1, <3>2, <3>3, <3>4
  <2>4. "worker" \in ainda /\ ainda' = IF parando THEN ainda \ {"worker"} ELSE ainda
    <3>1. resta' = [resta EXCEPT !.worker = FALSE] /\ (parada = 0 \/ resta["worker"])
      BY <1>0, <1>2 DEF Atende
    <3>2. resta'["worker"] = FALSE /\ resta'["writer"] = resta["writer"]
      BY <1>0, <3>1
    <3> QED  BY <1>0, <2>1, <3>1, <3>2
  <2>5. \/ partidaFinalizada /\ UNCHANGED <<pendentes, partidaFinalizada>>
        \/ /\ ~partidaFinalizada
           /\ Destinos(pendentes)' = <<s.jogadorId>> /\ UNCHANGED partidaFinalizada
        \/ ~partidaFinalizada /\ Destinos(pendentes)' = Servico!Todos
    <3>1. CASE UNCHANGED <<jogoVars, pendentes>> /\ partidaFinalizada
      BY <3>1 DEF jogoVars
    <3>2. CASE /\ Aceita(s)
               /\ pendentes' = ParaTodos(IF partidaFinalizada' THEN "finalizada" ELSE "estado")
      <4>1. ~partidaFinalizada
        BY <1>0, <2>2, <3>2, PassoDoJogo
      <4>2. \E t \in Tipos : pendentes' = ParaTodos(t)
        BY <3>2 DEF Tipos
      <4> QED  BY <4>1, <4>2, NomesDaResposta
    <3>3. CASE /\ ~partidaFinalizada /\ UNCHANGED jogoVars
               /\ pendentes' = <<[tipo |-> "invalida", para |-> s.jogadorId]>>
      BY <3>3, NomesDaResposta DEF jogoVars
    <3> QED  BY <1>2, <3>1, <3>2, <3>3 DEF Atende
  <2>6. Servico!Atende
    <3> HIDE DEF ainda, s
    <3>1. Servico!Toma("worker")
      BY <2>4 DEF Servico!Toma, ainda
    <3>2. UNCHANGED <<reqFechada, resFechada, parando>> /\ UNCHANGED Destinos(filaRes)
      BY <2>1
    <3>3. \/ partidaFinalizada /\ UNCHANGED <<Destinos(pendentes), partidaFinalizada>>
          \/ /\ ~partidaFinalizada /\ Destinos(pendentes)' = <<Head(Remetentes(filaReq))>>
             /\ UNCHANGED partidaFinalizada
          \/ /\ ~partidaFinalizada /\ Destinos(pendentes)' = Servico!Todos
             /\ partidaFinalizada' \in BOOLEAN
      BY <1>0, <2>3, <2>5
    <3> QED  BY <2>3, <3>1, <3>2, <3>3 DEF Servico!Atende
  <2> QED  BY <2>6 DEF Servico!Next
<1>3. CASE Responde
  <2> DEFINE r == Head(pendentes)
             m == [tipo |-> r.tipo, para |-> r.para, estado |-> Estado(r.para)]
  <2>1. /\ pendentes # << >> /\ ~resFechada /\ Len(filaRes) < QUEUE_CAPACITY
        /\ filaRes' = Append(filaRes, m) /\ pendentes' = Tail(pendentes)
        /\ UNCHANGED <<filaReq, parada, resta, partidaFinalizada>>
    BY <1>0, <1>3 DEF Responde, jogoVars, paradaVars, RESPONSES_FECHADA
  <2>2. r \in [tipo : Tipos, para : Jogadores]
    BY <1>0, <2>1, FilaSemPrimeiro
  <2>3. m \in Mensagens
    BY <1>0, <2>2, EstadoAgora DEF Mensagens
  <2>4. /\ Destinos(Append(filaRes, m)) = Append(Destinos(filaRes), m.para)
        /\ m.para = r.para
    <3>1. m.para = r.para
      OBVIOUS
    <3> HIDE DEF m
    <3> QED  BY <1>0, <2>3, <3>1, NomesComMaisUm
  <2> HIDE DEF m
  <2>5. /\ Destinos(pendentes) # << >> /\ Head(Destinos(pendentes)) = r.para
        /\ Destinos(Tail(pendentes)) = Tail(Destinos(pendentes))
    BY <1>0, <2>1, ListaDeNomes, NomesSemPrimeiro
  <2>6. Len(Destinos(filaRes)) = Len(filaRes)
    BY <1>0, ListaDeNomes
  <2>7. /\ Destinos(filaRes)' = Append(Destinos(filaRes), Head(Destinos(pendentes)))
        /\ Destinos(pendentes)' = Tail(Destinos(pendentes))
    BY <2>1, <2>4, <2>5
  <2>8. UNCHANGED <<Remetentes(filaReq), reqFechada, resFechada, partidaFinalizada, parando, ainda>>
    BY <2>1
  <2>9. Servico!Responde
    BY <2>1, <2>5, <2>6, <2>7, <2>8 DEF Servico!Responde
  <2> QED  BY <2>9 DEF Servico!Next
<1>4. CASE RespostaRecusada
  <2>1. /\ pendentes # << >> /\ resFechada /\ pendentes' = << >>
        /\ UNCHANGED <<filaReq, filaRes, parada, resta, partidaFinalizada>>
    BY <1>0, <1>4 DEF RespostaRecusada, jogoVars, paradaVars
  <2>2. Destinos(pendentes) # << >> /\ Destinos(<< >>) = << >>
    <3>1. << >> \in Seq(Jogadores)
      BY EmptySeq
    <3> QED  BY <1>0, <2>1, <3>1, ListaDeNomes
  <2>3. Servico!Desiste
    BY <2>1, <2>2 DEF Servico!Desiste
  <2> QED  BY <2>3 DEF Servico!Next
<1>5. CASE Writer
  <2>1. /\ filaRes # << >> /\ filaRes' = Tail(filaRes)
        /\ UNCHANGED <<filaReq, pendentes, parada, partidaFinalizada>>
    BY <1>5 DEF Writer, jogoVars
  <2>2. /\ Destinos(filaRes) # << >>
        /\ Destinos(Tail(filaRes)) = Tail(Destinos(filaRes))
    BY <1>0, <2>1, ListaDeNomes, NomesSemPrimeiro
  <2>3. "writer" \in ainda /\ ainda' = IF parando THEN ainda \ {"writer"} ELSE ainda
    <3>1. resta' = [resta EXCEPT !.writer = FALSE] /\ (parada = 0 \/ resta["writer"])
      BY <1>0, <1>5 DEF Writer
    <3>2. resta'["writer"] = FALSE /\ resta'["worker"] = resta["worker"]
      BY <1>0, <3>1
    <3> QED  BY <1>0, <2>1, <3>1, <3>2
  <2>4. Servico!Toma("writer")
    <3> HIDE DEF ainda
    <3> QED  BY <2>3 DEF Servico!Toma, ainda
  <2>5. UNCHANGED <<Remetentes(filaReq), reqFechada, resFechada, Destinos(pendentes),
                    partidaFinalizada, parando>>
    BY <2>1
  <2>6. Servico!Envia
    BY <2>1, <2>2, <2>4, <2>5 DEF Servico!Envia
  <2> QED  BY <2>6 DEF Servico!Next
<1>6. ASSUME NEW p \in Jogadores, Listener(p)
      PROVE  Servico!Next
  <2> DEFINE s == [Head(entrada[p]) EXCEPT !.jogadorId = p]
  <2>1. /\ ~reqFechada /\ Len(filaReq) < QUEUE_CAPACITY
        /\ filaReq' = Append(filaReq, s)
        /\ UNCHANGED <<filaRes, pendentes, parada, resta, partidaFinalizada>>
    BY <1>0, <1>6 DEF Listener, jogoVars, paradaVars, REQUESTS_FECHADA
  <2>2. s \in Solicitacoes /\ s.jogadorId = p
    <3>1. entrada[p] \in Seq(Solicitacoes) /\ entrada[p] # << >>
      BY <1>6 DEF Listener, Tipada, TiposFilas
    <3>2. Head(entrada[p]) \in Solicitacoes
      BY <3>1, FilaSemPrimeiro
    <3> QED  BY <3>2 DEF Solicitacoes
  <2> HIDE DEF s
  <2>3. /\ Remetentes(Append(filaReq, s)) = Append(Remetentes(filaReq), p)
        /\ Len(Remetentes(filaReq)) = Len(filaReq)
    BY <1>0, <2>2, NomesComMaisUm, ListaDeNomes
  <2>4. UNCHANGED <<reqFechada, Destinos(filaRes), resFechada, Destinos(pendentes),
                    partidaFinalizada, parando, ainda>>
    BY <2>1
  <2>5. Servico!Chega(p)
    BY <2>1, <2>3, <2>4 DEF Servico!Chega
  <2>6. p \in 0 .. MAX_PLAYERS - 1
    BY DoisJogadores DEF MAX_PLAYERS
  <2> QED  BY <2>5, <2>6 DEF Servico!Next
<1>7. CASE LimpaRunning
  <2>1. /\ parada = 0 /\ parada' = 1 /\ (resta'["worker"] => pendentes = << >>)
        /\ UNCHANGED <<filaReq, filaRes, pendentes, partidaFinalizada>>
    BY <1>7 DEF LimpaRunning, jogoVars, filaVars
  <2>2. /\ ainda' \in SUBSET {"worker", "writer"}
        /\ "worker" \in ainda' => Destinos(pendentes) = << >>
    <3>1. "worker" \in ainda' => pendentes = << >>
      BY <2>1
    <3> QED  BY <1>0, <3>1, ListaDeNomes
  <2>3. ~parando /\ parando' /\ UNCHANGED <<reqFechada, resFechada>>
    BY <2>1 DEF REQUESTS_FECHADA, RESPONSES_FECHADA
  <2>4. Servico!Para
    BY <2>1, <2>2, <2>3 DEF Servico!Para
  <2> QED  BY <2>4 DEF Servico!Next
<1>8. CASE FechaFila
  <2>1. /\ parada \in {1, 2} /\ parada' = parada + 1
        /\ UNCHANGED <<filaReq, filaRes, pendentes, partidaFinalizada, resta>>
    BY <1>8 DEF FechaFila, jogoVars, filaVars, REQUESTS_FECHADA
  <2>2. /\ parando /\ parando' /\ UNCHANGED ainda
        /\ \/ reqFechada' /\ UNCHANGED resFechada
           \/ reqFechada /\ resFechada' /\ UNCHANGED reqFechada
    BY <2>1 DEF REQUESTS_FECHADA, RESPONSES_FECHADA
  <2>3. Servico!Fecha
    BY <2>1, <2>2 DEF Servico!Fecha
  <2> QED  BY <2>3 DEF Servico!Next
<1>9. ASSUME NEW p \in Jogadores, CortaJogador(p)
      PROVE  UNCHANGED Servico!atendimentoVars
  <2>1. /\ parada \in {3, 4} /\ parada' = parada + 1
        /\ UNCHANGED <<filaReq, filaRes, pendentes, partidaFinalizada, resta>>
    BY <1>9, DoisJogadores DEF CortaJogador, jogoVars, RESPONSES_FECHADA
  <2> QED  BY <1>p, <2>1 DEF REQUESTS_FECHADA, RESPONSES_FECHADA
<1>10. ASSUME NEW p \in Jogadores, Cliente(p) \/ Pede(p) \/ Sai(p) \/ PushRecusado(p)
       PROVE  [Servico!Next]_(Servico!atendimentoVars)
  <2>1. UNCHANGED <<jogoVars, filaReq, filaRes, pendentes, parada, resta>>
    <3>1. CASE Cliente(p)
      BY <3>1 DEF Cliente, RecebeInicial, Recebe, PerdeConexao, Copia, NaoPede, filaVars,
         paradaVars
    <3>2. CASE Pede(p)
      BY <3>2 DEF Pede, paradaVars
    <3>3. CASE Sai(p)
      BY <3>3 DEF Sai, paradaVars
    <3>4. CASE PushRecusado(p)
      BY <3>4 DEF PushRecusado
    <3> QED  BY <1>10, <3>1, <3>2, <3>3, <3>4
  <2> QED  BY <1>1, <2>1
<1>11. CASE UNCHANGED vars
  BY <1>1, <1>11 DEF vars, filaVars, paradaVars
<1> QED
  BY <1>2, <1>3, <1>4, <1>5, <1>6, <1>7, <1>8, <1>9, <1>10, <1>11
  DEF Next, Servidor, Para

(* What the server does during a match, and while it is stopped in the middle *)
(* of one, is the service of Atendimento, whatever the requests and however   *)
(* many: each request is answered in full, to its sender or to both players,  *)
(* before the next is taken, and a server that stops takes at most one more.  *)
THEOREM ServicoDaPartida == Spec => ImplementaAtendimento
<1>1. Spec => []Tipada
  BY TiposNoInicio, TiposPasso, PTL DEF Spec
<1> QED
  BY <1>1, ServicoNoInicio, ServicoPasso, PTL DEF Spec, ImplementaAtendimento, Servico!Spec
=============================================================================
