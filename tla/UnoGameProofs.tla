---------------------------- MODULE UnoGameProofs ----------------------------
(* Proofs about the rules engine, for every deck, deal and hand size.         *)
EXTENDS UnoGame, FiniteSetTheorems, SequenceTheorems, TLAPS

-----------------------------------------------------------------------------
(* The three ways in which game.c moves a card between two arrays.            *)

\* Taking the top card off the deck (game_comprarCarta, lines 171-173).
LEMMA TirarDoTopo ==
    ASSUME NEW S, NEW s \in Seq(S), s # << >>
    PROVE  LET t == SubSeq(s, 1, Len(s) - 1)
           IN  /\ t \in Seq(S)
               /\ Len(s) > 0
               /\ Len(t) = Len(s) - 1
               /\ s[Len(s)] \in Conteudo(s)
               /\ Conteudo(s) \subseteq S
               /\ SemRepeticao(s) =>
                    SemRepeticao(t) /\ Conteudo(t) = Conteudo(s) \ {s[Len(s)]}
<1> DEFINE t == SubSeq(s, 1, Len(s) - 1)
<1>1. Len(s) \in Nat \ {0} /\ DOMAIN s = 1 .. Len(s) /\ \A i \in 1 .. Len(s) : s[i] \in S
  BY EmptySeq, LenProperties, ElementOfSeq
<1>2. /\ t \in Seq(S)
      /\ Len(t) = Len(s) - 1
      /\ \A i \in 1 .. Len(s) - 1 : t[i] = s[i]
  BY <1>1, SubSeqProperties
<1>3. DOMAIN t = 1 .. Len(s) - 1
  BY <1>2, LenProperties
<1> HIDE DEF t
<1>4. ASSUME SemRepeticao(s)
      PROVE  SemRepeticao(t) /\ Conteudo(t) = Conteudo(s) \ {s[Len(s)]}
  <2>1. SemRepeticao(t)
    BY <1>1, <1>2, <1>3, <1>4 DEF SemRepeticao
  <2>2. Conteudo(t) \subseteq Conteudo(s) \ {s[Len(s)]}
    BY <1>1, <1>2, <1>3, <1>4 DEF SemRepeticao, Conteudo
  <2>3. Conteudo(s) \ {s[Len(s)]} \subseteq Conteudo(t)
    BY <1>1, <1>2, <1>3 DEF Conteudo
  <2> QED  BY <2>1, <2>2, <2>3
<1>5. s[Len(s)] \in Conteudo(s) /\ Conteudo(s) \subseteq S
  BY <1>1 DEF Conteudo
<1> QED  BY <1>1, <1>2, <1>4, <1>5 DEF t

\* Putting a card at the end of a hand (game_comprarCarta, lines 175-177).
LEMMA PorNoFim ==
    ASSUME NEW S, NEW s \in Seq(S), NEW e \in S
    PROVE  LET t == Append(s, e)
           IN  /\ t \in Seq(S)
               /\ t # << >>
               /\ Len(t) = Len(s) + 1
               /\ Conteudo(t) = Conteudo(s) \cup {e}
               /\ SemRepeticao(s) /\ e \notin Conteudo(s) => SemRepeticao(t)
<1> DEFINE t == Append(s, e)
<1>1. Len(s) \in Nat /\ DOMAIN s = 1 .. Len(s)
  BY LenProperties
<1>2. /\ t \in Seq(S)
      /\ t # << >>
      /\ Len(t) = Len(s) + 1
      /\ \A i \in 1 .. Len(s) : t[i] = s[i]
      /\ t[Len(s) + 1] = e
  BY AppendProperties
<1>3. DOMAIN t = 1 .. Len(s) + 1
  BY <1>2, LenProperties
<1> HIDE DEF t
<1>4. Conteudo(t) = Conteudo(s) \cup {e}
  <2>1. Conteudo(t) \subseteq Conteudo(s) \cup {e}
    BY <1>1, <1>2, <1>3 DEF Conteudo
  <2>2. Conteudo(s) \cup {e} \subseteq Conteudo(t)
    BY <1>1, <1>2, <1>3 DEF Conteudo
  <2> QED  BY <2>1, <2>2
<1>5. ASSUME SemRepeticao(s), e \notin Conteudo(s)
      PROVE  SemRepeticao(t)
  BY <1>1, <1>2, <1>3, <1>5 DEF SemRepeticao, Conteudo
<1> QED  BY <1>2, <1>4, <1>5 DEF t

\* The shift that closes the gap of a played card (game_jogarCarta, 278-282).
LEMMA FecharLacuna ==
    ASSUME NEW S, NEW s \in Seq(S), NEW i \in DOMAIN s
    PROVE  LET t == SemIndice(s, i)
           IN  /\ t \in Seq(S)
               /\ Len(s) > 0
               /\ Len(t) = Len(s) - 1
               /\ SemRepeticao(s) =>
                    SemRepeticao(t) /\ Conteudo(t) = Conteudo(s) \ {s[i]}
<1> DEFINE t == SemIndice(s, i)
<1>1. /\ Len(s) \in Nat \ {0}
      /\ i \in 1 .. Len(s)
      /\ DOMAIN s = 1 .. Len(s)
      /\ \A k \in 1 .. Len(s) : s[k] \in S
  BY LenProperties, ElementOfSeq
<1>2. /\ DOMAIN t = 1 .. Len(s) - 1
      /\ \A k \in 1 .. Len(s) - 1 : t[k] = IF k < i THEN s[k] ELSE s[k + 1]
      /\ t \in [1 .. Len(s) - 1 -> S]
  BY <1>1 DEF SemIndice
<1>3. t \in Seq(S) /\ Len(t) = Len(s) - 1
  <2>1. Len(s) - 1 \in Nat
    BY <1>1
  <2>2. t \in Seq(S)
    BY <1>2, <2>1, SeqDef
  <2>3. Len(t) \in Nat /\ DOMAIN t = 1 .. Len(t)
    BY <2>2, LenProperties
  <2>4. 1 .. Len(t) = 1 .. Len(s) - 1
    BY <1>2, <2>3
  <2>5. Len(t) = Len(s) - 1
    BY <2>1, <2>3, <2>4
  <2> QED  BY <2>2, <2>5
<1> HIDE DEF t
<1>4. ASSUME SemRepeticao(s)
      PROVE  SemRepeticao(t) /\ Conteudo(t) = Conteudo(s) \ {s[i]}
  <2>1. SemRepeticao(t)
    <3> SUFFICES ASSUME NEW j \in 1 .. Len(s) - 1, NEW k \in 1 .. Len(s) - 1, t[j] = t[k]
                 PROVE  j = k
      BY <1>2 DEF SemRepeticao
    <3> DEFINE de(x) == IF x < i THEN x ELSE x + 1
    <3>1. /\ de(j) \in DOMAIN s /\ t[j] = s[de(j)]
          /\ de(k) \in DOMAIN s /\ t[k] = s[de(k)]
      BY <1>1, <1>2
    <3>2. de(j) = de(k)
      BY <1>4, <3>1 DEF SemRepeticao
    <3> QED  BY <1>1, <3>2
  <2>2. Conteudo(t) \subseteq Conteudo(s) \ {s[i]}
    BY <1>1, <1>2, <1>4 DEF SemRepeticao, Conteudo
  <2>3. ASSUME NEW c \in Conteudo(s) \ {s[i]}
        PROVE  c \in Conteudo(t)
    <3>1. PICK k \in 1 .. Len(s) : s[k] = c /\ k # i
      BY <1>1, <2>3 DEF Conteudo
    <3>2. CASE k < i
      <4>1. k \in DOMAIN t /\ t[k] = c
        BY <1>1, <1>2, <3>1, <3>2
      <4> QED  BY <4>1 DEF Conteudo
    <3>3. CASE k > i
      <4>1. k - 1 \in 1 .. Len(s) - 1 /\ t[k - 1] = s[k]
        BY <1>1, <1>2, <3>1, <3>3
      <4> QED  BY <1>2, <3>1, <4>1 DEF Conteudo
    <3> QED  BY <1>1, <3>1, <3>2, <3>3
  <2> QED  BY <2>1, <2>2, <2>3
<1> QED  BY <1>1, <1>3, <1>4 DEF t

-----------------------------------------------------------------------------
(* The deal.                                                                  *)

LEMMA Tamanhos ==
    /\ NumCartas \in Nat
    /\ Restantes \in Nat \ {0}
    /\ Restantes = NumCartas - 2 * CARTAS_INICIAIS
    /\ CARTAS_INICIAIS \in Nat \ {0}
    /\ MAX_QTD_CARTAS_JOGADOR \in Nat
    /\ CARTAS_INICIAIS <= MAX_QTD_CARTAS_JOGADOR
    /\ Jogadores = {0, 1}
<1>1. NumCartas \in Nat
  BY BaralhoAssumption DEF NumCartas
<1> QED
  BY <1>1, DistribuicaoAssumption DEF Restantes, MAX_PLAYERS, Jogadores

LEMMA EmbaralhamentoSemRepeticao ==
    ASSUME NEW b \in Embaralhamentos
    PROVE  /\ b \in [1 .. NumCartas -> Cartas]
           /\ \A i, j \in 1 .. NumCartas : b[i] = b[j] => i = j
BY DEF Embaralhamentos, Injection, IsInjective

(* The cards a player is dealt are those at the indices Restantes + 1 .. of   *)
(* the shuffled deck, with one parity for each player.                        *)
LEMMA FatosDaDistribuicao ==
    ASSUME NEW b \in [1 .. NumCartas -> Cartas], NEW p \in Jogadores
    PROVE  LET m == Distribuicao(b)[p]
           IN  /\ m \in Seq(Cartas)
               /\ Len(m) = CARTAS_INICIAIS
               /\ \A r \in 1 .. CARTAS_INICIAIS :
                    /\ NumCartas - 2 * (r - 1) - p \in Restantes + 1 .. NumCartas
                    /\ m[r] = b[NumCartas - 2 * (r - 1) - p]
<1> DEFINE m == Distribuicao(b)[p]
<1>1. m = [r \in 1 .. CARTAS_INICIAIS |-> b[NumCartas - 2 * (r - 1) - p]]
  BY DEF Distribuicao, MAX_PLAYERS
<1>2. \A r \in 1 .. CARTAS_INICIAIS :
        NumCartas - 2 * (r - 1) - p \in Restantes + 1 .. NumCartas
  BY Tamanhos
<1>3. m \in [1 .. CARTAS_INICIAIS -> Cartas]
  BY <1>1, <1>2, Tamanhos
<1>4. m \in Seq(Cartas)
  BY <1>3, SeqDef, Tamanhos
<1>5. Len(m) = CARTAS_INICIAIS
  BY <1>3, <1>4, LenProperties, Tamanhos
<1> QED  BY <1>1, <1>2, <1>4, <1>5

-----------------------------------------------------------------------------
(* What one accepted request does to the arrays, in terms of sets of cards.   *)

LEMMA FatosDeComprar ==
    ASSUME TypeOK, NEW p \in Jogadores, ComprarCarta(p)
    PROVE  LET c == baralho[Len(baralho)]
           IN  /\ c \in Conteudo(baralho) /\ c \in Cartas
               /\ baralho' \in Seq(Cartas)
               /\ maos' = [maos EXCEPT ![p] = Append(maos[p], c)]
               /\ maos'[p] \in Seq(Cartas)
               /\ maos'[p] # << >>
               /\ Len(maos[p]) \in Nat /\ Len(baralho) \in Nat \ {0}
               /\ Len(maos'[p]) = Len(maos[p]) + 1
               /\ Len(baralho') = Len(baralho) - 1
               /\ Conteudo(maos'[p]) = Conteudo(maos[p]) \cup {c}
               /\ CartasUnicas =>
                    /\ SemRepeticao(maos'[p]) /\ SemRepeticao(baralho')
                    /\ Conteudo(baralho') = Conteudo(baralho) \ {c}
<1> DEFINE c == baralho[Len(baralho)]
<1>1. /\ baralho \in Seq(Cartas) /\ baralho # << >>
      /\ baralho' = SubSeq(baralho, 1, Len(baralho) - 1)
      /\ maos \in [Jogadores -> Seq(Cartas)]
      /\ maos[p] \in Seq(Cartas)
      /\ maos' = [maos EXCEPT ![p] = Append(maos[p], c)]
  BY DEF TypeOK, ComprarCarta, PodeComprar
<1>2. c \in Conteudo(baralho) /\ c \in Cartas
  BY <1>1, TirarDoTopo
<1>3. maos'[p] = Append(maos[p], c)
  BY <1>1
<1>4. /\ maos'[p] \in Seq(Cartas) /\ maos'[p] # << >>
      /\ Len(maos'[p]) = Len(maos[p]) + 1
      /\ Conteudo(maos'[p]) = Conteudo(maos[p]) \cup {c}
      /\ SemRepeticao(maos[p]) /\ c \notin Conteudo(maos[p]) => SemRepeticao(maos'[p])
  BY <1>1, <1>2, <1>3, PorNoFim
<1>5. /\ baralho' \in Seq(Cartas)
      /\ Len(baralho') = Len(baralho) - 1
      /\ SemRepeticao(baralho) =>
            SemRepeticao(baralho') /\ Conteudo(baralho') = Conteudo(baralho) \ {c}
  BY <1>1, TirarDoTopo
<1>6. Len(maos[p]) \in Nat /\ Len(baralho) \in Nat \ {0}
  BY <1>1, LenProperties, EmptySeq
<1>7. CartasUnicas =>
        SemRepeticao(baralho) /\ SemRepeticao(maos[p]) /\ c \notin Conteudo(maos[p])
  BY <1>2 DEF CartasUnicas
<1> QED  BY <1>1, <1>2, <1>4, <1>5, <1>6, <1>7

LEMMA FatosDeJogar ==
    ASSUME TypeOK, NEW p \in Jogadores, NEW c \in Cartas, JogarCarta(p, c)
    PROVE  /\ p = jogadorDaVez
           /\ c \in Conteudo(maos[p])
           /\ ultimaCarta' = c
           /\ \E m \in Seq(Cartas) : maos' = [maos EXCEPT ![p] = m]
           /\ maos'[p] \in Seq(Cartas)
           /\ Len(maos[p]) \in Nat \ {0}
           /\ Len(maos'[p]) = Len(maos[p]) - 1
           /\ SemRepeticao(maos[p]) =>
                /\ SemRepeticao(maos'[p])
                /\ Conteudo(maos'[p]) = Conteudo(maos[p]) \ {c}
<1>1. PICK i \in DOMAIN maos[p] :
        maos[p][i] = c /\ maos' = [maos EXCEPT ![p] = SemIndice(maos[p], i)]
  BY DEF JogarCarta
<1>2. maos \in [Jogadores -> Seq(Cartas)] /\ maos[p] \in Seq(Cartas)
  BY DEF TypeOK
<1>3. maos'[p] = SemIndice(maos[p], i)
  BY <1>1, <1>2
<1>4. /\ maos'[p] \in Seq(Cartas)
      /\ Len(maos[p]) > 0
      /\ Len(maos'[p]) = Len(maos[p]) - 1
      /\ SemRepeticao(maos[p]) =>
            SemRepeticao(maos'[p]) /\ Conteudo(maos'[p]) = Conteudo(maos[p]) \ {c}
  BY <1>1, <1>2, <1>3, FecharLacuna
<1>5. Len(maos[p]) \in Nat
  BY <1>2, LenProperties
<1>6. p = jogadorDaVez /\ ultimaCarta' = c /\ c \in Conteudo(maos[p])
  BY <1>1 DEF JogarCarta, PodeJogarCarta, Conteudo
<1>7. maos' = [maos EXCEPT ![p] = maos'[p]]
  BY <1>1, <1>3
<1> QED  BY <1>4, <1>5, <1>6, <1>7

-----------------------------------------------------------------------------
(* The invariants.  TypeOK is inductive by itself and the others are          *)
(* inductive on top of it; each theorem uses the ones before it.              *)

LEMMA FatosDaVez ==
    ASSUME jogadorDaVez \in Jogadores, numeroRodada \in Nat \ {0},
           partidaFinalizada = FALSE, ProximoJogador
    PROVE  /\ jogadorDaVez' \in Jogadores
           /\ numeroRodada' \in Nat \ {0}
           /\ jogadorDaVez' = 1 - jogadorDaVez
           /\ 2 * (numeroRodada' - 1) + jogadorDaVez'
                = 2 * (numeroRodada - 1) + jogadorDaVez + 1
BY DEF ProximoJogador, Jogadores, MAX_PLAYERS

LEMMA TiposInicio == Init => TypeOK
<1> SUFFICES ASSUME Init PROVE TypeOK
  OBVIOUS
<1>1. PICK b \in [1 .. NumCartas -> Cartas] :
        /\ maos = Distribuicao(b)
        /\ ultimaCarta = b[Restantes]
        /\ baralho = [i \in 1 .. Restantes - 1 |-> b[i]]
  BY EmbaralhamentoSemRepeticao DEF Init
<1>2. /\ DOMAIN maos = Jogadores
      /\ maos = [p \in Jogadores |-> maos[p]]
      /\ \A p \in Jogadores :
           maos[p] \in Seq(Cartas) /\ Len(maos[p]) <= MAX_QTD_CARTAS_JOGADOR
  <2>1. \A p \in Jogadores :
           maos[p] \in Seq(Cartas) /\ Len(maos[p]) <= MAX_QTD_CARTAS_JOGADOR
    BY <1>1, FatosDaDistribuicao, Tamanhos
  <2>2. DOMAIN maos = Jogadores /\ maos = [p \in Jogadores |-> maos[p]]
    BY <1>1 DEF Distribuicao
  <2> QED  BY <2>1, <2>2
<1>3. baralho \in Seq(Cartas)
  <2>1. Restantes - 1 \in Nat /\ baralho \in [1 .. Restantes - 1 -> Cartas]
    BY <1>1, Tamanhos
  <2> QED  BY <2>1, SeqDef
<1>4. ultimaCarta \in Cartas
  BY <1>1, Tamanhos
<1>5. maos \in [Jogadores -> Seq(Cartas)]
  BY <1>2
<1>6. jogadorDaVez \in Jogadores /\ numeroRodada \in Nat \ {0}
  BY Tamanhos DEF Init
<1>7. partidaFinalizada \in BOOLEAN
  BY DEF Init
<1> QED  BY <1>2, <1>3, <1>4, <1>5, <1>6, <1>7 DEF TypeOK, QtdCartas

LEMMA TiposPasso == TypeOK /\ [Next]_jogoVars => TypeOK'
<1> SUFFICES ASSUME TypeOK, [Next]_jogoVars PROVE TypeOK'
  OBVIOUS
<1>1. ASSUME NEW p \in Jogadores, ComprarCarta(p) PROVE TypeOK'
  <2>1. /\ maos \in [Jogadores -> Seq(Cartas)]
        /\ maos' = [maos EXCEPT ![p] = maos'[p]]
        /\ maos'[p] \in Seq(Cartas)
        /\ baralho' \in Seq(Cartas)
        /\ Len(maos[p]) \in Nat
        /\ Len(maos'[p]) = Len(maos[p]) + 1
    BY <1>1, FatosDeComprar DEF TypeOK
  <2>2. \A q \in Jogadores : Len(maos'[q]) <= MAX_QTD_CARTAS_JOGADOR
    BY <1>1, <2>1, Tamanhos DEF TypeOK, ComprarCarta, PodeComprar, QtdCartas
  <2>3. jogadorDaVez' \in Jogadores /\ numeroRodada' \in Nat \ {0}
    BY <1>1, FatosDaVez DEF TypeOK, ComprarCarta
  <2> QED  BY <1>1, <2>1, <2>2, <2>3 DEF TypeOK, ComprarCarta, QtdCartas
<1>2. ASSUME NEW p \in Jogadores, NEW c \in Cartas, JogarCarta(p, c) PROVE TypeOK'
  <2>1. /\ maos \in [Jogadores -> Seq(Cartas)]
        /\ \E m \in Seq(Cartas) : maos' = [maos EXCEPT ![p] = m]
        /\ maos'[p] \in Seq(Cartas)
        /\ Len(maos[p]) \in Nat
        /\ Len(maos'[p]) = Len(maos[p]) - 1
    BY <1>2, FatosDeJogar DEF TypeOK
  <2>2. \A q \in Jogadores : Len(maos'[q]) <= MAX_QTD_CARTAS_JOGADOR
    BY <2>1, Tamanhos DEF TypeOK, QtdCartas
  <2>3. CASE Len(maos'[p]) = 0
    BY <1>2, <2>1, <2>2, <2>3 DEF TypeOK, JogarCarta, QtdCartas
  <2>4. CASE Len(maos'[p]) # 0
    <3>1. jogadorDaVez' \in Jogadores /\ numeroRodada' \in Nat \ {0}
      BY <1>2, <2>4, FatosDaVez DEF TypeOK, JogarCarta
    <3> QED  BY <1>2, <2>1, <2>2, <2>4, <3>1 DEF TypeOK, JogarCarta, QtdCartas
  <2> QED  BY <2>3, <2>4
<1>3. CASE UNCHANGED jogoVars
  BY <1>3 DEF TypeOK, jogoVars, QtdCartas
<1> QED  BY <1>1, <1>2, <1>3 DEF Next

(* The state stays well formed: in particular a hand never outgrows the array *)
(* that holds it, whatever the clients ask for and in whatever order.         *)
THEOREM TiposCorretos == Spec => []TypeOK
  BY TiposInicio, TiposPasso, PTL DEF Spec

LEMMA CustodiaInicio == Init => CartasUnicas
<1> SUFFICES ASSUME Init PROVE CartasUnicas
  OBVIOUS
<1>1. PICK b \in [1 .. NumCartas -> Cartas] :
        /\ \A i, j \in 1 .. NumCartas : b[i] = b[j] => i = j
        /\ maos = Distribuicao(b)
        /\ ultimaCarta = b[Restantes]
        /\ baralho = [i \in 1 .. Restantes - 1 |-> b[i]]
  BY EmbaralhamentoSemRepeticao DEF Init
<1>2. /\ DOMAIN baralho = 1 .. Restantes - 1
      /\ \A i \in DOMAIN baralho : i \in 1 .. NumCartas /\ baralho[i] = b[i] /\ i < Restantes
  BY <1>1, Tamanhos
<1>3. Restantes \in 1 .. NumCartas
  BY Tamanhos
<1>4. \A p \in Jogadores :
        /\ DOMAIN maos[p] = 1 .. CARTAS_INICIAIS
        /\ \A r \in 1 .. CARTAS_INICIAIS :
             /\ NumCartas - 2 * (r - 1) - p \in Restantes + 1 .. NumCartas
             /\ maos[p][r] = b[NumCartas - 2 * (r - 1) - p]
  <2> SUFFICES ASSUME NEW p \in Jogadores
               PROVE  /\ DOMAIN maos[p] = 1 .. CARTAS_INICIAIS
                      /\ \A r \in 1 .. CARTAS_INICIAIS :
                           /\ NumCartas - 2 * (r - 1) - p \in Restantes + 1 .. NumCartas
                           /\ maos[p][r] = b[NumCartas - 2 * (r - 1) - p]
    OBVIOUS
  <2> DEFINE m == Distribuicao(b)[p]
  <2>0. /\ m \in Seq(Cartas) /\ Len(m) = CARTAS_INICIAIS
        /\ \A r \in 1 .. CARTAS_INICIAIS :
             /\ NumCartas - 2 * (r - 1) - p \in Restantes + 1 .. NumCartas
             /\ m[r] = b[NumCartas - 2 * (r - 1) - p]
    BY FatosDaDistribuicao, Zenon
  <2>m. maos[p] = m
    BY <1>1
  <2> HIDE DEF m
  <2>1. maos[p] \in Seq(Cartas) /\ Len(maos[p]) = CARTAS_INICIAIS
    BY <2>0, <2>m
  <2>2. DOMAIN maos[p] = 1 .. CARTAS_INICIAIS
    BY <2>1, LenProperties
  <2>3. \A r \in 1 .. CARTAS_INICIAIS :
          /\ NumCartas - 2 * (r - 1) - p \in Restantes + 1 .. NumCartas
          /\ maos[p][r] = b[NumCartas - 2 * (r - 1) - p]
    BY <2>0, <2>m, Zenon
  <2> QED  BY <2>2, <2>3, Zenon
<1>5. \A p \in Jogadores : SemRepeticao(maos[p])
  <2> SUFFICES ASSUME NEW p \in Jogadores,
                      NEW i \in 1 .. CARTAS_INICIAIS, NEW j \in 1 .. CARTAS_INICIAIS,
                      maos[p][i] = maos[p][j]
               PROVE  i = j
    BY <1>4 DEF SemRepeticao
  <2>1. /\ NumCartas - 2 * (i - 1) - p \in 1 .. NumCartas
        /\ NumCartas - 2 * (j - 1) - p \in 1 .. NumCartas
    BY <1>4, Tamanhos
  <2>2. NumCartas - 2 * (i - 1) - p = NumCartas - 2 * (j - 1) - p
    BY <1>1, <1>4, <2>1
  <2> QED  BY <2>2, Tamanhos
<1>6. \A p \in Jogadores : Conteudo(maos[p]) \cap Conteudo(baralho) = {}
  <2> SUFFICES ASSUME NEW p \in Jogadores, NEW c \in Conteudo(maos[p]), c \in Conteudo(baralho)
               PROVE  FALSE
    OBVIOUS
  <2>0. /\ \E r \in DOMAIN maos[p] : maos[p][r] = c
        /\ \E i \in DOMAIN baralho : baralho[i] = c
    BY DEF Conteudo
  <2>r. PICK r \in 1 .. CARTAS_INICIAIS : maos[p][r] = c
    BY <1>4, <2>0
  <2>i. PICK i \in DOMAIN baralho : baralho[i] = c
    BY <2>0
  <2>1. PICK k \in Restantes + 1 .. NumCartas : maos[p][r] = b[k]
    BY <1>4
  <2>2. i \in 1 .. NumCartas /\ i < Restantes /\ baralho[i] = b[i]
    BY <1>2
  <2>3. k \in 1 .. NumCartas /\ k # i
    BY <1>3, <2>1, <2>2, Tamanhos
  <2> QED  BY <1>1, <2>r, <2>i, <2>1, <2>2, <2>3
<1>7. \A p \in Jogadores : ultimaCarta \notin Conteudo(maos[p])
  <2> SUFFICES ASSUME NEW p \in Jogadores, ultimaCarta \in Conteudo(maos[p])
               PROVE  FALSE
    OBVIOUS
  <2>0. \E r \in DOMAIN maos[p] : maos[p][r] = ultimaCarta
    BY DEF Conteudo
  <2>r. PICK r \in 1 .. CARTAS_INICIAIS : maos[p][r] = ultimaCarta
    BY <1>4, <2>0
  <2>1. PICK k \in Restantes + 1 .. NumCartas : maos[p][r] = b[k]
    BY <1>4
  <2>2. k \in 1 .. NumCartas /\ k # Restantes
    BY <1>3, <2>1, Tamanhos
  <2> QED  BY <1>1, <1>3, <2>r, <2>1, <2>2
<1>8. \A p \in Jogadores : \A q \in Jogadores \ {p} :
        Conteudo(maos[p]) \cap Conteudo(maos[q]) = {}
  <2> SUFFICES ASSUME NEW p \in Jogadores, NEW q \in Jogadores \ {p}, NEW c,
                      c \in Conteudo(maos[p]), c \in Conteudo(maos[q])
               PROVE  FALSE
    OBVIOUS
  <2>1. PICK i \in 1 .. CARTAS_INICIAIS, j \in 1 .. CARTAS_INICIAIS :
          maos[p][i] = maos[q][j]
    <3>1. PICK i \in DOMAIN maos[p] : maos[p][i] = c
      BY DEF Conteudo
    <3>2. PICK j \in DOMAIN maos[q] : maos[q][j] = c
      BY DEF Conteudo
    <3> QED  BY <1>4, <3>1, <3>2
  <2>2. /\ NumCartas - 2 * (i - 1) - p \in 1 .. NumCartas
        /\ NumCartas - 2 * (j - 1) - q \in 1 .. NumCartas
    BY <1>4, Tamanhos
  <2>3. NumCartas - 2 * (i - 1) - p = NumCartas - 2 * (j - 1) - q
    BY <1>1, <1>4, <2>1, <2>2
  <2> QED  BY <2>3, Tamanhos
<1>9. ultimaCarta \notin Conteudo(baralho) /\ SemRepeticao(baralho)
  BY <1>1, <1>2, <1>3 DEF Conteudo, SemRepeticao
<1> QED  BY <1>5, <1>6, <1>7, <1>8, <1>9 DEF CartasUnicas

LEMMA CustodiaPasso == TypeOK /\ CartasUnicas /\ [Next]_jogoVars => CartasUnicas'
<1> SUFFICES ASSUME TypeOK, CartasUnicas, [Next]_jogoVars PROVE CartasUnicas'
  OBVIOUS
<1>1. ASSUME NEW p \in Jogadores, ComprarCarta(p) PROVE CartasUnicas'
  <2> DEFINE c == baralho[Len(baralho)]
  <2>1. /\ c \in Conteudo(baralho)
        /\ \A q \in Jogadores \ {p} : maos'[q] = maos[q]
        /\ Conteudo(maos'[p]) = Conteudo(maos[p]) \cup {c}
        /\ SemRepeticao(maos'[p]) /\ SemRepeticao(baralho')
        /\ Conteudo(baralho') = Conteudo(baralho) \ {c}
        /\ ultimaCarta' = ultimaCarta
    BY <1>1, FatosDeComprar DEF TypeOK, ComprarCarta
  <2> HIDE DEF c
  <2> QED  BY <2>1 DEF CartasUnicas
<1>2. ASSUME NEW p \in Jogadores, NEW c \in Cartas, JogarCarta(p, c) PROVE CartasUnicas'
  <2>1. /\ c \in Conteudo(maos[p])
        /\ \A q \in Jogadores \ {p} : maos'[q] = maos[q]
        /\ SemRepeticao(maos'[p])
        /\ Conteudo(maos'[p]) = Conteudo(maos[p]) \ {c}
        /\ ultimaCarta' = c
        /\ baralho' = baralho
    BY <1>2, FatosDeJogar DEF TypeOK, JogarCarta, CartasUnicas
  <2> QED  BY <2>1 DEF CartasUnicas
<1>3. CASE UNCHANGED jogoVars
  BY <1>3 DEF CartasUnicas, jogoVars
<1> QED  BY <1>1, <1>2, <1>3 DEF Next

(* Every card is in at most one place for the whole match.                    *)
THEOREM CustodiaDasCartas == Spec => []CartasUnicas
  BY CustodiaInicio, CustodiaPasso, TiposCorretos, PTL DEF Spec

LEMMA VencedorInicio == Init => VitoriaCoerente
<1> SUFFICES ASSUME Init PROVE VitoriaCoerente
  OBVIOUS
<1>1. PICK b \in [1 .. NumCartas -> Cartas] : maos = Distribuicao(b)
  BY EmbaralhamentoSemRepeticao DEF Init
<1>2. \A p \in Jogadores : maos[p] # << >>
  BY <1>1, FatosDaDistribuicao, Tamanhos, EmptySeq
<1> QED  BY <1>2 DEF Init, VitoriaCoerente

LEMMA VencedorPasso == TypeOK /\ VitoriaCoerente /\ [Next]_jogoVars => VitoriaCoerente'
<1> SUFFICES ASSUME TypeOK, VitoriaCoerente, [Next]_jogoVars PROVE VitoriaCoerente'
  OBVIOUS
<1>1. ASSUME NEW p \in Jogadores, ComprarCarta(p) PROVE VitoriaCoerente'
  <2>1. maos'[p] # << >> /\ \A q \in Jogadores \ {p} : maos'[q] = maos[q]
    BY <1>1, FatosDeComprar DEF TypeOK
  <2>2. ~partidaFinalizada /\ ~partidaFinalizada'
    BY <1>1 DEF ComprarCarta
  <2> QED  BY <2>1, <2>2 DEF VitoriaCoerente
<1>2. ASSUME NEW p \in Jogadores, NEW c \in Cartas, JogarCarta(p, c)
      PROVE  VitoriaCoerente'
  <2>1. /\ p = jogadorDaVez
        /\ \A q \in Jogadores \ {p} : maos'[q] = maos[q] /\ maos[q] # << >>
        /\ maos'[p] = << >> <=> Len(maos'[p]) = 0
    <3>1. /\ p = jogadorDaVez
          /\ \A q \in Jogadores \ {p} : maos'[q] = maos[q]
          /\ maos'[p] \in Seq(Cartas)
      BY <1>2, FatosDeJogar DEF TypeOK
    <3>2. ~partidaFinalizada
      BY <1>2 DEF JogarCarta
    <3>3. maos'[p] = << >> <=> Len(maos'[p]) = 0
      BY <3>1, EmptySeq
    <3> QED  BY <3>1, <3>2, <3>3 DEF VitoriaCoerente
  <2>2. CASE Len(maos'[p]) = 0
    BY <1>2, <2>1, <2>2 DEF JogarCarta, VitoriaCoerente, QtdCartas
  <2>3. CASE Len(maos'[p]) # 0
    BY <1>2, <2>1, <2>3 DEF JogarCarta, VitoriaCoerente, QtdCartas
  <2> QED  BY <2>2, <2>3
<1>3. CASE UNCHANGED jogoVars
  BY <1>3 DEF VitoriaCoerente, jogoVars
<1> QED  BY <1>1, <1>2, <1>3 DEF Next

(* The match is over exactly when the player on turn has no card, and the     *)
(* other one always has some: there is one winner, the one the views name.    *)
THEOREM UmVencedor == Spec => []VitoriaCoerente
  BY VencedorInicio, VencedorPasso, TiposCorretos, PTL DEF Spec

(* An accepted request is counted once, the last one of a match included.     *)
LEMMA JogadaConta ==
    ASSUME TypeOK, NEW p \in Jogadores,
           ComprarCarta(p) \/ \E c \in Cartas : JogarCarta(p, c)
    PROVE  ~partidaFinalizada /\ Jogadas' = Jogadas + 1
<1>0. /\ jogadorDaVez \in Jogadores /\ numeroRodada \in Nat \ {0}
      /\ jogadorDaVez \in Int /\ numeroRodada \in Int
  BY Tamanhos DEF TypeOK
<1>1. ~partidaFinalizada /\ partidaFinalizada = FALSE
  BY DEF ComprarCarta, JogarCarta, TypeOK
<1>2. CASE partidaFinalizada' = FALSE /\ ProximoJogador
  <2>1. /\ jogadorDaVez' \in Jogadores /\ numeroRodada' \in Nat \ {0}
        /\ 2 * (numeroRodada' - 1) + jogadorDaVez'
             = 2 * (numeroRodada - 1) + jogadorDaVez + 1
    BY <1>0, <1>1, <1>2, FatosDaVez
  <2>2. jogadorDaVez \in Int /\ numeroRodada \in Int
    BY <1>0
  <2>3. /\ Jogadas' = 2 * (numeroRodada' - 1) + jogadorDaVez' + 0
        /\ Jogadas = 2 * (numeroRodada - 1) + jogadorDaVez + 0
    BY <1>1, <1>2 DEF Jogadas, MAX_PLAYERS
  <2>4. Jogadas \in Int
    BY <2>2, <2>3
  <2>5. Jogadas' = Jogadas + 1
    BY <2>1, <2>2, <2>3, <2>4
  <2> QED  BY <1>1, <2>5
<1>3. CASE /\ partidaFinalizada' = TRUE
           /\ UNCHANGED <<jogadorDaVez, numeroRodada>>
  <2>1. jogadorDaVez \in Int /\ numeroRodada \in Int
    BY <1>0
  <2>2. /\ Jogadas' = 2 * (numeroRodada - 1) + jogadorDaVez + 1
        /\ Jogadas = 2 * (numeroRodada - 1) + jogadorDaVez + 0
    BY <1>1, <1>3 DEF Jogadas, MAX_PLAYERS
  <2>3. Jogadas \in Int
    BY <2>1, <2>2
  <2>4. Jogadas' = Jogadas + 1
    BY <2>1, <2>2, <2>3
  <2> QED  BY <1>1, <2>4
<1>4. CASE ComprarCarta(p)
  BY <1>1, <1>2, <1>4 DEF ComprarCarta
<1>5. ASSUME NEW c \in Cartas, JogarCarta(p, c)
      PROVE  ~partidaFinalizada /\ Jogadas' = Jogadas + 1
  BY <1>1, <1>2, <1>3, <1>5 DEF JogarCarta
<1> QED  BY <1>4, <1>5

(* The turn counters count the accepted requests, and every one of them uses  *)
(* up one unit of the cards: a match has at most MedidaInicial of them.       *)
THEOREM PartidaLimitada == Spec => []ContagemDeJogadas
<1>1. Init => ContagemDeJogadas
  <2> SUFFICES ASSUME Init PROVE ContagemDeJogadas
    OBVIOUS
  <2>1. PICK b \in [1 .. NumCartas -> Cartas] :
          maos = Distribuicao(b) /\ baralho = [i \in 1 .. Restantes - 1 |-> b[i]]
    BY EmbaralhamentoSemRepeticao DEF Init
  <2>2. QtdCartas(0) = CARTAS_INICIAIS /\ QtdCartas(1) = CARTAS_INICIAIS
    BY <2>1, FatosDaDistribuicao, Tamanhos DEF QtdCartas
  <2>3. Len(baralho) = Restantes - 1
    <3>1. Restantes - 1 \in Nat /\ baralho \in [1 .. Restantes - 1 -> Cartas]
      BY <2>1, Tamanhos
    <3> QED  BY <3>1, SeqDef, LenProperties
  <2> QED
    BY <2>2, <2>3, Tamanhos
    DEF Init, ContagemDeJogadas, Jogadas, Medida, MedidaInicial, MAX_PLAYERS
<1>2. TypeOK /\ ContagemDeJogadas /\ [Next]_jogoVars => ContagemDeJogadas'
  <2> SUFFICES ASSUME TypeOK, ContagemDeJogadas, [Next]_jogoVars PROVE ContagemDeJogadas'
    OBVIOUS
  <2>0. /\ Jogadores = {0, 1}
        /\ QtdCartas(0) \in Nat /\ QtdCartas(1) \in Nat /\ Len(baralho) \in Nat
        /\ jogadorDaVez \in Int /\ numeroRodada \in Int
        /\ Jogadas \in Int /\ Medida \in Int /\ MedidaInicial \in Int
    <3>1. QtdCartas(0) \in Nat /\ QtdCartas(1) \in Nat /\ Len(baralho) \in Nat
      BY Tamanhos, LenProperties DEF TypeOK, QtdCartas
    <3>2. jogadorDaVez \in Int /\ numeroRodada \in Int
      BY Tamanhos DEF TypeOK
    <3> QED
      BY <3>1, <3>2, Tamanhos DEF Jogadas, Medida, MedidaInicial, MAX_PLAYERS
  <2>1. ASSUME NEW p \in Jogadores, ComprarCarta(p) PROVE ContagemDeJogadas'
    <3>1. /\ maos \in [Jogadores -> Seq(Cartas)]
          /\ maos' = [maos EXCEPT ![p] = maos'[p]]
          /\ QtdCartas(p)' = QtdCartas(p) + 1
          /\ Len(baralho') = Len(baralho) - 1
      BY <2>1, FatosDeComprar DEF TypeOK, QtdCartas
    <3>2. /\ QtdCartas(0)' \in Int /\ QtdCartas(1)' \in Int
          /\ QtdCartas(0)' + QtdCartas(1)' = QtdCartas(0) + QtdCartas(1) + 1
      <4>1. \A q \in Jogadores \ {p} : QtdCartas(q)' = QtdCartas(q)
        BY <3>1 DEF QtdCartas
      <4>2. QtdCartas(p)' = QtdCartas(p) + 1
        BY <3>1
      <4>3. p = 0 \/ p = 1
        BY <2>0
      <4>4. CASE p = 0
        <5>1. QtdCartas(1)' = QtdCartas(1)
          BY <2>0, <4>1, <4>4
        <5> QED  BY <2>0, <4>2, <4>4, <5>1
      <4>5. CASE p = 1
        <5>1. QtdCartas(0)' = QtdCartas(0)
          BY <2>0, <4>1, <4>5
        <5> QED  BY <2>0, <4>2, <4>5, <5>1
      <4> QED  BY <4>3, <4>4, <4>5
    <3>3. Medida' = Medida - 1
      <4> DEFINE b == Len(baralho)
                 d == Len(baralho')
      <4>1. b \in Nat /\ d = b - 1
        BY <2>0, <3>1
      <4>2. /\ Medida = 2 * b + QtdCartas(0) + QtdCartas(1)
            /\ Medida' = 2 * d + QtdCartas(0)' + QtdCartas(1)'
        BY DEF Medida
      <4>3. /\ QtdCartas(0) \in Int /\ QtdCartas(1) \in Int
            /\ QtdCartas(0)' \in Int /\ QtdCartas(1)' \in Int
            /\ QtdCartas(0)' + QtdCartas(1)' = QtdCartas(0) + QtdCartas(1) + 1
        BY <2>0, <3>2
      <4> HIDE DEF b, d
      <4> QED  BY <4>1, <4>2, <4>3
    <3>4. Jogadas' = Jogadas + 1
      BY <2>1, JogadaConta
    <3> QED  BY <2>0, <3>3, <3>4 DEF ContagemDeJogadas, MedidaInicial
  <2>2. ASSUME NEW p \in Jogadores, NEW c \in Cartas, JogarCarta(p, c)
        PROVE  ContagemDeJogadas'
    <3>1. /\ maos \in [Jogadores -> Seq(Cartas)]
          /\ maos' = [maos EXCEPT ![p] = maos'[p]]
          /\ QtdCartas(p)' = QtdCartas(p) - 1
          /\ baralho' = baralho
      BY <2>2, FatosDeJogar DEF TypeOK, JogarCarta, QtdCartas
    <3>2. /\ QtdCartas(0)' \in Int /\ QtdCartas(1)' \in Int
          /\ QtdCartas(0)' + QtdCartas(1)' = QtdCartas(0) + QtdCartas(1) - 1
      <4>1. \A q \in Jogadores \ {p} : QtdCartas(q)' = QtdCartas(q)
        BY <3>1 DEF QtdCartas
      <4>2. QtdCartas(p)' = QtdCartas(p) - 1
        BY <3>1
      <4>3. p = 0 \/ p = 1
        BY <2>0
      <4>4. CASE p = 0
        <5>1. QtdCartas(1)' = QtdCartas(1)
          BY <2>0, <4>1, <4>4
        <5> QED  BY <2>0, <4>2, <4>4, <5>1
      <4>5. CASE p = 1
        <5>1. QtdCartas(0)' = QtdCartas(0)
          BY <2>0, <4>1, <4>5
        <5> QED  BY <2>0, <4>2, <4>5, <5>1
      <4> QED  BY <4>3, <4>4, <4>5
    <3>3. Medida' = Medida - 1
      <4>1. Len(baralho') = Len(baralho)
        BY <3>1
      <4>2. PICK l \in Nat : l = Len(baralho) /\ l = Len(baralho')
        BY <2>0, <4>1
      <4>3. PICK x \in Int, y \in Int : x = QtdCartas(0) + QtdCartas(1) /\ y = x - 1
        BY <2>0
      <4>4. Medida = 2 * l + x
        BY <2>0, <4>2, <4>3 DEF Medida
      <4>5. Medida' = 2 * l + y
        <5>1. QtdCartas(0)' + QtdCartas(1)' = y
          BY <2>0, <3>2, <4>3
        <5>2. Medida' = 2 * l + QtdCartas(0)' + QtdCartas(1)'
          BY <4>2 DEF Medida
        <5> QED  BY <3>2, <5>1, <5>2
      <4> QED  BY <4>3, <4>4, <4>5
    <3>4. Jogadas' = Jogadas + 1
      BY <2>2, JogadaConta
    <3> QED  BY <2>0, <3>3, <3>4 DEF ContagemDeJogadas, MedidaInicial
  <2>3. CASE UNCHANGED jogoVars
    BY <2>3 DEF ContagemDeJogadas, Jogadas, Medida, jogoVars, QtdCartas
  <2> QED  BY <2>1, <2>2, <2>3 DEF Next
<1> QED  BY <1>1, <1>2, TiposCorretos, PTL DEF Spec

(* The list of playable cards that a client is sent for its turn is exactly   *)
(* what game_podeJogarCarta would accept from it.                             *)
THEOREM UmaSoRegra == Spec => []AnunciadasSaoAceitas
<1>1. TypeOK => AnunciadasSaoAceitas
  <2> SUFFICES ASSUME TypeOK
               PROVE  CartasPossiveis(jogadorDaVez)
                        = {c \in Cartas : PodeJogarCarta(jogadorDaVez, c)}
    BY DEF AnunciadasSaoAceitas
  <2>1. \A i \in DOMAIN maos[jogadorDaVez] : maos[jogadorDaVez][i] \in Cartas
    BY ElementOfSeq DEF TypeOK
  <2> QED  BY <2>1 DEF CartasPossiveis, PodeJogarCarta
<1> QED  BY <1>1, TiposCorretos, PTL

-----------------------------------------------------------------------------
(* The engine implements RegrasUno.                                           *)

\* What Lugar says when no card is in two places.
LugarDefinido ==
    \A c \in Cartas :
        /\ Lugar(c) = -1 <=> c \in Conteudo(baralho)
        /\ Lugar(c) = -2 <=> c = ultimaCarta
        /\ \A p \in Jogadores : Lugar(c) = p <=> c \in Conteudo(maos[p])
        /\ Lugar(c) \in {-1, -2, -3} \cup Jogadores

LEMMA LugarCorreto == TypeOK /\ CartasUnicas => LugarDefinido
<1> SUFFICES ASSUME TypeOK, CartasUnicas, NEW c \in Cartas
             PROVE  /\ Lugar(c) = -1 <=> c \in Conteudo(baralho)
                    /\ Lugar(c) = -2 <=> c = ultimaCarta
                    /\ \A p \in Jogadores : Lugar(c) = p <=> c \in Conteudo(maos[p])
                    /\ Lugar(c) \in {-1, -2, -3} \cup Jogadores
  BY DEF LugarDefinido
<1>0. -1 \notin Jogadores /\ -2 \notin Jogadores /\ -3 \notin Jogadores
  BY Tamanhos
<1>1. CASE c \in Conteudo(baralho)
  <2>1. Lugar(c) = -1 /\ c # ultimaCarta
    BY <1>1 DEF Lugar, CartasUnicas
  <2>2. \A p \in Jogadores : c \notin Conteudo(maos[p])
    BY <1>1 DEF CartasUnicas
  <2> QED  BY <1>0, <1>1, <2>1, <2>2
<1>2. CASE c = ultimaCarta
  <2>1. Lugar(c) = -2 /\ c \notin Conteudo(baralho)
    BY <1>2 DEF Lugar, CartasUnicas
  <2>2. \A p \in Jogadores : c \notin Conteudo(maos[p])
    BY <1>2 DEF CartasUnicas
  <2> QED  BY <1>0, <1>2, <2>1, <2>2
<1>3. CASE c \notin Conteudo(baralho) /\ c # ultimaCarta
  <2>1. CASE \E p \in Jogadores : c \in Conteudo(maos[p])
    <3>1. PICK p \in Jogadores : c \in Conteudo(maos[p])
      BY <2>1
    <3>2. \A q \in Jogadores : c \in Conteudo(maos[q]) => q = p
      BY <3>1 DEF CartasUnicas
    <3>3. Lugar(c) = CHOOSE q \in Jogadores : c \in Conteudo(maos[q])
      BY <1>3, <2>1 DEF Lugar
    <3>4. Lugar(c) = p
      BY <3>1, <3>2, <3>3
    <3> QED  BY <1>0, <1>3, <3>1, <3>2, <3>4
  <2>2. CASE \A p \in Jogadores : c \notin Conteudo(maos[p])
    <3>1. Lugar(c) = -3
      BY <1>3, <2>2 DEF Lugar
    <3> QED  BY <1>0, <1>3, <2>2, <3>1
  <2> QED  BY <2>1, <2>2
<1> QED  BY <1>1, <1>2, <1>3

\* Both modules speak of the same cards and players.
LEMMA MesmasCartas ==
    /\ Regras!Cartas = Cartas
    /\ Regras!Jogadores = Jogadores
    /\ \A p \in Jogadores : Regras!Adversario(p) = (p + 1) % 2
    /\ \A c \in Cartas : Regras!Cor(c) = Cor(c) /\ Regras!Simbolo(c) = Simbolo(c)
BY DEF Regras!Cartas, Regras!NumCartas, Cartas, NumCartas, Regras!Jogadores, Jogadores,
       Regras!MAX_PLAYERS, MAX_PLAYERS, Regras!Adversario, Regras!Cor, Cor,
       Regras!Simbolo, Simbolo

\* The sets of cards of RegrasUno are the contents of the arrays.
LEMMA LugaresDoJogo ==
    ASSUME LugarDefinido, TypeOK
    PROVE  /\ Regras!Em(-1) = Conteudo(baralho)
           /\ Regras!Em(-2) = {ultimaCarta}
           /\ \A p \in Jogadores : Regras!Em(p) = Conteudo(maos[p])
<1>1. ultimaCarta \in Cartas /\ Conteudo(baralho) \subseteq Cartas
  BY LenProperties, ElementOfSeq DEF TypeOK, Conteudo
<1>2. \A p \in Jogadores : Conteudo(maos[p]) \subseteq Cartas
  <2> SUFFICES ASSUME NEW p \in Jogadores PROVE Conteudo(maos[p]) \subseteq Cartas
    OBVIOUS
  <2>1. maos[p] \in Seq(Cartas)
    BY DEF TypeOK
  <2> QED  BY <2>1, LenProperties, ElementOfSeq DEF Conteudo
<1>3. /\ Regras!Em(-1) = {c \in Cartas : Lugar(c) = -1}
      /\ Regras!Em(-2) = {c \in Cartas : Lugar(c) = -2}
      /\ \A p \in Jogadores : Regras!Em(p) = {c \in Cartas : Lugar(c) = p}
  BY MesmasCartas DEF Regras!Em
<1>4. Regras!Em(-1) = Conteudo(baralho) /\ Regras!Em(-2) = {ultimaCarta}
  BY <1>1, <1>3 DEF LugarDefinido
<1>5. \A p \in Jogadores : Regras!Em(p) = Conteudo(maos[p])
  BY <1>2, <1>3 DEF LugarDefinido
<1> QED  BY <1>4, <1>5

\* No card is left out of the deal.
LEMMA TodasDistribuidas ==
    ASSUME Init, TypeOK, NEW c \in Cartas
    PROVE  \/ c \in Conteudo(baralho)
           \/ c = ultimaCarta
           \/ \E p \in Jogadores : c \in Conteudo(maos[p])
<1>1. PICK b \in Embaralhamentos :
        /\ maos = Distribuicao(b)
        /\ ultimaCarta = b[Restantes]
        /\ baralho = [i \in 1 .. Restantes - 1 |-> b[i]]
  BY DEF Init
<1>2. \E i \in 1 .. NumCartas : b[i] = c
  <2>1. /\ IsFiniteSet(Cartas) /\ IsFiniteSet(1 .. NumCartas)
        /\ Cardinality(Cartas) = NumCartas /\ Cardinality(1 .. NumCartas) = NumCartas
    BY Tamanhos, FS_Interval DEF Cartas
  <2>2. b \in Surjection(1 .. NumCartas, Cartas)
    BY <2>1, FS_Injection DEF Embaralhamentos
  <2> QED  BY <2>2 DEF Surjection
<1>3. PICK i \in 1 .. NumCartas : b[i] = c
  BY <1>2
<1>4. CASE i < Restantes
  BY <1>1, <1>3, <1>4, Tamanhos DEF Conteudo
<1>5. CASE i = Restantes
  BY <1>1, <1>3, <1>5
<1>6. CASE i > Restantes
  <2>1. \E p \in Jogadores, r \in 1 .. CARTAS_INICIAIS :
          i = NumCartas - 2 * (r - 1) - p
    <3> DEFINE p == (NumCartas - i) % 2
               r == (NumCartas - i) \div 2 + 1
    <3>1. /\ p \in {0, 1} /\ r \in Int
          /\ NumCartas - i = 2 * (r - 1) + p
      BY Tamanhos
    <3> HIDE DEF p, r
    <3>2. r \in 1 .. CARTAS_INICIAIS /\ i = NumCartas - 2 * (r - 1) - p
      BY <1>6, <3>1, Tamanhos
    <3> QED  BY <3>1, <3>2, Tamanhos
  <2>2. PICK p \in Jogadores, r \in 1 .. CARTAS_INICIAIS :
          i = NumCartas - 2 * (r - 1) - p
    BY <2>1
  <2>3. b \in [1 .. NumCartas -> Cartas]
    BY EmbaralhamentoSemRepeticao
  <2>4. maos[p] \in Seq(Cartas) /\ Len(maos[p]) = CARTAS_INICIAIS /\ maos[p][r] = b[i]
    BY <1>1, <2>2, <2>3, FatosDaDistribuicao
  <2>5. r \in DOMAIN maos[p]
    BY <2>4, LenProperties
  <2>6. c \in Conteudo(maos[p])
    BY <1>3, <2>4, <2>5 DEF Conteudo
  <2> QED  BY <2>6
<1> QED  BY <1>4, <1>5, <1>6, Tamanhos

(* Every behaviour of the engine is a behaviour of the rules, for every deck  *)
(* and deal.                                                                  *)
THEOREM ImplementaAsRegras == Spec => SegueAsRegras
<1>1. Init /\ TypeOK /\ CartasUnicas /\ VitoriaCoerente => Regras!Init
  <2> SUFFICES ASSUME Init, TypeOK, CartasUnicas, VitoriaCoerente PROVE Regras!Init
    OBVIOUS
  <2>1. LugarDefinido
    BY LugarCorreto
  <2>2. /\ Regras!Em(-2) = {ultimaCarta}
        /\ \A p \in Jogadores : Regras!Em(p) = Conteudo(maos[p])
    BY <2>1, LugaresDoJogo
  <2>3. \A p \in Jogadores : Conteudo(maos[p]) # {}
    <3> SUFFICES ASSUME NEW p \in Jogadores PROVE Conteudo(maos[p]) # {}
      OBVIOUS
    <3>1. maos[p] \in Seq(Cartas) /\ maos[p] # << >>
      BY DEF TypeOK, VitoriaCoerente, Init
    <3> QED  BY <3>1, TirarDoTopo
  <2>4. \A c \in Cartas : Lugar(c) \in {-1, -2} \cup Jogadores
    <3> SUFFICES ASSUME NEW c \in Cartas PROVE Lugar(c) \in {-1, -2} \cup Jogadores
      OBVIOUS
    <3>1. \/ c \in Conteudo(baralho)
          \/ c = ultimaCarta
          \/ \E p \in Jogadores : c \in Conteudo(maos[p])
      BY TodasDistribuidas
    <3> QED  BY <2>1, <3>1 DEF LugarDefinido
  <2>5. ultimaCarta \in Cartas /\ jogadorDaVez = 0 /\ ~partidaFinalizada
    BY DEF TypeOK, Init
  <2>6. [c \in Cartas |-> Lugar(c)] \in [Cartas -> (Jogadores \cup {-1, -2, -3}) \ {-3}]
    BY <2>4, Tamanhos
  <2>7. \E c \in Cartas : Regras!Em(-2) = {c}
    BY <2>2, <2>5
  <2>8. \A p \in Jogadores : Regras!Em(p) # {}
    BY <2>2, <2>3
  <2> QED
    BY <2>5, <2>6, <2>7, <2>8, MesmasCartas
    DEF Regras!Init, Regras!Lugares, Regras!Baralho, Regras!Mesa,
        Regras!Descarte, Regras!Ninguem
<1>2. /\ TypeOK /\ CartasUnicas /\ VitoriaCoerente /\ TypeOK' /\ CartasUnicas'
      /\ [Next]_jogoVars
      => [Regras!Next]_Regras!regrasVars
  <2> SUFFICES ASSUME TypeOK, CartasUnicas, VitoriaCoerente, TypeOK', CartasUnicas',
                      [Next]_jogoVars
               PROVE  [Regras!Next]_Regras!regrasVars
    OBVIOUS
  <2>1. LugarDefinido /\ LugarDefinido'
    BY LugarCorreto, PTL
  <2>2. ASSUME NEW p \in Jogadores, ComprarCarta(p) PROVE Regras!Comprar(p)
    <3> DEFINE c == baralho[Len(baralho)]
    <3>1. /\ c \in Conteudo(baralho) /\ c \in Cartas
          /\ Conteudo(maos'[p]) = Conteudo(maos[p]) \cup {c}
          /\ Conteudo(baralho') = Conteudo(baralho) \ {c}
          /\ \A q \in Jogadores \ {p} : maos'[q] = maos[q]
          /\ ultimaCarta' = ultimaCarta
          /\ ~partidaFinalizada /\ partidaFinalizada' = partidaFinalizada
      BY <2>2, FatosDeComprar DEF TypeOK, ComprarCarta
    <3> HIDE DEF c
    <3>2. \A x \in Cartas : Lugar(x)' = IF x = c THEN p ELSE Lugar(x)
      <4> SUFFICES ASSUME NEW x \in Cartas
                   PROVE  Lugar(x)' = IF x = c THEN p ELSE Lugar(x)
        OBVIOUS
      <4>1. /\ Lugar(x)' = -1 <=> x \in Conteudo(baralho')
            /\ Lugar(x)' = -2 <=> x = ultimaCarta'
            /\ \A q \in Jogadores : Lugar(x)' = q <=> x \in Conteudo(maos'[q])
            /\ Lugar(x)' \in {-1, -2, -3} \cup Jogadores
        BY <2>1 DEF LugarDefinido
      <4>2. /\ Lugar(x) = -1 <=> x \in Conteudo(baralho)
            /\ Lugar(x) = -2 <=> x = ultimaCarta
            /\ \A q \in Jogadores : Lugar(x) = q <=> x \in Conteudo(maos[q])
            /\ Lugar(x) \in {-1, -2, -3} \cup Jogadores
        BY <2>1 DEF LugarDefinido
      <4>3. CASE x = c
        BY <3>1, <4>1, <4>3
      <4>4. CASE x # c
        <5>1. \A q \in Jogadores : x \in Conteudo(maos'[q]) <=> x \in Conteudo(maos[q])
          BY <3>1, <4>4
        <5>2. x \in Conteudo(baralho') <=> x \in Conteudo(baralho)
          BY <3>1, <4>4
        <5> QED  BY <3>1, <4>1, <4>2, <4>4, <5>1, <5>2
      <4> QED  BY <4>3, <4>4
    <3>3. [x \in Cartas |-> Lugar(x)]' = [[x \in Cartas |-> Lugar(x)] EXCEPT ![c] = p]
      BY <3>1, <3>2
    <3>4. c \in Regras!Em(-1)
      BY <2>1, <3>1, LugaresDoJogo
    <3>5. jogadorDaVez' = (jogadorDaVez + 1) % 2
      BY <2>2 DEF ComprarCarta, ProximoJogador, MAX_PLAYERS
    <3> QED
      BY <3>1, <3>3, <3>4, <3>5, MesmasCartas
      DEF Regras!Comprar, Regras!Baralho, Regras!Ninguem, TypeOK
  <2>3. ASSUME NEW p \in Jogadores, NEW c \in Cartas, JogarCarta(p, c)
        PROVE  Regras!Jogar(p)
    <3> DEFINE m == ultimaCarta
    <3>1. /\ c \in Conteudo(maos[p]) /\ m \in Cartas /\ c # m
          /\ Conteudo(maos'[p]) = Conteudo(maos[p]) \ {c}
          /\ baralho' = baralho
          /\ \A q \in Jogadores \ {p} : maos'[q] = maos[q]
          /\ ultimaCarta' = c
          /\ ~partidaFinalizada
          /\ p = jogadorDaVez
      <4>1. /\ c \in Conteudo(maos[p])
            /\ \A q \in Jogadores \ {p} : maos'[q] = maos[q]
            /\ ultimaCarta' = c
            /\ p = jogadorDaVez
            /\ SemRepeticao(maos[p]) => Conteudo(maos'[p]) = Conteudo(maos[p]) \ {c}
        BY <2>3, FatosDeJogar DEF TypeOK
      <4>2. SemRepeticao(maos[p]) /\ m \notin Conteudo(maos[p])
        BY DEF CartasUnicas
      <4>3. m \in Cartas /\ baralho' = baralho /\ ~partidaFinalizada
        BY <2>3 DEF TypeOK, JogarCarta
      <4> QED  BY <4>1, <4>2, <4>3
    <3>2. \A x \in Cartas :
            Lugar(x)' = IF x = m THEN -3 ELSE IF x = c THEN -2 ELSE Lugar(x)
      <4> SUFFICES ASSUME NEW x \in Cartas
                   PROVE  Lugar(x)' = IF x = m THEN -3 ELSE IF x = c THEN -2 ELSE Lugar(x)
        OBVIOUS
      <4>1. /\ Lugar(x)' = -1 <=> x \in Conteudo(baralho')
            /\ Lugar(x)' = -2 <=> x = ultimaCarta'
            /\ \A q \in Jogadores : Lugar(x)' = q <=> x \in Conteudo(maos'[q])
            /\ Lugar(x)' \in {-1, -2, -3} \cup Jogadores
        BY <2>1 DEF LugarDefinido
      <4>2. /\ Lugar(x) = -1 <=> x \in Conteudo(baralho)
            /\ Lugar(x) = -2 <=> x = m
            /\ \A q \in Jogadores : Lugar(x) = q <=> x \in Conteudo(maos[q])
            /\ Lugar(x) \in {-1, -2, -3} \cup Jogadores
        BY <2>1 DEF LugarDefinido
      <4>3. CASE x = m
        <5>1. x \notin Conteudo(baralho') /\ x # ultimaCarta'
          BY <3>1, <4>3 DEF CartasUnicas
        <5>2. \A q \in Jogadores : x \notin Conteudo(maos'[q])
          BY <3>1, <4>3 DEF CartasUnicas
        <5> QED  BY <4>1, <4>3, <5>1, <5>2
      <4>4. CASE x = c
        BY <3>1, <4>1, <4>4
      <4>5. CASE x # c /\ x # m
        <5>1. \A q \in Jogadores : x \in Conteudo(maos'[q]) <=> x \in Conteudo(maos[q])
          BY <3>1, <4>5
        <5>2. x \in Conteudo(baralho') <=> x \in Conteudo(baralho)
          BY <3>1
        <5> QED  BY <3>1, <4>1, <4>2, <4>5, <5>1, <5>2
      <4> QED  BY <4>3, <4>4, <4>5
    <3>3. [x \in Cartas |-> Lugar(x)]'
            = [[x \in Cartas |-> Lugar(x)] EXCEPT ![c] = -2, ![m] = -3]
      BY <3>1, <3>2
    <3>4. c \in Regras!Em(p) /\ m \in Regras!Em(-2)
      BY <2>1, <3>1, LugaresDoJogo
    <3>5. Cor(c) = Cor(m) \/ Simbolo(c) = Simbolo(m)
      BY <2>3 DEF JogarCarta, PodeJogarCarta
    <3>6. Regras!Em(p) = {c} <=> Len(maos'[p]) = 0
      <4>1. Regras!Em(p) = Conteudo(maos[p]) /\ maos'[p] \in Seq(Cartas)
        BY <2>1, LugaresDoJogo DEF TypeOK
      <4>2. Regras!Em(p) = {c} <=> Conteudo(maos'[p]) = {}
        BY <3>1, <4>1
      <4>3. DOMAIN maos'[p] = 1 .. Len(maos'[p]) /\ Len(maos'[p]) \in Nat
        BY <4>1, LenProperties
      <4>4. Conteudo(maos'[p]) = {} <=> Len(maos'[p]) = 0
        <5>1. Conteudo(maos'[p]) = {} <=> DOMAIN maos'[p] = {}
          BY DEF Conteudo
        <5> QED  BY <4>3, <5>1
      <4> QED  BY <4>2, <4>4
    <3>7. CASE Len(maos'[p]) = 0
      <4>1. /\ partidaFinalizada' = TRUE
            /\ jogadorDaVez' = jogadorDaVez
        BY <2>3, <3>7 DEF JogarCarta, QtdCartas
      <4> QED
        BY <3>1, <3>3, <3>4, <3>5, <3>6, <3>7, <4>1, MesmasCartas
        DEF Regras!Jogar, Regras!Mesa, Regras!Descarte, Regras!Ninguem, TypeOK
    <3>8. CASE Len(maos'[p]) # 0
      <4>1. /\ partidaFinalizada' = FALSE
            /\ jogadorDaVez' = (jogadorDaVez + 1) % 2
        BY <2>3, <3>1, <3>8 DEF JogarCarta, QtdCartas, ProximoJogador, MAX_PLAYERS
      <4> QED
        BY <3>1, <3>3, <3>4, <3>5, <3>6, <3>8, <4>1, MesmasCartas
        DEF Regras!Jogar, Regras!Mesa, Regras!Descarte, Regras!Ninguem, TypeOK
    <3> QED  BY <3>7, <3>8
  <2>4. CASE UNCHANGED jogoVars
    BY <2>4 DEF jogoVars, Regras!regrasVars, Lugar
  <2> QED  BY <2>2, <2>3, <2>4, MesmasCartas DEF Next, Regras!Next
<1> QED
  BY <1>1, <1>2, TiposCorretos, CustodiaDasCartas, UmVencedor, PTL
  DEF Spec, SegueAsRegras, Regras!Spec
=============================================================================
