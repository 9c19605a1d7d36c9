------------------------------- MODULE UnoGame -------------------------------
(* The rules engine of the server, UnoServer/src/game.c, together with the    *)
(* set-up of a match in worker.c (prepararEstadoInicial).  The structure Jogo *)
(* is local to the worker thread, which applies one request at a time: each   *)
(* accepted request is one action here, and a refused one changes nothing.    *)
EXTENDS UnoCartas, Sequences, Functions

CONSTANTS CARTAS_INICIAIS,           \* cards dealt to each player, 7
          MAX_QTD_CARTAS_JOGADOR     \* room in a hand, 16

(* The deal needs one more card than the hands take: prepararEstadoInicial    *)
(* reads the next one without looking whether the deck still has it.          *)
ASSUME DistribuicaoAssumption ==
    /\ CARTAS_INICIAIS \in Nat \ {0}
    /\ MAX_QTD_CARTAS_JOGADOR \in Nat
    /\ CARTAS_INICIAIS <= MAX_QTD_CARTAS_JOGADOR
    /\ MAX_PLAYERS * CARTAS_INICIAIS + 1 <= NumCartas

VARIABLES maos,               \* jogadores[p].cartas[0 .. qtdCartas - 1]
          baralho,            \* baralho[0 .. topoBaralho - 1]; the top is last
          ultimaCarta,        \* the card on the table
          jogadorDaVez,
          numeroRodada,
          partidaFinalizada

jogoVars == <<maos, baralho, ultimaCarta, jogadorDaVez, numeroRodada,
              partidaFinalizada>>

-----------------------------------------------------------------------------
(* The set-up of a match.                                                     *)

(* game_criarBaralho and game_embaralhar: swaps alone move the cards, so the  *)
(* shuffled deck holds each of them once, in any order.                       *)
Embaralhamentos == Injection(1 .. NumCartas, Cartas)

(* game_distribuirCartas: from the top, one card to each player in turn.      *)
Distribuicao(b) ==
    [p \in Jogadores |->
        [r \in 1 .. CARTAS_INICIAIS |-> b[NumCartas - MAX_PLAYERS * (r - 1) - p]]]

Restantes == NumCartas - MAX_PLAYERS * CARTAS_INICIAIS

Init ==
    /\ \E b \in Embaralhamentos :
         /\ maos = Distribuicao(b)
         /\ ultimaCarta = b[Restantes]
         /\ baralho = [i \in 1 .. Restantes - 1 |-> b[i]]
    /\ jogadorDaVez = 0
    /\ numeroRodada = 1
    /\ partidaFinalizada = FALSE

-----------------------------------------------------------------------------
(* Playing and drawing.                                                       *)

QtdCartas(p) == Len(maos[p])

\* Mutant: the turn is not looked at.
PodeJogarForaDaVez(p, c) ==
    /\ \E i \in DOMAIN maos[p] : maos[p][i] = c
    /\ Cor(c) = Cor(ultimaCarta) \/ Simbolo(c) = Simbolo(ultimaCarta)

\* game_podeJogarCarta
PodeJogarCarta(p, c) ==
    /\ jogadorDaVez = p
    /\ \E i \in DOMAIN maos[p] : maos[p][i] = c
    /\ Cor(c) = Cor(ultimaCarta) \/ Simbolo(c) = Simbolo(ultimaCarta)

\* Mutant: the list of playable cards forgets the symbol.
CartasDaMesmaCor(p) ==
    {maos[p][i] : i \in {j \in DOMAIN maos[p] : Cor(maos[p][j]) = Cor(ultimaCarta)}}

(* game_obterCartasPossiveis: the ids a player is told he can play.  It is a  *)
(* second copy of the rule and it does not look at the turn.                  *)
CartasPossiveis(p) ==
    {maos[p][i] : i \in {j \in DOMAIN maos[p] :
        \/ Cor(maos[p][j]) = Cor(ultimaCarta)
        \/ Simbolo(maos[p][j]) = Simbolo(ultimaCarta)}}

\* The shift to the left that takes the card at index i out of a hand.
SemIndice(mao, i) ==
    [k \in 1 .. Len(mao) - 1 |-> IF k < i THEN mao[k] ELSE mao[k + 1]]

\* Mutant: the round is counted at every turn.
ProximaRodada ==
    IF partidaFinalizada
      THEN UNCHANGED <<jogadorDaVez, numeroRodada>>
      ELSE /\ jogadorDaVez' = (jogadorDaVez + 1) % MAX_PLAYERS
           /\ numeroRodada' = numeroRodada + 1

\* game_proximoJogador
ProximoJogador ==
    IF partidaFinalizada
      THEN UNCHANGED <<jogadorDaVez, numeroRodada>>
      ELSE /\ jogadorDaVez' = (jogadorDaVez + 1) % MAX_PLAYERS
           /\ numeroRodada' =
                IF jogadorDaVez' = 0 THEN numeroRodada + 1 ELSE numeroRodada

\* Mutant: the room in the hand is not looked at.
PodeComprarSempre(p) == baralho # << >>

PodeComprar(p) ==
    /\ baralho # << >>
    /\ QtdCartas(p) < MAX_QTD_CARTAS_JOGADOR

\* Mutant: topoBaralho is not lowered.
ComprarSemRetirar(p) ==
    /\ ~partidaFinalizada
    /\ PodeComprar(p)
    /\ maos' = [maos EXCEPT ![p] = Append(@, baralho[Len(baralho)])]
    /\ ProximoJogador
    /\ UNCHANGED <<baralho, ultimaCarta, partidaFinalizada>>

(* game_comprarCarta.  The code asks for cards in the deck and for room in    *)
(* the hand, and not whose turn it is.  The first conjunct is the worker's:   *)
(* it discards every request once the match is over.                          *)
ComprarCarta(p) ==
    /\ ~partidaFinalizada
    /\ PodeComprar(p)
    /\ maos' = [maos EXCEPT ![p] = Append(@, baralho[Len(baralho)])]
    /\ baralho' = SubSeq(baralho, 1, Len(baralho) - 1)
    /\ ProximoJogador
    /\ UNCHANGED <<ultimaCarta, partidaFinalizada>>

\* Mutant: the turn passes also when the match ends.
JogarPassandoVez(p, c) ==
    /\ ~partidaFinalizada
    /\ PodeJogarCarta(p, c)
    /\ ultimaCarta' = c
    /\ \E i \in DOMAIN maos[p] :
         /\ maos[p][i] = c
         /\ maos' = [maos EXCEPT ![p] = SemIndice(@, i)]
    /\ partidaFinalizada' = (Len(maos'[p]) = 0)
    /\ ProximoJogador
    /\ UNCHANGED baralho

(* game_jogarCarta.  A player who gets rid of his last card ends the match    *)
(* and keeps the turn.                                                        *)
JogarCarta(p, c) ==
    /\ ~partidaFinalizada
    /\ PodeJogarCarta(p, c)
    /\ ultimaCarta' = c
    /\ \E i \in DOMAIN maos[p] :
         /\ maos[p][i] = c
         /\ maos' = [maos EXCEPT ![p] = SemIndice(@, i)]
    /\ IF Len(maos'[p]) = 0
         THEN /\ partidaFinalizada' = TRUE
              /\ UNCHANGED <<jogadorDaVez, numeroRodada>>
         ELSE /\ ProximoJogador
              /\ UNCHANGED partidaFinalizada
    /\ UNCHANGED baralho

Next ==
    \E p \in Jogadores :
        \/ ComprarCarta(p)
        \/ \E c \in Cartas : JogarCarta(p, c)

Spec == Init /\ [][Next]_jogoVars

-----------------------------------------------------------------------------
(* What makes the engine correct.                                             *)

(* Every variable has its type; a hand never outgrows the array cartas[16]    *)
(* of Jogador, nor idsCartasPossiveis, which is as long.                      *)
TypeOK ==
    /\ maos \in [Jogadores -> Seq(Cartas)]
    /\ \A p \in Jogadores : QtdCartas(p) <= MAX_QTD_CARTAS_JOGADOR
    /\ baralho \in Seq(Cartas)
    /\ ultimaCarta \in Cartas
    /\ jogadorDaVez \in Jogadores
    /\ numeroRodada \in Nat \ {0}
    /\ partidaFinalizada \in BOOLEAN

SemRepeticao(s) == \A i, j \in DOMAIN s : s[i] = s[j] => i = j

Conteudo(s) == {s[i] : i \in DOMAIN s}

(* A card is in at most one place: no card is twice in a hand or in the deck, *)
(* in two hands, in a hand and in the deck, or in one of these and on the     *)
(* table.  Dealing, drawing and playing copy cards between arrays by index,   *)
(* and the first card of the table is taken by hand in worker.c.              *)
CartasUnicas ==
    /\ SemRepeticao(baralho)
    /\ \A p \in Jogadores :
         /\ SemRepeticao(maos[p])
         /\ Conteudo(maos[p]) \cap Conteudo(baralho) = {}
         /\ ultimaCarta \notin Conteudo(maos[p])
         /\ \A q \in Jogadores \ {p} : Conteudo(maos[p]) \cap Conteudo(maos[q]) = {}
    /\ ultimaCarta \notin Conteudo(baralho)

(* The match is over exactly when some hand is empty, and the empty hand is   *)
(* that of jogadorDaVez alone.  The clients learn who won from this field:    *)
(* game_obterEstado sends it as suaVez, and the opponent's number of cards.   *)
VitoriaCoerente ==
    \A p \in Jogadores :
        maos[p] = << >> <=> partidaFinalizada /\ p = jogadorDaVez

(* Accepted requests use the match up: each of them lowers this number by one *)
(* (a draw moves a card that counts 2 to where it counts 1, a play takes one  *)
(* card that counts 1 away).                                                  *)
Medida == 2 * Len(baralho) + QtdCartas(0) + QtdCartas(1)

MedidaInicial == 2 * (Restantes - 1) + MAX_PLAYERS * CARTAS_INICIAIS

\* The number of accepted requests, read off the turn counters.
Jogadas ==
    MAX_PLAYERS * (numeroRodada - 1) + jogadorDaVez
        + (IF partidaFinalizada THEN 1 ELSE 0)

(* The turn counters and the cards tell the same story: numeroRodada and      *)
(* jogadorDaVez count the accepted requests exactly, also after draws out of  *)
(* turn, so a match accepts at most MedidaInicial requests and numeroRodada   *)
(* cannot grow beyond half of that.                                           *)
ContagemDeJogadas == Jogadas + Medida = MedidaInicial

(* What a client is told it can play is what the server accepts from it when  *)
(* its turn comes: game_obterCartasPossiveis and game_podeJogarCarta agree.   *)
AnunciadasSaoAceitas ==
    CartasPossiveis(jogadorDaVez) =
        {c \in Cartas : PodeJogarCarta(jogadorDaVez, c)}

(* spec.md says that a player on turn can always draw (the second of his two  *)
(* actions), so that a match can always go on.  The code refuses the draw     *)
(* when the deck is empty or the hand full, and has no way to pass: the match *)
(* is stuck when the player on turn has no matching card either.              *)
SempreHaJogada ==
    partidaFinalizada \/ PodeComprar(jogadorDaVez)
        \/ CartasPossiveis(jogadorDaVez) # {}

-----------------------------------------------------------------------------
(* The engine implements the rules of a match.                                *)

Lugar(c) ==
    IF c \in Conteudo(baralho) THEN -1
    ELSE IF c = ultimaCarta THEN -2
    ELSE IF \E p \in Jogadores : c \in Conteudo(maos[p])
      THEN CHOOSE p \in Jogadores : c \in Conteudo(maos[p])
      ELSE -3

Regras == INSTANCE RegrasUno WITH
    lugar <- [c \in Cartas |-> Lugar(c)],
    vez <- jogadorDaVez,
    vencedor <- IF partidaFinalizada THEN jogadorDaVez ELSE -1

(* Every behaviour of the engine is one the rules allow: cards move only      *)
(* forward and none comes back, the table card is always covered by a         *)
(* matching one, only the player on turn plays, and the first empty hand wins.*)
SegueAsRegras == Regras!Spec
=============================================================================
