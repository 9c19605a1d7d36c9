------------------------------ MODULE RegrasUno ------------------------------
(* What a match promises, without hands, deck order or message: every card is *)
(* in exactly one place and only moves forward, deck -> hand -> table ->      *)
(* discard, until one player has put his last card on the table.              *)
EXTENDS UnoCartas

VARIABLES lugar,     \* the place of every card
          vez,       \* whose turn it is
          vencedor   \* the winner, or Ninguem

regrasVars == <<lugar, vez, vencedor>>

\* The places that are not a player's hand, and the absence of a winner.
Baralho == -1
Mesa == -2
Descarte == -3
Ninguem == -1

Lugares == Jogadores \cup {Baralho, Mesa, Descarte}

Em(l) == {c \in Cartas : lugar[c] = l}

Init ==
    /\ lugar \in [Cartas -> Lugares \ {Descarte}]
    /\ \E c \in Cartas : Em(Mesa) = {c}
    /\ \A p \in Jogadores : Em(p) # {}
    /\ vez = 0
    /\ vencedor = Ninguem

(* One card from the deck to the hand of p; the turn changes hands.  The rule *)
(* the repository states also demands p = vez, which the server does not      *)
(* check: see the property AposComprarVezDoOutro of UnoMatch.                 *)
Comprar(p) ==
    /\ vencedor = Ninguem
    /\ \E c \in Em(Baralho) : lugar' = [lugar EXCEPT ![c] = p]
    /\ vez' = Adversario(vez)
    /\ UNCHANGED vencedor

\* The player on turn covers the card on the table with a matching one.
Jogar(p) ==
    /\ vencedor = Ninguem
    /\ vez = p
    /\ \E c \in Em(p), m \in Em(Mesa) :
         /\ Cor(c) = Cor(m) \/ Simbolo(c) = Simbolo(m)
         /\ lugar' = [lugar EXCEPT ![c] = Mesa, ![m] = Descarte]
         /\ IF Em(p) = {c}
              THEN vencedor' = p /\ UNCHANGED vez
              ELSE vez' = Adversario(vez) /\ UNCHANGED vencedor

Next == \E p \in Jogadores : Comprar(p) \/ Jogar(p)

Spec == Init /\ [][Next]_regrasVars
=============================================================================
