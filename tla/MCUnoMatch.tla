------------------------------ MODULE MCUnoMatch ------------------------------
(* UnoMatch with a deck of six cards, two colours of three symbols, and three *)
(* shuffles of it.                                                            *)
EXTENDS UnoMatch

(* From the end: the hand of player 0, the hand of player 1, the table, and   *)
(* the deck from its top.  On table card 0, of colour 0 (cards 0 to 2) and    *)
(* symbol 0 (cards 0 and 3): in the first, only player 1 has a matching card, *)
(* in the second only player 0, who wins with it, and in the third nobody.    *)
MCBaralhos ==
    {<<3, 2, 5, 0, 1, 4>>, <<5, 3, 2, 0, 4, 1>>, <<1, 2, 3, 0, 5, 4>>}

MCInit ==
    /\ Init
    /\ \E b \in MCBaralhos :
         /\ maos = Jogo!Distribuicao(b)
         /\ ultimaCarta = b[4]
         /\ baralho = SubSeq(b, 1, 3)

MCSpec == MCInit /\ [][Next]_vars
MCFairSpec == MCSpec /\ Justica
=============================================================================
