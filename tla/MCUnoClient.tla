----------------------------- MODULE MCUnoClient -----------------------------
(* UnoClient with windows around the limits of validarTela, a hand of three   *)
(* cards that shrinks to one, both ends of a match, one of them with the      *)
(* largest hand, and messages of two bytes.                                   *)
EXTENDS UnoClient

Mao(n) == [i \in 1 .. n |-> i]

\* The smallest window that passes and a larger one, one row too few, too narrow, none.
MCJanelas == {[width |-> 150, height |-> 50], [width |-> 211, height |-> 63],
              [width |-> 150, height |-> 49], [width |-> 100, height |-> 50],
              [width |-> 0, height |-> 0]}

\* The window that README.md asks for.
MCJanelaDoReadme == {[width |-> 150, height |-> 40]}

MCVivos == {[cartas |-> Mao(3), suaVez |-> TRUE, numeroCartasAdversario |-> 2],
            [cartas |-> Mao(1), suaVez |-> FALSE, numeroCartasAdversario |-> 3]}

MCFinais == {[cartas |-> << >>, suaVez |-> TRUE, numeroCartasAdversario |-> 3],
             [cartas |-> Mao(MAX_QTD_CARTAS_JOGADOR), suaVez |-> FALSE,
              numeroCartasAdversario |-> 0]}

\* Screens of two rows of two cells, in all colours that renderScreen tells apart.
MCCelulas == [character : {"x"}, foreground : {0, 31, 37}, background : {0, 32}]

MCQuadros == [1 .. 2 -> [1 .. 2 -> MCCelulas]]
=============================================================================
