------------------------------ MODULE UnoCartas ------------------------------
(* The cards and the two seats of a match.  A card is its id: game.c numbers   *)
(* the cards in the order in which game_criarBaralho creates them, one colour  *)
(* after another, so colour and symbol are functions of the id.                *)
EXTENDS Integers

CONSTANTS NumCores,      \* 4 in the program
          NumSimbolos    \* 10 in the program: the symbols "0" .. "9"

ASSUME BaralhoAssumption ==
    NumCores \in Nat \ {0} /\ NumSimbolos \in Nat \ {0}

NumCartas == NumCores * NumSimbolos

Cartas == 0 .. NumCartas - 1

Cor(c) == c \div NumSimbolos

Simbolo(c) == c % NumSimbolos

MAX_PLAYERS == 2

Jogadores == 0 .. MAX_PLAYERS - 1

Adversario(p) == (p + 1) % MAX_PLAYERS
=============================================================================
